------------------------ MODULE TerminalCommands_proofs ------------------------
(***************************************************************************)
(* Proofs about TerminalCommands, for any number of commands and calls     *)
(* that have not returned: the types, the order in which commands run,     *)
(* that none is forgotten but by an exception, and that a promise is       *)
(* resolved when its command is done.                                      *)
(***************************************************************************)
EXTENDS TerminalCommands, SequenceTheorems, TLAPS

-----------------------------------------------------------------------------
(* The invariant.                                                          *)

Terminals ==
  [paused : BOOLEAN, enabled : BOOLEAN, frozen : BOOLEAN,
   delayed : Seq(Commands), waiting : Seq(Commands), ran : Seq(Commands),
   requests : Seq(Commands),
   work : [Commands -> {"none", "called", "requested", "promised", "over", "rejected"}],
   promise : [Commands -> {"none", "pending", "resolved", "broken"}]]

Calls == [at : Places, of : Seq(Commands)]

Ran(t) == ToSet(t.ran)

\* The first part: types.
Terminal(t) ==
  /\ t \in Terminals
  /\ t.delayed # <<>> => t.paused
  /\ t.frozen => ~t.enabled
  /\ t.paused => t.ran # <<>>

TypeInv ==
  /\ Terminal(term)
  /\ stack \in Seq(Calls)
  /\ stack # <<>> => term.ran # <<>>
  /\ thrown \in BOOLEAN
  /\ thrown => stack # <<>>
  /\ arrived \in 0..MaxCommands
  /\ typed \subseteq Commands
  /\ inside \subseteq Commands
  /\ old_enabled \in BOOLEAN
  /\ switched \in BOOLEAN

\* The second part: order.  A command may come before another in a queue.
MayPrecede(T, I) ==
  {p \in Commands \X Commands :
     p[1] # p[2] /\ (p[1] \notin T \cup I /\ p[2] \notin T => p[1] < p[2])}

Sorted(u, P) == \A i, j \in 1..Len(u) : i < j => <<u[i], u[j]>> \in P

Before(A, B, P) == \A x \in A, y \in B : <<x, y>> \in P

\* What a call has yet to run, and what all of them have.
LeftTo(f) == IF f.at = "loop" THEN f.of ELSE <<>>
LeftToAll(s) == UNION {ToSet(LeftTo(s[k])) : k \in 1..Len(s)}

StackSorted(s, P) ==
  /\ \A k \in 1..Len(s) : Sorted(LeftTo(s[k]), P)
  /\ \A k, l \in 1..Len(s) :
       k < l => Before(ToSet(LeftTo(s[l])), ToSet(LeftTo(s[k])), P)

\* What has run, what is delayed, and what is left to the calls, the innermost
\* first, is one queue of commands in 1..n.
Queue(r, d, s, n, P) ==
  /\ Sorted(r, P) /\ Sorted(d, P) /\ StackSorted(s, P)
  /\ Before(ToSet(r), ToSet(d), P)
  /\ Before(ToSet(r) \cup ToSet(d), LeftToAll(s), P)
  /\ ToSet(r) \cup ToSet(d) \cup LeftToAll(s) \subseteq 1..n

QueueInv ==
  Queue(term.ran, term.delayed, stack, arrived, MayPrecede(typed, inside))

\* The third part: what is known of a command that is taken for done.
Done(t, c) == t.work[c] \in {"over", "requested"}

CallFits(t, f) ==
  /\ \A c \in Commands :
       /\ f = Call("interpreter", <<c>>) => t.work[c] \in {"called", "requested", "over"}
       /\ f \in {Call("value", <<c>>), Call("fulfilled", <<c>>)} => t.work[c] = "over"
  /\ f.at = "trigger" => \A c \in ToSet(f.of) : Done(t, c)

CallsFit(t, s) == \A k \in 1..Len(s) : CallFits(t, s[k])

\* The interpreter is called once for a command.
CalledOnce(s) ==
  \A k, l \in 1..Len(s) : \A c \in Commands :
    k < l /\ s[k] = Call("interpreter", <<c>>) => s[l] # s[k]

\* While a command that is to resume the terminal is the only one that has run,
\* nothing else resumes it.
Working(t, c) ==
  Ran(t) = {c} /\ t.work[c] \in {"called", "requested"} /\ t.promise[c] = "pending"

Unresumed(t, f, c) ==
  /\ f.at \in {"interpreter", "callback", "abort"}
  /\ f.at = "abort" => t.work[c] = "requested" /\ c \in ToSet(f.of)

Pauses(t, c) ==
  /\ t.work[c] = "called" => ~t.paused
  /\ t.work[c] = "requested" => t.paused /\ c \in ToSet(t.requests)

Alone(t, s) ==
  \A c \in Commands :
    Working(t, c) => Pauses(t, c) /\ \A k \in 1..Len(s) : Unresumed(t, s[k], c)

Kind(t) ==
  /\ \A c \in Commands : t.work[c] # "none" => c \in Ran(t)
  /\ \A c \in ToSet(t.waiting) : Done(t, c)
  /\ \A c \in Commands :
       t.promise[c] = "resolved" =>
         t.work[c] = "over" \/ (t.work[c] = "requested" /\ Ran(t) # {c})

WorkOK(t, s) == Kind(t) /\ CallsFit(t, s) /\ CalledOnce(s) /\ Alone(t, s)

WorkInv == WorkOK(term, stack)

IInv == TypeInv /\ QueueInv /\ WorkInv


-----------------------------------------------------------------------------
(* Sequences.                                                              *)

LEMMA SameFunction ==
  ASSUME NEW D, NEW R, NEW f \in [D -> R], NEW g \in [D -> R], \A x \in D : f[x] = g[x]
  PROVE  f = g
OBVIOUS

(* The members of a sequence, element by element. *)
LEMMA SetOf ==
  ASSUME NEW S, NEW s \in Seq(S)
  PROVE  /\ Len(s) \in Nat /\ DOMAIN s = 1..Len(s)
         /\ \A i \in 1..Len(s) : s[i] \in S /\ s[i] \in ToSet(s)
         /\ \A x \in ToSet(s) : \E i \in 1..Len(s) : x = s[i]
         /\ ToSet(s) \subseteq S
<1>1. Len(s) \in Nat /\ DOMAIN s = 1..Len(s)
  BY LenProperties
<1>2. \A i \in 1..Len(s) : s[i] \in S
  BY ElementOfSeq
<1> QED BY <1>1, <1>2 DEF ToSet

(* A sequence without members is the empty one. *)
LEMMA EmptySet ==
  ASSUME NEW S, NEW s \in Seq(S)
  PROVE  /\ (ToSet(s) = {}) <=> (s = <<>>)
         /\ Len(s) = 0 <=> s = <<>>
<1>1. s # <<>> => Len(s) \in Nat \ {0}
  BY EmptySeq
<1>2. s = <<>> => Len(s) = 0
  OBVIOUS
<1>3. Len(s) \in Nat \ {0} => s[1] \in ToSet(s)
  BY SetOf
<1>4. Len(s) = 0 => ToSet(s) = {}
  <2> DEFINE n == Len(s)
  <2>1. \A x \in ToSet(s) : \E i \in 1..n : x = s[i]
    BY SetOf
  <2> HIDE DEF n
  <2>2. n = 0 => ToSet(s) = {}
    BY <2>1
  <2> QED BY <2>2 DEF n
<1> QED BY <1>1, <1>2, <1>3, <1>4

LEMMA EmptyIs == <<>> \in Seq(Commands) /\ ToSet(<<>>) = {}
<1>1. <<>> \in Seq(Commands)
  OBVIOUS
<1> QED BY <1>1, EmptySet

(* Append adds its element to the set of a sequence. *)
LEMMA AppendSet ==
  ASSUME NEW S, NEW s \in Seq(S), NEW e \in S
  PROVE  ToSet(Append(s, e)) = ToSet(s) \cup {e}
<1> DEFINE a == Append(s, e)
<1>1. /\ a \in Seq(S) /\ Len(a) = Len(s) + 1 /\ Len(s) \in Nat
      /\ \A i \in 1..Len(s) : a[i] = s[i]
      /\ a[Len(s) + 1] = e
  BY AppendProperties
<1>2. DOMAIN a = 1..Len(a) /\ DOMAIN s = 1..Len(s)
  BY <1>1, LenProperties
<1> HIDE DEF a
<1>3. ASSUME NEW x \in ToSet(a) PROVE x \in ToSet(s) \cup {e}
  <2>1. PICK i \in 1..(Len(s) + 1) : x = a[i]
    BY <1>1, <1>2, <1>3 DEF ToSet
  <2>2. i = Len(s) + 1 \/ i \in 1..Len(s)
    BY <1>1
  <2> QED BY <1>1, <1>2, <2>1, <2>2 DEF ToSet
<1>4. ASSUME NEW x \in ToSet(s) \cup {e} PROVE x \in ToSet(a)
  <2>1. \A i \in 1..Len(s) : i \in 1..(Len(s) + 1)
    BY <1>1
  <2>2. Len(s) + 1 \in 1..(Len(s) + 1)
    BY <1>1
  <2> QED BY <1>1, <1>2, <1>4, <2>1, <2>2 DEF ToSet
<1> QED BY <1>3, <1>4 DEF a

(* Head and Tail part the set of a sequence. *)
LEMMA TailSet ==
  ASSUME NEW S, NEW s \in Seq(S), s # <<>>
  PROVE  /\ Head(s) \in S /\ Tail(s) \in Seq(S)
         /\ ToSet(s) = {Head(s)} \cup ToSet(Tail(s))
<1> DEFINE n == Len(s)
           t == Tail(s)
           m == Len(t)
<1>1. Head(s) \in S /\ t \in Seq(S) /\ m = n - 1 /\ \A i \in 1..m : t[i] = s[i + 1]
  BY HeadTailProperties
<1>2. n \in Nat \ {0}
  BY EmptySeq
<1>3. Head(s) = s[1]
  BY <1>2
<1>4. \A i \in 1..n : s[i] \in ToSet(s)
  BY SetOf
<1>5. \A x \in ToSet(s) : \E i \in 1..n : x = s[i]
  BY SetOf
<1>6. \A i \in 1..m : t[i] \in ToSet(t)
  BY <1>1, SetOf
<1>7. \A x \in ToSet(t) : \E i \in 1..m : x = t[i]
  BY <1>1, SetOf
<1>8. Head(s) \in S /\ t \in Seq(S)
  BY <1>1
<1> HIDE DEF n, t, m
<1>9. ASSUME NEW x \in ToSet(s) PROVE x = Head(s) \/ x \in ToSet(t)
  <2>1. PICK i \in 1..n : x = s[i]
    BY <1>5
  <2>2. CASE i = 1
    BY <1>3, <2>1, <2>2
  <2>3. CASE i # 1
    <3>1. i - 1 \in 1..m /\ (i - 1) + 1 = i
      BY <1>1, <1>2, <2>3
    <3>2. t[i - 1] = s[(i - 1) + 1]
      BY <1>1, <3>1
    <3> QED BY <1>6, <2>1, <3>1, <3>2
  <2> QED BY <2>2, <2>3
<1>10. ASSUME NEW x \in ToSet(t) PROVE x \in ToSet(s)
  <2>1. PICK i \in 1..m : x = t[i]
    BY <1>7
  <2>2. i + 1 \in 1..n
    BY <1>1, <1>2
  <2> QED BY <1>1, <1>4, <2>1, <2>2
<1>11. Head(s) \in ToSet(s)
  <2>1. 1 \in 1..n
    BY <1>2
  <2> QED BY <1>3, <1>4, <2>1
<1> QED BY <1>8, <1>9, <1>10, <1>11 DEF t

(* Front drops the last element. *)
LEMMA FrontOf ==
  ASSUME NEW S, NEW s \in Seq(S), s # <<>>
  PROVE  /\ Len(s) \in Nat \ {0} /\ Front(s) \in Seq(S) /\ Len(Front(s)) = Len(s) - 1
         /\ \A i \in 1..(Len(s) - 1) : Front(s)[i] = s[i]
         /\ Last(s) = s[Len(s)] /\ Last(s) \in S
<1> DEFINE n == Len(s)
           k == n - 1
<1>1. n \in Nat \ {0}
  BY EmptySeq
<1>2. \A i \in 1..n : s[i] \in S
  BY ElementOfSeq
<1>3. Front(s) = SubSeq(s, 1, k) /\ Last(s) = s[n]
  BY DEF Front, Last
<1>4. n \in 1..n /\ k \in Nat /\ 1 \in Int /\ k \in Int /\ \A i \in 1..k : i \in 1..n
  <2> HIDE DEF n
  <2> QED BY <1>1
<1>5. \A i \in 1..k : s[i] \in S
  BY <1>2, <1>4
<1> HIDE DEF k
<1>6. /\ SubSeq(s, 1, k) \in Seq(S)
      /\ Len(SubSeq(s, 1, k)) = IF 1 <= k THEN k - 1 + 1 ELSE 0
      /\ \A i \in 1..(k - 1 + 1) : SubSeq(s, 1, k)[i] = s[1 + i - 1]
  BY <1>4, <1>5, SubSeqProperties
<1>7. (IF 1 <= k THEN k - 1 + 1 ELSE 0) = k /\ k - 1 + 1 = k /\ \A i \in 1..k : 1 + i - 1 = i
  BY <1>4
<1>8. Len(Front(s)) = k /\ \A i \in 1..k : Front(s)[i] = s[i]
  BY <1>3, <1>6, <1>7
<1> QED BY <1>1, <1>2, <1>3, <1>4, <1>6, <1>8 DEF k

-----------------------------------------------------------------------------
(* The stack: what holds of all calls, when one is pushed or popped.       *)

LEMMA PushCall ==
  ASSUME NEW s \in Seq(Calls), NEW f \in Calls
  PROVE  /\ Append(s, f) \in Seq(Calls) /\ Append(s, f) # <<>>
         /\ Len(s) \in Nat /\ Len(Append(s, f)) = Len(s) + 1
         /\ \A k \in 1..Len(s) : Append(s, f)[k] = s[k]
         /\ Append(s, f)[Len(s) + 1] = f
         /\ Front(Append(s, f)) = s /\ Last(Append(s, f)) = f
<1> DEFINE a == Append(s, f)
<1>1. /\ a \in Seq(Calls) /\ a # <<>> /\ Len(a) = Len(s) + 1 /\ Len(s) \in Nat
      /\ \A k \in 1..Len(s) : a[k] = s[k]
      /\ a[Len(s) + 1] = f
  BY AppendProperties, LenProperties
<1>2. Last(a) = f
  BY <1>1 DEF Last
<1>3. Front(a) = s
  <2> DEFINE n == Len(s)
             b == Front(a)
  <2>1. b \in Seq(Calls) /\ Len(b) = Len(a) - 1 /\ \A i \in 1..(Len(a) - 1) : b[i] = a[i]
    BY <1>1, FrontOf
  <2>2. n \in Nat /\ Len(a) = n + 1
    BY <1>1
  <2>3. Len(b) = n /\ \A i \in 1..n : b[i] = s[i]
    <3> HIDE DEF b, a
    <3>1. Len(a) - 1 = n
      <4> HIDE DEF n
      <4> QED BY <2>2
    <3>2. \A i \in 1..n : b[i] = a[i] /\ a[i] = s[i]
      BY <1>1, <2>1, <3>1
    <3> QED BY <2>1, <3>1, <3>2
  <2>4. DOMAIN b = 1..n /\ DOMAIN s = 1..n /\ b \in [1..n -> Calls] /\ s \in [1..n -> Calls]
    BY <2>1, <2>3, LenProperties
  <2> HIDE DEF b, n
  <2>5. b = s
    BY <2>3, <2>4
  <2> QED BY <2>5 DEF b
<1> QED BY <1>1, <1>2, <1>3

LEMMA CallIs ==
  ASSUME NEW at \in Places, NEW cs \in Seq(Commands)
  PROVE  Call(at, cs) \in Calls /\ Call(at, cs).at = at /\ Call(at, cs).of = cs
BY DEF Call, Calls

LEMMA OneCommand ==
  ASSUME NEW c \in Commands
  PROVE  <<c>> \in Seq(Commands) /\ ToSet(<<c>>) = {c} /\ <<>> \in Seq(Commands)
<1>1. <<c>> \in Seq(Commands) /\ <<>> \in Seq(Commands)
  OBVIOUS
<1>2. DOMAIN <<c>> = 1..1
  OBVIOUS
<1> QED BY <1>1, <1>2 DEF ToSet

LEMMA LeftToIs ==
  ASSUME NEW f \in Calls
  PROVE  LeftTo(f) \in Seq(Commands) /\ ToSet(LeftTo(f)) \subseteq Commands
<1>1. LeftTo(f) \in Seq(Commands)
  BY DEF LeftTo, Calls
<1> QED BY <1>1, SetOf

(* What is left to the calls, when one is pushed. *)
LEMMA PushLeft ==
  ASSUME NEW s \in Seq(Calls), NEW f \in Calls
  PROVE  LeftToAll(Append(s, f)) = LeftToAll(s) \cup ToSet(LeftTo(f))
<1> DEFINE a == Append(s, f)
           n == Len(s)
<1>1. n \in Nat /\ Len(a) = n + 1 /\ (\A k \in 1..n : a[k] = s[k]) /\ a[n + 1] = f
  BY PushCall
<1>2. LeftToAll(a) = UNION {ToSet(LeftTo(a[k])) : k \in 1..(n + 1)}
  BY <1>1 DEF LeftToAll
<1>3. LeftToAll(s) = UNION {ToSet(LeftTo(s[k])) : k \in 1..n}
  BY DEF LeftToAll
<1> HIDE DEF a, n
<1>4. n + 1 \in 1..(n + 1) /\ \A k \in 1..n : k \in 1..(n + 1)
  BY <1>1
<1>5. \A k \in 1..(n + 1) : k = n + 1 \/ k \in 1..n
  BY <1>1
<1>6. ASSUME NEW x PROVE x \in LeftToAll(a) <=> x \in LeftToAll(s) \cup ToSet(LeftTo(f))
  <2>1. ASSUME x \in LeftToAll(a) PROVE x \in LeftToAll(s) \cup ToSet(LeftTo(f))
    <3>1. PICK k \in 1..(n + 1) : x \in ToSet(LeftTo(a[k]))
      BY <1>2, <2>1
    <3> QED BY <1>1, <1>3, <1>5, <3>1
  <2>2. ASSUME x \in LeftToAll(s) PROVE x \in LeftToAll(a)
    <3>1. PICK k \in 1..n : x \in ToSet(LeftTo(s[k]))
      BY <1>3, <2>2
    <3> QED BY <1>1, <1>2, <1>4, <3>1
  <2>3. ASSUME x \in ToSet(LeftTo(f)) PROVE x \in LeftToAll(a)
    BY <1>1, <1>2, <1>4, <2>3
  <2> QED BY <2>1, <2>2, <2>3
<1> QED BY <1>6 DEF a

(* A stack is its callers and the innermost call. *)
LEMMA StackIs ==
  ASSUME NEW s \in Seq(Calls), s # <<>>
  PROVE  /\ Front(s) \in Seq(Calls) /\ Last(s) \in Calls
         /\ s = Append(Front(s), Last(s))
<1> DEFINE b == Front(s)
           f == Last(s)
           n == Len(s)
           a == Append(b, f)
<1>1. /\ n \in Nat \ {0} /\ b \in Seq(Calls) /\ Len(b) = n - 1
      /\ \A i \in 1..(n - 1) : b[i] = s[i]
      /\ f = s[n] /\ f \in Calls
  BY FrontOf
<1>2. /\ a \in Seq(Calls) /\ Len(a) = Len(b) + 1 /\ (\A k \in 1..Len(b) : a[k] = b[k])
      /\ a[Len(b) + 1] = f
  BY <1>1, PushCall
<1>3. Len(a) = n /\ (\A k \in 1..(n - 1) : a[k] = s[k]) /\ a[n] = s[n]
  <2>1. n - 1 + 1 = n
    <3> HIDE DEF n
    <3> QED BY <1>1
  <2> HIDE DEF a, b, n, f
  <2> QED BY <1>1, <1>2, <2>1
<1>4. /\ a \in [1..n -> Calls] /\ s \in [1..n -> Calls]
      /\ DOMAIN a = 1..n /\ DOMAIN s = 1..n
  BY <1>2, <1>3, LenProperties
<1>5. a = s
  <2> HIDE DEF a, b, n, f
  <2>1. \A k \in 1..n : k = n \/ k \in 1..(n - 1)
    BY <1>1
  <2>2. \A k \in 1..n : a[k] = s[k]
    BY <1>3, <2>1
  <2> DEFINE D == 1..n
  <2>3. a \in [D -> Calls] /\ s \in [D -> Calls] /\ \A k \in D : a[k] = s[k]
    BY <1>4, <2>2
  <2> HIDE DEF D
  <2> QED BY <2>3, SameFunction
<1> QED BY <1>1, <1>5

-----------------------------------------------------------------------------
(* Queues.                                                                 *)

(* A command that may follow all of a queue is put at its end. *)
LEMMA SortedAppend ==
  ASSUME NEW P, NEW u \in Seq(Commands), NEW c \in Commands,
         Sorted(u, P), Before(ToSet(u), {c}, P)
  PROVE  Sorted(Append(u, c), P)
<1> DEFINE a == Append(u, c)
           n == Len(u)
<1>1. n \in Nat /\ Len(a) = n + 1 /\ (\A i \in 1..n : a[i] = u[i]) /\ a[n + 1] = c
  BY AppendProperties, LenProperties
<1>2. \A i \in 1..n : <<u[i], c>> \in P
  BY SetOf DEF Before
<1>3. \A i, j \in 1..n : i < j => <<u[i], u[j]>> \in P
  BY DEF Sorted
<1> HIDE DEF a, n
<1>4. ASSUME NEW i \in 1..(n + 1), NEW j \in 1..(n + 1), i < j PROVE <<a[i], a[j]>> \in P
  <2>1. i \in 1..n
    BY <1>1, <1>4
  <2>2. CASE j = n + 1
    BY <1>1, <1>2, <2>1, <2>2
  <2>3. CASE j # n + 1
    <3>1. j \in 1..n
      BY <1>1, <2>3
    <3> QED BY <1>1, <1>3, <1>4, <2>1, <3>1
  <2> QED BY <2>2, <2>3
<1>5. Len(a) = n + 1
  BY <1>1
<1>6. Sorted(a, P)
  BY <1>4, <1>5 DEF Sorted
<1> QED BY <1>6 DEF a

(* The first command of a queue may precede the others. *)
LEMMA SortedTail ==
  ASSUME NEW P, NEW u \in Seq(Commands), u # <<>>, Sorted(u, P)
  PROVE  Sorted(Tail(u), P) /\ Before({Head(u)}, ToSet(Tail(u)), P)
<1> DEFINE t == Tail(u)
           n == Len(u)
           m == Len(t)
<1>1. n \in Nat \ {0} /\ t \in Seq(Commands) /\ m = n - 1 /\ \A i \in 1..m : t[i] = u[i + 1]
  BY EmptySeq, HeadTailProperties
<1>2. Head(u) = u[1]
  BY <1>1
<1>3. \A i, j \in 1..n : i < j => <<u[i], u[j]>> \in P
  BY DEF Sorted
<1>4. \A x \in ToSet(t) : \E i \in 1..m : x = t[i]
  BY <1>1, SetOf
<1> HIDE DEF t, n, m
<1>5. \A i \in 1..m : i + 1 \in 1..n
  BY <1>1
<1>6. \A i, j \in 1..m : i < j => <<t[i], t[j]>> \in P
  <2> TAKE i, j \in 1..m
  <2> HAVE i < j
  <2>1. i + 1 \in 1..n /\ j + 1 \in 1..n /\ i + 1 < j + 1
    BY <1>1
  <2> QED BY <1>1, <1>3, <2>1
<1>7. \A x \in ToSet(t) : <<u[1], x>> \in P
  <2> TAKE x \in ToSet(t)
  <2>1. PICK i \in 1..m : x = t[i]
    BY <1>4
  <2>2. i + 1 \in 1..n /\ 1 \in 1..n /\ 1 < i + 1
    BY <1>1
  <2> QED BY <1>1, <1>3, <2>1, <2>2
<1> QED BY <1>2, <1>6, <1>7 DEF Sorted, Before, t, m

(* The commands left to a call that is pushed may precede those left to its *)
(* callers.                                                                *)
LEMMA StackSortedPush ==
  ASSUME NEW P, NEW s \in Seq(Calls), NEW f \in Calls
  PROVE  StackSorted(Append(s, f), P) <=>
           /\ StackSorted(s, P)
           /\ Sorted(LeftTo(f), P)
           /\ Before(ToSet(LeftTo(f)), LeftToAll(s), P)
<1> DEFINE a == Append(s, f)
           n == Len(s)
           L(k) == ToSet(LeftTo(s[k]))
           F == ToSet(LeftTo(f))
<1>1. n \in Nat /\ Len(a) = n + 1 /\ (\A k \in 1..n : a[k] = s[k]) /\ a[n + 1] = f
  BY PushCall
<1>2. StackSorted(a, P) <=>
        /\ \A k \in 1..(n + 1) : Sorted(LeftTo(a[k]), P)
        /\ \A k, l \in 1..(n + 1) :
             k < l => Before(ToSet(LeftTo(a[l])), ToSet(LeftTo(a[k])), P)
  BY <1>1 DEF StackSorted
<1>3. StackSorted(s, P) <=>
        /\ \A k \in 1..n : Sorted(LeftTo(s[k]), P)
        /\ \A k, l \in 1..n : k < l => Before(L(l), L(k), P)
  BY DEF StackSorted
<1>4. Before(F, LeftToAll(s), P) <=> \A k \in 1..n : Before(F, L(k), P)
  BY DEF LeftToAll, Before
<1>5. n + 1 \in 1..(n + 1) /\ \A k \in 1..n : k \in 1..(n + 1) /\ k < n + 1
  BY <1>1
<1>6. \A k \in 1..(n + 1) : k = n + 1 \/ k \in 1..n
  BY <1>1
<1> HIDE DEF a, n
<1>7. ASSUME StackSorted(a, P)
      PROVE  StackSorted(s, P) /\ Sorted(LeftTo(f), P) /\ Before(F, LeftToAll(s), P)
  <2>1. \A k \in 1..n : Sorted(LeftTo(s[k]), P)
    BY <1>1, <1>2, <1>5, <1>7
  <2>2. \A k, l \in 1..n : k < l => Before(L(l), L(k), P)
    BY <1>1, <1>2, <1>5, <1>7
  <2>3. \A k \in 1..n : Before(F, L(k), P)
    BY <1>1, <1>2, <1>5, <1>7
  <2>4. Sorted(LeftTo(f), P)
    BY <1>1, <1>2, <1>5, <1>7
  <2> QED BY <1>3, <1>4, <2>1, <2>2, <2>3, <2>4
<1>8. ASSUME StackSorted(s, P), Sorted(LeftTo(f), P), Before(F, LeftToAll(s), P)
      PROVE  StackSorted(a, P)
  <2>1. ASSUME NEW k \in 1..(n + 1) PROVE Sorted(LeftTo(a[k]), P)
    BY <1>1, <1>3, <1>6, <1>8
  <2>2. ASSUME NEW k \in 1..(n + 1), NEW l \in 1..(n + 1), k < l
        PROVE  Before(ToSet(LeftTo(a[l])), ToSet(LeftTo(a[k])), P)
    <3>1. k \in 1..n
      BY <1>1, <2>2
    <3>2. CASE l = n + 1
      BY <1>1, <1>4, <1>8, <3>1, <3>2
    <3>3. CASE l \in 1..n
      BY <1>1, <1>3, <1>8, <2>2, <3>1, <3>3
    <3> QED BY <1>6, <3>2, <3>3
  <2> QED BY <1>2, <2>1, <2>2
<1> QED BY <1>7, <1>8 DEF a

\* Where in the queue a command may be delayed, and where it may run.
MayDelay(c, r, d, s, P) ==
  Before(ToSet(r), {c}, P) /\ Before(ToSet(d), {c}, P) /\ Before({c}, LeftToAll(s), P)

MayRun(c, r, d, s, P) ==
  Before(ToSet(r), {c}, P) /\ Before({c}, ToSet(d), P) /\ Before({c}, LeftToAll(s), P)

\* The commands that have come when n have.
Upto(n) == 1..n

\* A call to which no command is left.
Bare(f) == f.at # "loop" \/ f.of = <<>>

LEMMA BareLeft ==
  ASSUME NEW f \in Calls, Bare(f)
  PROVE  LeftTo(f) = <<>> /\ ToSet(LeftTo(f)) = {}
<1>1. LeftTo(f) = <<>>
  BY DEF Bare, LeftTo
<1>2. LeftTo(f) \in Seq(Commands)
  BY LeftToIs
<1> QED BY <1>1, <1>2, EmptySet

(* A bare call does not change the queue. *)
LEMMA QueueBare ==
  ASSUME NEW P, NEW n, NEW r \in Seq(Commands), NEW d \in Seq(Commands),
         NEW s \in Seq(Calls), NEW f \in Calls, Bare(f)
  PROVE  /\ Queue(r, d, Append(s, f), n, P) <=> Queue(r, d, s, n, P)
         /\ LeftToAll(Append(s, f)) = LeftToAll(s)
<1>1. LeftTo(f) = <<>> /\ ToSet(LeftTo(f)) = {}
  BY BareLeft
<1>2. LeftToAll(Append(s, f)) = LeftToAll(s)
  BY <1>1, PushLeft
<1>3. Sorted(LeftTo(f), P) /\ Before(ToSet(LeftTo(f)), LeftToAll(s), P)
  BY <1>1 DEF Sorted, Before
<1>4. StackSorted(Append(s, f), P) <=> StackSorted(s, P)
  BY <1>3, StackSortedPush
<1> QED BY <1>2, <1>4 DEF Queue

(* The innermost call is left: what was left to it is no longer in the queue. *)
LEMMA QueuePop ==
  ASSUME NEW P, NEW n, NEW r \in Seq(Commands), NEW d \in Seq(Commands),
         NEW s \in Seq(Calls), s # <<>>, Queue(r, d, s, n, P)
  PROVE  /\ Queue(r, d, Front(s), n, P)
         /\ LeftToAll(s) = LeftToAll(Front(s)) \cup ToSet(LeftTo(Last(s)))
<1>1. Front(s) \in Seq(Calls) /\ Last(s) \in Calls /\ s = Append(Front(s), Last(s))
  BY StackIs
<1>2. LeftToAll(s) = LeftToAll(Front(s)) \cup ToSet(LeftTo(Last(s)))
  BY <1>1, PushLeft
<1>3. StackSorted(Front(s), P)
  BY <1>1, StackSortedPush DEF Queue
<1>4. Before(ToSet(r) \cup ToSet(d), LeftToAll(Front(s)), P)
  BY <1>2 DEF Queue, Before
<1> QED BY <1>2, <1>3, <1>4 DEF Queue

\* The innermost call is a loop of resume, its next command, and what is left.
InLoop(s) == s # <<>> /\ Last(s).at = "loop" /\ Last(s).of # <<>>
FirstLeft(s) == Head(Last(s).of)
Plus(c, A) == {c} \cup A
Taken(s) == Append(Front(s), Call("loop", Tail(Last(s).of)))

(* The loop of resume takes the first command that is left to it. *)
LEMMA QueueTakes ==
  ASSUME NEW P, NEW n, NEW r \in Seq(Commands), NEW d \in Seq(Commands),
         NEW s \in Seq(Calls), InLoop(s), Queue(r, d, s, n, P)
  PROVE  /\ Taken(s) \in Seq(Calls) /\ FirstLeft(s) \in Commands /\ FirstLeft(s) \in Upto(n)
         /\ Queue(r, d, Taken(s), n, P)
         /\ MayDelay(FirstLeft(s), r, d, Taken(s), P)
         /\ LeftToAll(s) = Plus(FirstLeft(s), LeftToAll(Taken(s)))
<1> DEFINE u == Last(s).of
           c == Head(u)
           f == Call("loop", Tail(u))
           e == Front(s)
           b == Append(e, f)
<1>0. s # <<>> /\ Last(s).at = "loop" /\ Last(s).of # <<>>
  BY DEF InLoop
<1>1. e \in Seq(Calls) /\ Last(s) \in Calls /\ s = Append(e, Last(s))
  BY <1>0, StackIs
<1>2. u \in Seq(Commands) /\ LeftTo(Last(s)) = u
  BY <1>0, <1>1 DEF Calls, LeftTo
<1>3. c \in Commands /\ Tail(u) \in Seq(Commands) /\ ToSet(u) = {c} \cup ToSet(Tail(u))
  BY <1>0, <1>2, TailSet
<1>4. f \in Calls /\ LeftTo(f) = Tail(u)
  <2>1. "loop" \in Places
    BY DEF Places
  <2> QED BY <1>3, <2>1, CallIs DEF LeftTo
<1>5. b \in Seq(Calls)
  BY <1>1, <1>4, PushCall
<1>6. LeftToAll(s) = LeftToAll(e) \cup ToSet(u) /\ Queue(r, d, e, n, P)
  <2>1. LeftToAll(s) = LeftToAll(e) \cup ToSet(LeftTo(Last(s))) /\ Queue(r, d, e, n, P)
    BY <1>0, QueuePop
  <2> QED BY <1>2, <2>1
<1>7. LeftToAll(b) = LeftToAll(e) \cup ToSet(Tail(u))
  BY <1>1, <1>4, PushLeft
<1>8. LeftToAll(s) = {c} \cup LeftToAll(b)
  BY <1>3, <1>6, <1>7
<1>9. Sorted(u, P) /\ Before(ToSet(u), LeftToAll(e), P)
  <2>1. StackSorted(Append(e, Last(s)), P)
    BY <1>1 DEF Queue
  <2> QED BY <1>1, <1>2, <2>1, StackSortedPush
<1>10. Sorted(Tail(u), P) /\ Before({c}, ToSet(Tail(u)), P)
  BY <1>0, <1>2, <1>9, SortedTail
<1> HIDE DEF u, c, f, e, b
<1>11. StackSorted(b, P)
  <2>1. Before(ToSet(LeftTo(f)), LeftToAll(e), P)
    BY <1>3, <1>4, <1>9 DEF Before
  <2>2. StackSorted(e, P) /\ Sorted(LeftTo(f), P)
    BY <1>4, <1>6, <1>10 DEF Queue
  <2>3. StackSorted(Append(e, f), P)
    BY <1>1, <1>4, <2>1, <2>2, StackSortedPush
  <2> QED BY <2>3 DEF b
<1>12. Before({c}, LeftToAll(b), P)
  BY <1>3, <1>7, <1>9, <1>10 DEF Before
<1>13. Before(ToSet(r) \cup ToSet(d), LeftToAll(s), P) /\ LeftToAll(s) \subseteq 1..n
  BY DEF Queue
<1>14. Before(ToSet(r) \cup ToSet(d), {c}, P) /\ Before(ToSet(r) \cup ToSet(d), LeftToAll(b), P)
  BY <1>8, <1>13 DEF Before
<1>15. c \in Upto(n) /\ LeftToAll(b) \subseteq 1..n
  BY <1>8, <1>13 DEF Upto
<1>16. Queue(r, d, b, n, P)
  BY <1>11, <1>14, <1>15 DEF Queue
<1>17. MayDelay(c, r, d, b, P)
  BY <1>12, <1>14 DEF MayDelay, Before
<1> QED BY <1>3, <1>5, <1>8, <1>15, <1>16, <1>17 DEF u, c, f, e, b, FirstLeft, Taken, Plus

(* A call of resume takes the delayed commands. *)
LEMMA QueueResumes ==
  ASSUME NEW P, NEW n, NEW r \in Seq(Commands), NEW d \in Seq(Commands),
         NEW s \in Seq(Calls), Queue(r, d, s, n, P)
  PROVE  /\ Queue(r, <<>>, Append(s, Call("loop", d)), n, P)
         /\ LeftToAll(Append(s, Call("loop", d))) = LeftToAll(s) \cup ToSet(d)
<1> DEFINE f == Call("loop", d)
           b == Append(s, f)
<1>1. f \in Calls /\ LeftTo(f) = d
  <2>1. "loop" \in Places
    BY DEF Places
  <2> QED BY <2>1, CallIs DEF LeftTo
<1> HIDE DEF f
<1>2. LeftToAll(b) = LeftToAll(s) \cup ToSet(d)
  BY <1>1, PushLeft
<1>3. Before(ToSet(d), LeftToAll(s), P)
  BY DEF Before, Queue
<1>4. StackSorted(b, P)
  BY <1>1, <1>3, StackSortedPush DEF Queue
<1>5. ToSet(<<>>) = {} /\ Sorted(<<>>, P)
  <2>1. <<>> \in Seq(Commands)
    OBVIOUS
  <2>2. ToSet(<<>>) = {}
    BY <2>1, EmptySet
  <2>3. \A i \in 1..Len(<<>>) : FALSE
    OBVIOUS
  <2>4. Sorted(<<>>, P)
    BY <2>3 DEF Sorted
  <2> QED BY <2>2, <2>4
<1> HIDE DEF b
<1>6. Before(ToSet(r) \cup ToSet(<<>>), LeftToAll(b), P)
  BY <1>2, <1>5 DEF Before, Queue
<1>7. Before(ToSet(r), ToSet(<<>>), P)
  BY <1>5 DEF Before
<1>8. ToSet(r) \cup ToSet(<<>>) \cup LeftToAll(b) \subseteq 1..n
  BY <1>2, <1>5 DEF Queue
<1>9. Queue(r, <<>>, b, n, P)
  BY <1>4, <1>5, <1>6, <1>7, <1>8 DEF Queue
<1> QED BY <1>2, <1>9 DEF b, f

(* A command that may follow what has run and what is delayed, and precede  *)
(* what is left, is delayed.                                               *)
LEMMA QueueDelays ==
  ASSUME NEW P, NEW n, NEW r \in Seq(Commands), NEW d \in Seq(Commands),
         NEW s \in Seq(Calls), Queue(r, d, s, n, P),
         NEW c \in Commands, c \in Upto(n),
         MayDelay(c, r, d, s, P)
  PROVE  Queue(r, Append(d, c), s, n, P) /\ ToSet(Append(d, c)) = ToSet(d) \cup {c}
<1>1. ToSet(Append(d, c)) = ToSet(d) \cup {c}
  BY AppendSet
<1>2. Sorted(Append(d, c), P)
  <2>1. Before(ToSet(d), {c}, P) /\ Sorted(d, P)
    BY DEF Queue, MayDelay
  <2> QED BY <2>1, SortedAppend
<1>3. c \in 1..n
  BY DEF Upto
<1> QED BY <1>1, <1>2, <1>3 DEF Queue, Before, MayDelay

(* A command that may follow what has run, and precede the rest, runs. *)
LEMMA QueueRuns ==
  ASSUME NEW P, NEW n, NEW r \in Seq(Commands), NEW d \in Seq(Commands),
         NEW s \in Seq(Calls), Queue(r, d, s, n, P),
         NEW c \in Commands, c \in Upto(n),
         MayRun(c, r, d, s, P)
  PROVE  Queue(Append(r, c), d, s, n, P) /\ ToSet(Append(r, c)) = ToSet(r) \cup {c}
<1>1. ToSet(Append(r, c)) = ToSet(r) \cup {c}
  BY AppendSet
<1>2. Sorted(Append(r, c), P)
  <2>1. Before(ToSet(r), {c}, P) /\ Sorted(r, P)
    BY DEF Queue, MayRun
  <2> QED BY <2>1, SortedAppend
<1>3. c \in 1..n
  BY DEF Upto
<1> QED BY <1>1, <1>2, <1>3 DEF Queue, Before, MayRun

(* More commands come, and more may precede others. *)
LEMMA QueueGrows ==
  ASSUME NEW P, NEW R, P \subseteq R, NEW n \in Nat, NEW m \in Nat, n <= m,
         NEW r \in Seq(Commands), NEW d \in Seq(Commands),
         NEW s \in Seq(Calls), Queue(r, d, s, n, P)
  PROVE  Queue(r, d, s, m, R)
<1>1. \A x \in 1..n : x \in 1..m
  OBVIOUS
<1>2. \A u : Sorted(u, P) => Sorted(u, R)
  BY DEF Sorted
<1>3. \A A, B : Before(A, B, P) => Before(A, B, R)
  BY DEF Before
<1>4. StackSorted(s, P) => StackSorted(s, R)
  BY <1>2, <1>3 DEF StackSorted
<1> QED BY <1>1, <1>2, <1>3, <1>4 DEF Queue

-----------------------------------------------------------------------------
(* What the methods change in the terminal.                                *)

Works == {"none", "called", "requested", "promised", "over", "rejected"}
Promised == {"none", "pending", "resolved", "broken"}

SameSwitches(u, t) == u.paused = t.paused /\ u.enabled = t.enabled /\ u.frozen = t.frozen
SameQueues(u, t) == u.ran = t.ran /\ u.delayed = t.delayed
SameLists(u, t) == u.waiting = t.waiting /\ u.requests = t.requests
SameWork(u, t) == u.work = t.work /\ u.promise = t.promise

LEMMA WorkSet ==
  ASSUME NEW t \in Terminals, NEW c \in Commands, NEW w \in Works
  PROVE  LET u == [t EXCEPT !.work[c] = w]
         IN /\ u \in Terminals /\ u.work = [t.work EXCEPT ![c] = w] /\ u.promise = t.promise
            /\ SameSwitches(u, t) /\ SameQueues(u, t) /\ SameLists(u, t)
<1> DEFINE g == [t.work EXCEPT ![c] = w]
<1>1. g \in [Commands -> Works]
  BY DEF Terminals, Works
<1>2. [t EXCEPT !.work[c] = w] = [t EXCEPT !.work = g]
  OBVIOUS
<1> HIDE DEF g
<1>3. LET u == [t EXCEPT !.work = g]
      IN /\ u \in Terminals /\ u.work = g /\ u.promise = t.promise
         /\ SameSwitches(u, t) /\ SameQueues(u, t) /\ SameLists(u, t)
  BY <1>1 DEF Terminals, Works, SameSwitches, SameQueues, SameLists
<1> QED BY <1>2, <1>3 DEF g

LEMMA PromiseSet ==
  ASSUME NEW t \in Terminals, NEW c \in Commands, NEW p \in Promised
  PROVE  LET u == [t EXCEPT !.promise[c] = p]
         IN /\ u \in Terminals /\ u.promise = [t.promise EXCEPT ![c] = p] /\ u.work = t.work
            /\ SameSwitches(u, t) /\ SameQueues(u, t) /\ SameLists(u, t)
<1> DEFINE g == [t.promise EXCEPT ![c] = p]
<1>1. g \in [Commands -> Promised]
  BY DEF Terminals, Promised
<1>2. [t EXCEPT !.promise[c] = p] = [t EXCEPT !.promise = g]
  OBVIOUS
<1> HIDE DEF g
<1>3. LET u == [t EXCEPT !.promise = g]
      IN /\ u \in Terminals /\ u.promise = g /\ u.work = t.work
         /\ SameSwitches(u, t) /\ SameQueues(u, t) /\ SameLists(u, t)
  BY <1>1 DEF Terminals, Promised, SameSwitches, SameQueues, SameLists
<1> QED BY <1>2, <1>3 DEF g

LEMMA WaitingSet ==
  ASSUME NEW t \in Terminals, NEW q \in Seq(Commands)
  PROVE  LET u == [t EXCEPT !.waiting = q]
         IN /\ u \in Terminals /\ u.waiting = q /\ u.requests = t.requests
            /\ SameSwitches(u, t) /\ SameQueues(u, t) /\ SameWork(u, t)
BY DEF Terminals, SameSwitches, SameQueues, SameWork

LEMMA RequestsSet ==
  ASSUME NEW t \in Terminals, NEW q \in Seq(Commands)
  PROVE  LET u == [t EXCEPT !.requests = q]
         IN /\ u \in Terminals /\ u.requests = q /\ u.waiting = t.waiting
            /\ SameSwitches(u, t) /\ SameQueues(u, t) /\ SameWork(u, t)
BY DEF Terminals, SameSwitches, SameQueues, SameWork

\* u differs from t in its keyboard alone.
Switched(u, t) ==
  /\ u \in Terminals /\ u.paused = t.paused /\ u.frozen = t.frozen
  /\ SameQueues(u, t) /\ SameLists(u, t) /\ SameWork(u, t)
  /\ (t.frozen => ~t.enabled) => (u.frozen => ~u.enabled)

LEMMA SwitchIs ==
  ASSUME NEW t \in Terminals
  PROVE  Switched(enable(t), t) /\ Switched(disable(t), t)
<1>1. CASE t.frozen
  BY <1>1 DEF enable, disable, Switched, SameQueues, SameLists, SameWork
<1>2. CASE ~t.frozen
  <2>1. ASSUME NEW b \in BOOLEAN PROVE Switched([t EXCEPT !.enabled = b], t)
    BY <1>2 DEF Switched, SameQueues, SameLists, SameWork, Terminals
  <2> QED BY <1>2, <2>1 DEF enable, disable
<1> QED BY <1>1, <1>2

\* u differs from t in its keyboard and in being paused.
Paused(u, t) ==
  /\ u \in Terminals /\ u.paused /\ u.frozen = t.frozen
  /\ SameQueues(u, t) /\ SameLists(u, t) /\ SameWork(u, t)
  /\ (t.frozen => ~t.enabled) => (u.frozen => ~u.enabled)

LEMMA PauseIs ==
  ASSUME NEW t \in Terminals
  PROVE  Paused(pause(t), t)
<1>1. CASE t.paused
  BY <1>1 DEF pause, Paused, SameQueues, SameLists, SameWork
<1>2. CASE ~t.paused
  <2> DEFINE v == [t EXCEPT !.paused = TRUE]
  <2>1. /\ v \in Terminals /\ v.paused /\ v.frozen = t.frozen /\ v.enabled = t.enabled
        /\ SameQueues(v, t) /\ SameLists(v, t) /\ SameWork(v, t)
    BY DEF Terminals, SameQueues, SameLists, SameWork
  <2> HIDE DEF v
  <2>2. Switched(disable(v), v)
    BY <2>1, SwitchIs
  <2>3. pause(t) = disable(v)
    BY <1>2 DEF pause, v
  <2> QED BY <2>1, <2>2, <2>3 DEF Switched, Paused, SameQueues, SameLists, SameWork
<1> QED BY <1>1, <1>2

\* u is t resumed: the list of delayed commands is empty.
Resumed(u, t) ==
  /\ u \in Terminals /\ ~u.paused /\ u.frozen = t.frozen
  /\ u.ran = t.ran /\ u.delayed = <<>> /\ SameLists(u, t) /\ SameWork(u, t)
  /\ (t.frozen => ~t.enabled) => (u.frozen => ~u.enabled)

LEMMA ResumedIs ==
  ASSUME NEW t \in Terminals
  PROVE  Resumed(enable([t EXCEPT !.paused = FALSE, !.delayed = <<>>]), t)
<1> DEFINE e == <<>>
           v == [t EXCEPT !.paused = FALSE, !.delayed = e]
<1>1. /\ v \in Terminals /\ ~v.paused /\ v.frozen = t.frozen /\ v.enabled = t.enabled
      /\ v.ran = t.ran /\ v.delayed = e /\ SameLists(v, t) /\ SameWork(v, t)
  <2>1. e \in Seq(Commands)
    OBVIOUS
  <2> HIDE DEF e
  <2> QED BY <2>1 DEF Terminals, SameLists, SameWork
<1> HIDE DEF v
<1>2. Switched(enable(v), v)
  BY <1>1, SwitchIs
<1>3. Resumed(enable(v), t)
  BY <1>1, <1>2 DEF Switched, Resumed, SameQueues, SameLists, SameWork
<1> QED BY <1>3 DEF v

(* A command runs: its work and promise begin. *)
LEMMA RunIs ==
  ASSUME NEW t \in Terminals, NEW c \in Commands, NEW w \in Works, NEW p \in Promised
  PROVE  LET u == [t EXCEPT !.ran = Append(@, c), !.work[c] = w, !.promise[c] = p]
         IN /\ u \in Terminals /\ u.ran = Append(t.ran, c) /\ u.delayed = t.delayed
            /\ u.work = [t.work EXCEPT ![c] = w] /\ u.promise = [t.promise EXCEPT ![c] = p]
            /\ SameSwitches(u, t) /\ SameLists(u, t)
<1> DEFINE g == [t.work EXCEPT ![c] = w]
           h == [t.promise EXCEPT ![c] = p]
           r == Append(t.ran, c)
<1>1. g \in [Commands -> Works] /\ h \in [Commands -> Promised] /\ r \in Seq(Commands)
  BY AppendProperties DEF Terminals, Works, Promised
<1>2. [t EXCEPT !.ran = Append(@, c), !.work[c] = w, !.promise[c] = p]
      = [t EXCEPT !.ran = r, !.work = g, !.promise = h]
  BY DEF Terminals
<1> HIDE DEF g, h, r
<1>3. LET u == [t EXCEPT !.ran = r, !.work = g, !.promise = h]
      IN /\ u \in Terminals /\ u.ran = r /\ u.work = g /\ u.promise = h /\ u.delayed = t.delayed
         /\ SameSwitches(u, t) /\ SameLists(u, t)
  BY <1>1 DEF Terminals, Works, Promised, SameSwitches, SameLists
<1> QED BY <1>2, <1>3 DEF g, h, r

(* A command is delayed. *)
LEMMA DelayIs ==
  ASSUME NEW t \in Terminals, NEW c \in Commands
  PROVE  LET u == [t EXCEPT !.delayed = Append(@, c), !.promise[c] = "pending"]
         IN /\ u \in Terminals /\ u.ran = t.ran /\ u.delayed = Append(t.delayed, c)
            /\ u.work = t.work /\ u.promise = [t.promise EXCEPT ![c] = "pending"]
            /\ SameSwitches(u, t) /\ SameLists(u, t)
<1> DEFINE h == [t.promise EXCEPT ![c] = "pending"]
           d == Append(t.delayed, c)
<1>1. h \in [Commands -> Promised] /\ d \in Seq(Commands)
  BY AppendProperties DEF Terminals, Promised
<1>2. [t EXCEPT !.delayed = Append(@, c), !.promise[c] = "pending"]
      = [t EXCEPT !.delayed = d, !.promise = h]
  BY DEF Terminals
<1> HIDE DEF h, d
<1>3. LET u == [t EXCEPT !.delayed = d, !.promise = h]
      IN /\ u \in Terminals /\ u.ran = t.ran /\ u.delayed = d /\ u.promise = h /\ u.work = t.work
         /\ SameSwitches(u, t) /\ SameLists(u, t)
  BY <1>1 DEF Terminals, Promised, SameSwitches, SameLists
<1> QED BY <1>2, <1>3 DEF h, d

(* A request begins, and pauses the terminal. *)
LEMMA BegunIs ==
  ASSUME NEW t \in Terminals, NEW c \in Commands, NEW w \in Works
  PROVE  LET u == Begun(t, c, w)
         IN /\ u \in Terminals /\ u.paused /\ u.frozen = t.frozen
            /\ SameQueues(u, t) /\ u.waiting = t.waiting /\ u.promise = t.promise
            /\ u.work = [t.work EXCEPT ![c] = w] /\ u.requests = Append(t.requests, c)
            /\ (t.frozen => ~t.enabled) => (u.frozen => ~u.enabled)
<1> DEFINE v == pause(t)
           g == [v.work EXCEPT ![c] = w]
           q == Append(v.requests, c)
<1>1. Paused(v, t)
  BY PauseIs
<1>2. v \in Terminals
  BY <1>1 DEF Paused
<1> HIDE DEF v
<1>3. g \in [Commands -> Works] /\ q \in Seq(Commands)
  BY <1>2, AppendProperties DEF Terminals, Works
<1>4. [v EXCEPT !.work[c] = w, !.requests = Append(@, c)] = [v EXCEPT !.work = g, !.requests = q]
  BY <1>2 DEF Terminals
<1>5. g = [t.work EXCEPT ![c] = w] /\ q = Append(t.requests, c)
  BY <1>1 DEF Paused, SameWork, SameLists
<1> HIDE DEF g, q
<1> DEFINE u == [v EXCEPT !.work = g, !.requests = q]
<1>6. /\ u \in Terminals /\ u.work = g /\ u.requests = q
      /\ SameSwitches(u, v) /\ SameQueues(u, v) /\ u.waiting = v.waiting /\ u.promise = v.promise
  BY <1>2, <1>3 DEF Terminals, Works, SameSwitches, SameQueues
<1>7. Begun(t, c, w) = u
  BY <1>4 DEF Begun, v
<1> HIDE DEF u
<1> QED BY <1>1, <1>5, <1>6, <1>7 DEF Paused, SameSwitches, SameQueues, SameLists, SameWork

-----------------------------------------------------------------------------
(* Good terminals and stacks: the invariant of a terminal t and calls s.   *)

Good(t, s, n, P) ==
  /\ Terminal(t)
  /\ s \in Seq(Calls)
  /\ s # <<>> => t.ran # <<>>
  /\ Queue(t.ran, t.delayed, s, n, P)
  /\ WorkOK(t, s)

Items(t, s) == ToSet(t.ran) \cup ToSet(t.delayed) \cup LeftToAll(s)

LEMMA TerminalSeqs ==
  ASSUME NEW t, Terminal(t)
  PROVE  /\ t \in Terminals /\ t.ran \in Seq(Commands) /\ t.delayed \in Seq(Commands)
         /\ t.waiting \in Seq(Commands) /\ t.requests \in Seq(Commands)
         /\ Ran(t) \subseteq Commands
         /\ t.work \in [Commands -> Works] /\ t.promise \in [Commands -> Promised]
<1>1. /\ t \in Terminals /\ t.ran \in Seq(Commands) /\ t.delayed \in Seq(Commands)
      /\ t.waiting \in Seq(Commands) /\ t.requests \in Seq(Commands)
      /\ t.work \in [Commands -> Works] /\ t.promise \in [Commands -> Promised]
  BY DEF Terminal, Terminals, Works, Promised
<1>2. Ran(t) \subseteq Commands
  BY <1>1, SetOf DEF Ran
<1> QED BY <1>1, <1>2

(* The innermost call is left. *)
LEMMA GoodPop ==
  ASSUME NEW P, NEW n, NEW t, NEW s, Good(t, s, n, P), s # <<>>
  PROVE  /\ Good(t, Front(s), n, P)
         /\ Last(s) \in Calls /\ CallFits(t, Last(s))
         /\ Items(t, s) = Items(t, Front(s)) \cup ToSet(LeftTo(Last(s)))
         /\ \A c \in Commands : Working(t, c) => Unresumed(t, Last(s), c)
         /\ \A c \in Commands : Last(s) = Call("interpreter", <<c>>) =>
              \A k \in 1..Len(Front(s)) : Front(s)[k] # Last(s)
<1> DEFINE b == Front(s)
           m == Len(s)
           f == Last(s)
<1>1. /\ s \in Seq(Calls) /\ b \in Seq(Calls) /\ m \in Nat \ {0} /\ Len(b) = m - 1
      /\ \A k \in 1..(m - 1) : b[k] = s[k]
      /\ f = s[m] /\ f \in Calls
  BY FrontOf DEF Good
<1>2. Queue(t.ran, t.delayed, b, n, P) /\ LeftToAll(s) = LeftToAll(b) \cup ToSet(LeftTo(f))
  BY QueuePop, TerminalSeqs DEF Good
<1>3. /\ CallsFit(t, s) <=> \A k \in 1..m : CallFits(t, s[k])
      /\ CalledOnce(s) <=> \A k, l \in 1..m : \A c \in Commands :
           k < l /\ s[k] = Call("interpreter", <<c>>) => s[l] # s[k]
      /\ Alone(t, s) <=> \A c \in Commands : Working(t, c) =>
           Pauses(t, c) /\ \A k \in 1..m : Unresumed(t, s[k], c)
  BY DEF CallsFit, CalledOnce, Alone
<1>4. CallsFit(t, s) /\ CalledOnce(s) /\ Alone(t, s) /\ Kind(t)
  BY DEF Good, WorkOK
<1>5. Terminal(t) /\ (s # <<>> => t.ran # <<>>)
  BY DEF Good
<1> HIDE DEF b, m, f
<1>6. m \in 1..m /\ \A k \in 1..(m - 1) : k \in 1..m /\ k < m
  BY <1>1
<1>7. CallsFit(t, b)
  BY <1>1, <1>3, <1>4, <1>6 DEF CallsFit
<1>8. CalledOnce(b)
  BY <1>1, <1>3, <1>4, <1>6 DEF CalledOnce
<1>9. Alone(t, b)
  BY <1>1, <1>3, <1>4, <1>6 DEF Alone
<1>10. Good(t, b, n, P)
  BY <1>1, <1>2, <1>4, <1>5, <1>7, <1>8, <1>9 DEF Good, WorkOK
<1>11. CallFits(t, f) /\ \A c \in Commands : Working(t, c) => Unresumed(t, f, c)
  BY <1>1, <1>3, <1>4, <1>6
<1>12. ASSUME NEW c \in Commands, f = Call("interpreter", <<c>>), NEW k \in 1..Len(b)
       PROVE  b[k] # f
  BY <1>1, <1>3, <1>4, <1>6, <1>12
<1> QED BY <1>1, <1>2, <1>10, <1>11, <1>12 DEF b, f, Items

(* A call is made that fits the work on its command. *)
LEMMA WorkPush ==
  ASSUME NEW t, NEW s \in Seq(Calls), WorkOK(t, s), NEW f \in Calls, CallFits(t, f),
         \A c \in Commands : f = Call("interpreter", <<c>>) => \A k \in 1..Len(s) : s[k] # f,
         \A c \in Commands : Working(t, c) => Unresumed(t, f, c)
  PROVE  WorkOK(t, Append(s, f))
<1> DEFINE a == Append(s, f)
           m == Len(s)
<1>1. /\ m \in Nat /\ Len(a) = m + 1 /\ (\A k \in 1..m : a[k] = s[k]) /\ a[m + 1] = f
  BY PushCall
<1>2. /\ \A k \in 1..m : CallFits(t, s[k])
      /\ \A k, l \in 1..m : \A c \in Commands :
           k < l /\ s[k] = Call("interpreter", <<c>>) => s[l] # s[k]
      /\ \A c \in Commands : Working(t, c) =>
           Pauses(t, c) /\ \A k \in 1..m : Unresumed(t, s[k], c)
      /\ Kind(t)
  BY DEF WorkOK, CallsFit, CalledOnce, Alone
<1>3. \A c \in Commands : f = Call("interpreter", <<c>>) => \A k \in 1..m : s[k] # f
  OBVIOUS
<1> HIDE DEF a, m
<1>4. \A k \in 1..(m + 1) : k = m + 1 \/ k \in 1..m
  BY <1>1
<1>5. CallsFit(t, a)
  BY <1>1, <1>2, <1>4 DEF CallsFit
<1>6. CalledOnce(a)
  <2>1. ASSUME NEW k \in 1..(m + 1), NEW l \in 1..(m + 1), NEW c \in Commands,
               k < l, a[k] = Call("interpreter", <<c>>)
        PROVE  a[l] # a[k]
    <3>1. k \in 1..m
      BY <1>1, <2>1
    <3>2. CASE l = m + 1
      BY <1>1, <1>3, <2>1, <3>1, <3>2
    <3>3. CASE l \in 1..m
      BY <1>1, <1>2, <2>1, <3>1, <3>3
    <3> QED BY <1>4, <3>2, <3>3
  <2> QED BY <1>1, <2>1 DEF CalledOnce
<1>7. Alone(t, a)
  BY <1>1, <1>2, <1>4 DEF Alone
<1> QED BY <1>2, <1>5, <1>6, <1>7 DEF a, WorkOK

(* A call to which no command is left is made. *)
LEMMA GoodPush ==
  ASSUME NEW P, NEW n, NEW t, NEW s, Good(t, s, n, P), t.ran # <<>>,
         NEW f \in Calls, Bare(f), CallFits(t, f),
         \A c \in Commands : f = Call("interpreter", <<c>>) => \A k \in 1..Len(s) : s[k] # f,
         \A c \in Commands : Working(t, c) => Unresumed(t, f, c)
  PROVE  Good(t, Append(s, f), n, P) /\ Items(t, Append(s, f)) = Items(t, s)
<1>1. s \in Seq(Calls) /\ Append(s, f) \in Seq(Calls)
  BY PushCall DEF Good
<1>2. Queue(t.ran, t.delayed, Append(s, f), n, P) /\ LeftToAll(Append(s, f)) = LeftToAll(s)
  BY QueueBare, TerminalSeqs DEF Good
<1>3. WorkOK(t, Append(s, f))
  BY <1>1, WorkPush DEF Good
<1>4. Good(t, Append(s, f), n, P)
  BY <1>1, <1>2, <1>3 DEF Good
<1> QED BY <1>2, <1>4 DEF Items

(* The loop of resume takes its next command. *)
LEMMA GoodTakes ==
  ASSUME NEW P, NEW n, NEW t, NEW s, Good(t, s, n, P), InLoop(s)
  PROVE  /\ Good(t, Taken(s), n, P) /\ Items(t, s) = Plus(FirstLeft(s), Items(t, Taken(s)))
         /\ FirstLeft(s) \in Commands /\ FirstLeft(s) \in Upto(n)
         /\ MayDelay(FirstLeft(s), t.ran, t.delayed, Taken(s), P)
<1> DEFINE f == Call("loop", Tail(Last(s).of))
<1>1. /\ Taken(s) \in Seq(Calls) /\ FirstLeft(s) \in Commands /\ FirstLeft(s) \in Upto(n)
      /\ Queue(t.ran, t.delayed, Taken(s), n, P)
      /\ MayDelay(FirstLeft(s), t.ran, t.delayed, Taken(s), P)
      /\ LeftToAll(s) = Plus(FirstLeft(s), LeftToAll(Taken(s)))
  <2> DEFINE r == t.ran
             d == t.delayed
  <2>1. r \in Seq(Commands) /\ d \in Seq(Commands) /\ s \in Seq(Calls) /\ Queue(r, d, s, n, P)
    BY TerminalSeqs DEF Good
  <2> HIDE DEF r, d
  <2>2. /\ Taken(s) \in Seq(Calls) /\ FirstLeft(s) \in Commands /\ FirstLeft(s) \in Upto(n)
        /\ Queue(r, d, Taken(s), n, P)
        /\ MayDelay(FirstLeft(s), r, d, Taken(s), P)
        /\ LeftToAll(s) = Plus(FirstLeft(s), LeftToAll(Taken(s)))
    BY <2>1, QueueTakes
  <2> QED BY <2>2 DEF r, d
<1>2. /\ Good(t, Front(s), n, P) /\ Last(s) \in Calls
      /\ \A d \in Commands : Working(t, d) => Unresumed(t, Last(s), d)
  BY GoodPop DEF InLoop
<1>3. \A d \in Commands : ~Working(t, d)
  BY <1>2 DEF Unresumed, InLoop
<1>4. f \in Calls /\ f.at = "loop"
  <2>1. "loop" \in Places /\ Last(s).of \in Seq(Commands)
    BY <1>2 DEF Places, Calls
  <2>2. Tail(Last(s).of) \in Seq(Commands)
    BY <2>1, TailSet DEF InLoop
  <2> QED BY <2>1, <2>2, CallIs
<1>5. CallFits(t, f) /\ \A d \in Commands : f # Call("interpreter", <<d>>)
  <2>1. \A d \in Commands : /\ f # Call("interpreter", <<d>>) /\ f # Call("value", <<d>>)
                            /\ f # Call("fulfilled", <<d>>)
    BY <1>4 DEF Call
  <2> QED BY <1>4, <2>1 DEF CallFits
<1>6. Taken(s) = Append(Front(s), f)
  BY DEF Taken
<1> HIDE DEF f
<1>7. Front(s) \in Seq(Calls) /\ WorkOK(t, Front(s)) /\ Terminal(t)
  BY <1>2 DEF Good
<1>8. WorkOK(t, Taken(s))
  BY <1>3, <1>4, <1>5, <1>6, <1>7, WorkPush
<1>9. Good(t, Taken(s), n, P)
  BY <1>1, <1>7, <1>8 DEF Good, InLoop
<1> QED BY <1>1, <1>9 DEF Items, Plus

\* Work goes on in u as it may in t.
Evolves(u, t) ==
  \A c \in Commands :
    /\ t.work[c] = "over" => u.work[c] = "over"
    /\ Done(t, c) => Done(u, c)
    /\ t.work[c] \in {"called", "requested", "over"} => u.work[c] \in {"called", "requested", "over"}

LEMMA EvolvesFits ==
  ASSUME NEW t, NEW u, Evolves(u, t)
  PROVE  /\ \A f \in Calls : CallFits(t, f) => CallFits(u, f)
         /\ \A s \in Seq(Calls) : CallsFit(t, s) => CallsFit(u, s)
<1>1. ASSUME NEW f \in Calls, CallFits(t, f) PROVE CallFits(u, f)
  <2>1. ASSUME NEW c \in ToSet(f.of) PROVE c \in Commands
    BY SetOf DEF Calls
  <2> QED BY <1>1, <2>1 DEF CallFits, Evolves
<1> QED BY <1>1, ElementOfSeq DEF CallsFit

(* The terminal changes, but not its queues. *)
LEMMA GoodTerm ==
  ASSUME NEW P, NEW n, NEW t, NEW u, NEW s, Good(t, s, n, P),
         Terminal(u), SameQueues(u, t), Kind(u), CallsFit(u, s), Alone(u, s)
  PROVE  Good(u, s, n, P) /\ Items(u, s) = Items(t, s)
BY DEF Good, WorkOK, SameQueues, Items

(* A command that has run but does not work is not the only one that does. *)
LEMMA NoneWorks ==
  ASSUME NEW t, NEW c, c \in Ran(t), ~Working(t, c)
  PROVE  \A d \in Commands : ~Working(t, d)
BY DEF Working

(* Calls of resume, while no command is the only one that works. *)
LEMMA GoodResume ==
  ASSUME NEW P, NEW n, NEW t, NEW s, Good(t, s, n, P),
         \A c \in Commands : ~Working(t, c), resume(t, s)
  PROVE  /\ Good(term', stack', n, P) /\ thrown' = FALSE
         /\ Items(term', stack') = Items(t, s)
<1>1. CASE ~t.paused
  <2>1. term' = t /\ stack' = s /\ thrown' = FALSE
    BY <1>1 DEF resume
  <2> QED BY <2>1
<1>2. CASE t.paused
  <2> DEFINE f == Call("loop", t.delayed)
             u == enable([t EXCEPT !.paused = FALSE, !.delayed = <<>>])
             a == Append(s, f)
  <2>1. term' = u /\ stack' = a /\ thrown' = FALSE
    BY <1>2 DEF resume
  <2>2. t \in Terminals /\ t.ran \in Seq(Commands) /\ t.delayed \in Seq(Commands) /\ s \in Seq(Calls)
    BY TerminalSeqs DEF Good
  <2>3. Resumed(u, t)
    BY <2>2, ResumedIs
  <2>4. f \in Calls /\ f.at = "loop"
    <3>1. "loop" \in Places
      BY DEF Places
    <3> QED BY <2>2, <3>1, CallIs
  <2>5. Queue(t.ran, <<>>, a, n, P) /\ LeftToAll(a) = LeftToAll(s) \cup ToSet(t.delayed)
    <3> DEFINE r == t.ran
               d == t.delayed
    <3>1. r \in Seq(Commands) /\ d \in Seq(Commands) /\ s \in Seq(Calls) /\ Queue(r, d, s, n, P)
      BY <2>2 DEF Good
    <3> HIDE DEF r, d
    <3>2. /\ Queue(r, <<>>, Append(s, Call("loop", d)), n, P)
          /\ LeftToAll(Append(s, Call("loop", d))) = LeftToAll(s) \cup ToSet(d)
      BY <3>1, QueueResumes
    <3> QED BY <3>2 DEF r, d
  <2>6. a \in Seq(Calls)
    BY <2>2, <2>4, PushCall
  <2>7. CallFits(t, f) /\ \A c \in Commands : f # Call("interpreter", <<c>>)
    <3>1. ASSUME NEW c \in Commands
          PROVE  f \notin {Call("interpreter", <<c>>), Call("value", <<c>>), Call("fulfilled", <<c>>)}
      BY <2>4 DEF Call
    <3> QED BY <2>4, <3>1 DEF CallFits
  <2>8. \A c \in Commands : ~Working(u, c)
    BY <2>3 DEF Resumed, Working, Ran, SameWork
  <2>9. Evolves(u, t)
    BY <2>3 DEF Resumed, Evolves, SameWork, Done
  <2>10. t.ran # <<>> /\ Terminal(u)
    BY <1>2, <2>3 DEF Good, Terminal, Resumed
  <2> HIDE DEF f, u, a
  <2>11. CallsFit(u, s) /\ CallFits(u, f)
    BY <2>2, <2>4, <2>7, <2>9, EvolvesFits DEF Good, WorkOK
  <2>12. Alone(u, s)
    BY <2>8 DEF Alone
  <2>13. Kind(u)
    BY <2>3 DEF Good, WorkOK, Kind, Resumed, SameLists, SameWork, Ran, Done
  <2>14. WorkOK(u, s)
    BY <2>11, <2>12, <2>13 DEF Good, WorkOK
  <2>15. WorkOK(u, a)
    BY <2>2, <2>4, <2>7, <2>8, <2>11, <2>14, WorkPush DEF a
  <2>16. Good(u, a, n, P)
    BY <2>3, <2>5, <2>6, <2>10, <2>15 DEF Good, Resumed
  <2>17. Items(u, a) = Items(t, s)
    <3>1. ToSet(<<>>) = {}
      BY EmptyIs
    <3> QED BY <2>3, <2>5, <3>1 DEF Items, Resumed
  <2> QED BY <2>1, <2>16, <2>17
<1> QED BY <1>1, <1>2

-----------------------------------------------------------------------------
(* Changes of a good terminal.                                             *)

(* The command that a change is about. *)
LEMMA GoodFacts ==
  ASSUME NEW P, NEW n, NEW t, NEW s, Good(t, s, n, P)
  PROVE  /\ t \in Terminals /\ Terminal(t) /\ Kind(t) /\ CallsFit(t, s) /\ Alone(t, s)
         /\ s \in Seq(Calls)
         /\ t.work \in [Commands -> Works] /\ t.promise \in [Commands -> Promised]
         /\ \A c \in Commands : t.work[c] # "none" => c \in Ran(t)
         /\ \A c \in ToSet(t.waiting) : c \in Commands /\ Done(t, c)
<1>1. /\ t \in Terminals /\ Terminal(t) /\ Kind(t) /\ CallsFit(t, s) /\ Alone(t, s)
      /\ s \in Seq(Calls)
  BY TerminalSeqs DEF Good, WorkOK
<1>2. /\ t.work \in [Commands -> Works] /\ t.promise \in [Commands -> Promised]
      /\ ToSet(t.waiting) \subseteq Commands
  BY <1>1, TerminalSeqs, SetOf
<1> QED BY <1>1, <1>2 DEF Kind

LEMMA RanIsNotEmpty ==
  ASSUME NEW t, Terminal(t)
  PROVE  (Ran(t) = {}) <=> (t.ran = <<>>)
BY TerminalSeqs, EmptySet DEF Ran

(* The keyboard is switched. *)
LEMMA GoodSwitch ==
  ASSUME NEW P, NEW n, NEW t, NEW s, Good(t, s, n, P), NEW u, Switched(u, t)
  PROVE  Good(u, s, n, P) /\ Items(u, s) = Items(t, s)
<1>1. Terminal(u)
  BY DEF Good, Terminal, Switched, SameQueues
<1>2. Kind(u)
  BY GoodFacts DEF Kind, Switched, SameWork, SameQueues, SameLists, Ran, Done
<1>3. Evolves(u, t)
  BY DEF Evolves, Switched, SameWork, Done
<1>4. CallsFit(u, s)
  BY <1>3, GoodFacts, EvolvesFits
<1>5. Alone(u, s)
  BY GoodFacts DEF Alone, Pauses, Unresumed, Working, Switched, SameWork, SameQueues, SameLists, Ran
<1> QED BY <1>1, <1>2, <1>4, <1>5, GoodTerm DEF Switched

(* The program freezes the terminal, or thaws it. *)
LEMMA GoodFrozen ==
  ASSUME NEW P, NEW n, NEW t, NEW s, Good(t, s, n, P), NEW b \in BOOLEAN, b => ~t.enabled
  PROVE  LET u == [t EXCEPT !.frozen = b]
         IN Good(u, s, n, P) /\ Items(u, s) = Items(t, s) /\ u \in Terminals /\ u.enabled = t.enabled
<1> DEFINE u == [t EXCEPT !.frozen = b]
<1>1. /\ u \in Terminals /\ u.frozen = b /\ u.enabled = t.enabled /\ u.paused = t.paused
      /\ SameQueues(u, t) /\ SameLists(u, t) /\ SameWork(u, t)
  <2>1. t \in Terminals
    BY GoodFacts
  <2> QED BY <2>1 DEF Terminals, SameQueues, SameLists, SameWork
<1> HIDE DEF u
<1>2. Terminal(u)
  BY <1>1, GoodFacts DEF Terminal, SameQueues
<1>3. Kind(u)
  BY <1>1, GoodFacts DEF Kind, SameWork, SameQueues, SameLists, Ran, Done
<1>4. Evolves(u, t)
  BY <1>1 DEF Evolves, SameWork, Done
<1>5. CallsFit(u, s)
  BY <1>4, GoodFacts, EvolvesFits
<1>6. Alone(u, s)
  BY <1>1, GoodFacts DEF Alone, Pauses, Unresumed, Working, SameWork, SameQueues, SameLists, Ran
<1>7. Good(u, s, n, P) /\ Items(u, s) = Items(t, s)
  BY <1>1, <1>2, <1>3, <1>5, <1>6, GoodTerm
<1> QED BY <1>1, <1>7 DEF u

WithWaiting(t, q) == [t EXCEPT !.waiting = q]

AllDone(t, q) == \A c \in ToSet(q) : Done(t, c)

(* The list of those that wait for a resume changes. *)
LEMMA GoodWaiting ==
  ASSUME NEW P, NEW n, NEW t, NEW s, Good(t, s, n, P), NEW q \in Seq(Commands),
         AllDone(t, q)
  PROVE  LET u == WithWaiting(t, q)
         IN Good(u, s, n, P) /\ Items(u, s) = Items(t, s)
<1> DEFINE u == WithWaiting(t, q)
<1>1. /\ u \in Terminals /\ u.waiting = q /\ u.requests = t.requests
      /\ SameSwitches(u, t) /\ SameQueues(u, t) /\ SameWork(u, t)
  BY GoodFacts, WaitingSet DEF WithWaiting
<1> HIDE DEF u
<1>2. Terminal(u)
  BY <1>1, GoodFacts DEF Terminal, SameQueues, SameSwitches
<1>3. Kind(u)
  BY <1>1, GoodFacts DEF Kind, SameWork, SameQueues, Ran, Done, AllDone
<1>4. Evolves(u, t)
  BY <1>1 DEF Evolves, SameWork, Done
<1>5. CallsFit(u, s)
  BY <1>4, GoodFacts, EvolvesFits
<1>6. Alone(u, s)
  BY <1>1, GoodFacts
     DEF Alone, Pauses, Unresumed, Working, SameWork, SameQueues, SameSwitches, Ran
<1>7. Good(u, s, n, P) /\ Items(u, s) = Items(t, s)
  BY <1>1, <1>2, <1>3, <1>5, <1>6, GoodTerm
<1> QED BY <1>7 DEF u

(* The work on a command that has been called ends. *)
LEMMA GoodOver ==
  ASSUME NEW P, NEW n, NEW t, NEW s, Good(t, s, n, P), NEW c \in Commands,
         t.work[c] # "none"
  PROVE  LET u == [t EXCEPT !.work[c] = "over"]
         IN /\ Good(u, s, n, P) /\ Items(u, s) = Items(t, s)
            /\ u.work = [t.work EXCEPT ![c] = "over"] /\ u.promise = t.promise
            /\ u.ran = t.ran /\ u.paused = t.paused
            /\ \A d \in Commands : Working(u, d) => d # c /\ Working(t, d)
<1> DEFINE u == [t EXCEPT !.work[c] = "over"]
<1>1. /\ u \in Terminals /\ u.work = [t.work EXCEPT ![c] = "over"] /\ u.promise = t.promise
      /\ SameSwitches(u, t) /\ SameQueues(u, t) /\ SameLists(u, t)
  BY GoodFacts, WorkSet DEF Works
<1> HIDE DEF u
<1>2. u.work[c] = "over" /\ \A d \in Commands \ {c} : u.work[d] = t.work[d]
  BY <1>1, GoodFacts
<1>3. Terminal(u)
  BY <1>1, GoodFacts DEF Terminal, SameQueues, SameSwitches
<1>4. Ran(u) = Ran(t) /\ ToSet(u.waiting) = ToSet(t.waiting)
  BY <1>1 DEF Ran, SameQueues, SameLists
<1>5. Evolves(u, t)
  BY <1>2 DEF Evolves, Done
<1>6. Kind(u)
  <2>1. \A d \in Commands : u.work[d] # "none" => d \in Ran(u)
    BY <1>2, <1>4, GoodFacts
  <2>2. \A d \in ToSet(u.waiting) : Done(u, d)
    BY <1>4, <1>5, GoodFacts DEF Evolves
  <2>3. \A d \in Commands : u.promise[d] = "resolved" =>
          u.work[d] = "over" \/ (u.work[d] = "requested" /\ Ran(u) # {d})
    BY <1>1, <1>2, <1>4, GoodFacts DEF Kind
  <2> QED BY <2>1, <2>2, <2>3 DEF Kind
<1>7. CallsFit(u, s)
  BY <1>5, GoodFacts, EvolvesFits
<1>8. \A d \in Commands : Working(u, d) => d # c /\ Working(t, d)
  <2> SUFFICES ASSUME NEW d \in Commands, Working(u, d) PROVE d # c /\ Working(t, d)
    OBVIOUS
  <2>1. d # c
    BY <1>2 DEF Working
  <2> QED BY <1>1, <1>2, <1>4, <2>1 DEF Working
<1>9. Alone(u, s)
  BY <1>1, <1>2, <1>8, GoodFacts DEF Alone, Pauses, Unresumed, SameSwitches, SameLists
<1>10. Good(u, s, n, P) /\ Items(u, s) = Items(t, s)
  BY <1>1, <1>3, <1>6, <1>7, <1>9, GoodTerm
<1> QED BY <1>1, <1>8, <1>10 DEF u, SameQueues, SameSwitches

(* The interpreter has ended its part of a command. *)
LEMMA GoodEnded ==
  ASSUME NEW P, NEW n, NEW t, NEW s, Good(t, s, n, P), NEW c \in Commands
  PROVE  LET u == ended(t, c)
         IN /\ Good(u, s, n, P) /\ Items(u, s) = Items(t, s)
            /\ u.work = [t.work EXCEPT ![c] = IF t.work[c] = "called" THEN "over" ELSE t.work[c]]
            /\ u.promise = t.promise /\ u.ran = t.ran /\ u.paused = t.paused
            /\ \A d \in Commands : Working(u, d) => Working(t, d)
<1>0. t \in Terminals /\ t.work \in [Commands -> Works]
  BY GoodFacts
<1>1. CASE t.work[c] = "called"
  <2>1. ended(t, c) = [t EXCEPT !.work[c] = "over"]
    BY <1>1 DEF ended
  <2>2. t.work[c] # "none"
    BY <1>1
  <2> QED BY <1>1, <2>1, <2>2, GoodOver
<1>2. CASE t.work[c] # "called"
  <2>1. [t.work EXCEPT ![c] = t.work[c]] = t.work
    BY <1>0
  <2>2. ended(t, c) = [t EXCEPT !.work = [t.work EXCEPT ![c] = t.work[c]]]
    BY <1>2 DEF ended
  <2>3. [t EXCEPT !.work = t.work] = t
    BY <1>0 DEF Terminals
  <2>4. ended(t, c) = t
    BY <2>1, <2>2, <2>3
  <2> QED BY <1>2, <2>1, <2>4
<1> QED BY <1>1, <1>2

WithPromise(t, c, p) == [t EXCEPT !.promise[c] = p]

(* The promise of a command is settled: broken, or resolved if the command  *)
(* is done.                                                                *)
LEMMA GoodSettled ==
  ASSUME NEW P, NEW n, NEW t, NEW s, Good(t, s, n, P), NEW c \in Commands,
         NEW p \in {"broken", "resolved"},
         p = "resolved" => t.work[c] = "over" \/ (t.work[c] = "requested" /\ Ran(t) # {c})
  PROVE  LET u == WithPromise(t, c, p)
         IN /\ Good(u, s, n, P) /\ Items(u, s) = Items(t, s)
            /\ u.work = t.work /\ u.ran = t.ran /\ u.paused = t.paused
            /\ u.waiting = t.waiting
            /\ \A d \in Commands : Working(u, d) => d # c /\ Working(t, d)
<1> DEFINE u == WithPromise(t, c, p)
<1>1. /\ u \in Terminals /\ u.promise = [t.promise EXCEPT ![c] = p] /\ u.work = t.work
      /\ SameSwitches(u, t) /\ SameQueues(u, t) /\ SameLists(u, t)
  <2>1. t \in Terminals /\ p \in Promised
    BY GoodFacts DEF Promised
  <2> QED BY <2>1, PromiseSet DEF WithPromise
<1> HIDE DEF u
<1>2. u.promise[c] = p /\ \A d \in Commands \ {c} : u.promise[d] = t.promise[d]
  BY <1>1, GoodFacts
<1>3. Terminal(u)
  BY <1>1, GoodFacts DEF Terminal, SameQueues, SameSwitches
<1>4. Ran(u) = Ran(t) /\ ToSet(u.waiting) = ToSet(t.waiting)
  BY <1>1 DEF Ran, SameQueues, SameLists
<1>5. Evolves(u, t)
  BY <1>1 DEF Evolves, Done
<1>6. Kind(u)
  <2>1. \A d \in Commands : u.work[d] # "none" => d \in Ran(u)
    BY <1>1, <1>4, GoodFacts
  <2>2. \A d \in ToSet(u.waiting) : Done(u, d)
    BY <1>4, <1>5, GoodFacts DEF Evolves
  <2>3. \A d \in Commands : u.promise[d] = "resolved" =>
          u.work[d] = "over" \/ (u.work[d] = "requested" /\ Ran(u) # {d})
    BY <1>1, <1>2, <1>4, GoodFacts DEF Kind
  <2> QED BY <2>1, <2>2, <2>3 DEF Kind
<1>7. CallsFit(u, s)
  BY <1>5, GoodFacts, EvolvesFits
<1>8. \A d \in Commands : Working(u, d) => d # c /\ Working(t, d)
  <2> SUFFICES ASSUME NEW d \in Commands, Working(u, d) PROVE d # c /\ Working(t, d)
    OBVIOUS
  <2>1. d # c
    BY <1>2 DEF Working
  <2> QED BY <1>1, <1>2, <1>4, <2>1 DEF Working
<1>9. Alone(u, s)
  BY <1>1, <1>2, <1>8, GoodFacts DEF Alone, Pauses, Unresumed, SameSwitches, SameLists
<1>10. Good(u, s, n, P) /\ Items(u, s) = Items(t, s)
  BY <1>1, <1>3, <1>6, <1>7, <1>9, GoodTerm
<1> QED BY <1>1, <1>8, <1>10 DEF u, SameQueues, SameSwitches, SameLists

(* after_exec, for a command that is done. *)
LEMMA GoodAfterExec ==
  ASSUME NEW P, NEW n, NEW t, NEW s, Good(t, s, n, P), NEW c \in Commands,
         t.promise[c] = "pending" =>
           t.work[c] = "over" \/ (t.work[c] = "requested" /\ Ran(t) # {c})
  PROVE  LET u == after_exec(t, c)
         IN /\ Good(u, s, n, P) /\ Items(u, s) = Items(t, s)
            /\ u.work = t.work /\ u.ran = t.ran /\ u.waiting = t.waiting
            /\ \A d \in Commands : Working(u, d) => Working(t, d)
<1>0. t \in Terminals /\ t.promise \in [Commands -> Promised]
  BY GoodFacts
<1>1. CASE t.promise[c] = "pending"
  <2>1. after_exec(t, c) = WithPromise(t, c, "resolved")
    BY <1>1 DEF after_exec, WithPromise
  <2>2. t.work[c] = "over" \/ (t.work[c] = "requested" /\ Ran(t) # {c})
    BY <1>1
  <2>3. "resolved" \in {"broken", "resolved"}
    OBVIOUS
  <2> DEFINE v == WithPromise(t, c, "resolved")
  <2>4. /\ Good(v, s, n, P) /\ Items(v, s) = Items(t, s)
        /\ v.work = t.work /\ v.ran = t.ran /\ v.waiting = t.waiting
        /\ \A d \in Commands : Working(v, d) => d # c /\ Working(t, d)
    BY <2>2, <2>3, GoodSettled
  <2> HIDE DEF v
  <2>5. after_exec(t, c) = v
    BY <2>1 DEF v
  <2> QED BY <2>4, <2>5
<1>2. CASE t.promise[c] # "pending"
  <2>1. [t.promise EXCEPT ![c] = t.promise[c]] = t.promise
    BY <1>0
  <2>2. after_exec(t, c) = [t EXCEPT !.promise = [t.promise EXCEPT ![c] = t.promise[c]]]
    BY <1>2 DEF after_exec
  <2>3. [t EXCEPT !.promise = t.promise] = t
    BY <1>0 DEF Terminals
  <2>4. after_exec(t, c) = t
    BY <2>1, <2>2, <2>3
  <2> QED BY <2>4
<1> QED BY <1>1, <1>2

\* Calls of which the invariant asks nothing.
LEMMA CallbackCall ==
  ASSUME NEW t, NEW cs \in Seq(Commands)
  PROVE  LET f == Call("callback", cs)
         IN /\ f \in Calls /\ Bare(f) /\ CallFits(t, f)
            /\ \A c \in Commands : f # Call("interpreter", <<c>>)
            /\ \A c : Unresumed(t, f, c)
<1> DEFINE f == Call("callback", cs)
<1>1. f \in Calls /\ f.at = "callback"
  BY DEF Places, Calls, Call
<1>2. ASSUME NEW c \in Commands
      PROVE  f \notin {Call("interpreter", <<c>>), Call("value", <<c>>), Call("fulfilled", <<c>>)}
  BY <1>1 DEF Call
<1> HIDE DEF f
<1>3. CallFits(t, f) /\ Bare(f)
  BY <1>1, <1>2 DEF CallFits, Bare
<1>4. \A c : Unresumed(t, f, c)
  BY <1>1 DEF Unresumed
<1> QED BY <1>1, <1>2, <1>3, <1>4 DEF f

(* The callbacks of a promise are called. *)
LEMMA GoodCallback ==
  ASSUME NEW P, NEW n, NEW t, NEW s, Good(t, s, n, P), t.ran # <<>>,
         NEW v, NEW c \in Commands
  PROVE  /\ Good(t, Callback(v, c, s), n, P)
         /\ Items(t, Callback(v, c, s)) = Items(t, s)
<1> DEFINE f == Call("callback", <<c>>)
<1>1. /\ f \in Calls /\ Bare(f) /\ CallFits(t, f)
      /\ \A d \in Commands : f # Call("interpreter", <<d>>)
      /\ \A d : Unresumed(t, f, d)
  BY OneCommand, CallbackCall
<1> HIDE DEF f
<1>2. Good(t, Append(s, f), n, P) /\ Items(t, Append(s, f)) = Items(t, s)
  BY <1>1, GoodPush
<1> QED BY <1>2 DEF Callback, f

(* The promise of a command that is done is resolved. *)
LEMMA GoodResolves ==
  ASSUME NEW P, NEW n, NEW t, NEW s, Good(t, s, n, P), NEW c \in Commands, t.ran # <<>>,
         t.promise[c] = "pending" =>
           t.work[c] = "over" \/ (t.work[c] = "requested" /\ Ran(t) # {c}),
         Resolve(t, c, s)
  PROVE  Good(term', stack', n, P) /\ thrown' = FALSE /\ Items(term', stack') = Items(t, s)
<1> DEFINE u == after_exec(t, c)
<1>1. Good(u, s, n, P) /\ Items(u, s) = Items(t, s) /\ u.ran = t.ran
  BY GoodAfterExec
<1>2. term' = u /\ stack' = Callback(t, c, s) /\ thrown' = FALSE
  BY DEF Resolve
<1> HIDE DEF u
<1> QED BY <1>1, <1>2, GoodCallback

(* A command runs, that is not behind others in the queue. *)
LEMMA GoodRun ==
  ASSUME NEW P, NEW n, NEW t, NEW s, Good(t, s, n, P), NEW c \in Commands, c \in Upto(n),
         c \notin Ran(t),
         MayRun(c, t.ran, t.delayed, s, P),
         NEW w \in {"called", "over"}, NEW p \in {"pending", "broken"}
  PROVE  LET u == Started(t, c, w, p)
         IN /\ Good(u, s, n, P) /\ Items(u, s) = Items(t, s) \cup {c}
            /\ u.work[c] = w /\ u.ran # <<>>
            /\ \A k \in 1..Len(s) : s[k] # Call("interpreter", <<c>>)
<1> DEFINE u == Started(t, c, w, p)
<1>1. /\ t \in Terminals /\ Terminal(t) /\ Kind(t) /\ CallsFit(t, s) /\ Alone(t, s)
      /\ s \in Seq(Calls) /\ t.ran \in Seq(Commands) /\ t.delayed \in Seq(Commands)
      /\ t.work \in [Commands -> Works] /\ t.promise \in [Commands -> Promised]
  BY GoodFacts, TerminalSeqs
<1>2. /\ u \in Terminals /\ u.ran = Append(t.ran, c) /\ u.delayed = t.delayed
      /\ u.work = [t.work EXCEPT ![c] = w] /\ u.promise = [t.promise EXCEPT ![c] = p]
      /\ SameSwitches(u, t) /\ SameLists(u, t)
  <2>1. w \in Works /\ p \in Promised
    BY DEF Works, Promised
  <2> QED BY <1>1, <2>1, RunIs DEF Started
<1> HIDE DEF u
<1>3. /\ u.work[c] = w /\ u.promise[c] = p
      /\ \A d \in Commands \ {c} : u.work[d] = t.work[d] /\ u.promise[d] = t.promise[d]
  BY <1>1, <1>2
<1>4. u.ran # <<>> /\ Ran(u) = Ran(t) \cup {c}
  <2>1. Append(t.ran, c) # <<>> /\ ToSet(Append(t.ran, c)) = ToSet(t.ran) \cup {c}
    BY <1>1, AppendProperties, AppendSet
  <2> QED BY <1>2, <2>1 DEF Ran
<1>5. t.work[c] = "none"
  BY <1>1 DEF Kind
<1>6. Queue(u.ran, u.delayed, s, n, P)
  <2>1. Queue(t.ran, t.delayed, s, n, P)
    BY DEF Good
  <2>2. Queue(Append(t.ran, c), t.delayed, s, n, P)
    BY <1>1, <2>1, QueueRuns
  <2> QED BY <1>2, <2>2
<1>7. Terminal(u)
  BY <1>1, <1>2, <1>4 DEF Terminal, SameSwitches
<1>8. Evolves(u, t)
  BY <1>3, <1>5 DEF Evolves, Done
<1>9. CallsFit(u, s)
  BY <1>1, <1>8, EvolvesFits
<1>10. Kind(u)
  <2>1. \A d \in Commands : u.work[d] # "none" => d \in Ran(u)
    BY <1>1, <1>3, <1>4 DEF Kind
  <2>2. \A d \in ToSet(u.waiting) : Done(u, d)
    BY <1>2, <1>8, GoodFacts DEF Evolves, SameLists
  <2>3. ASSUME NEW d \in Commands, u.promise[d] = "resolved"
        PROVE  u.work[d] = "over" \/ (u.work[d] = "requested" /\ Ran(u) # {d})
    <3>1. d # c
      BY <1>3, <2>3
    <3>2. t.promise[d] = "resolved" /\ t.work[d] = u.work[d]
      BY <1>3, <2>3, <3>1
    <3>3. Ran(u) # {d}
      BY <1>4, <3>1
    <3> QED BY <1>1, <3>2, <3>3 DEF Kind
  <2> QED BY <2>1, <2>2, <2>3 DEF Kind
<1>11. Alone(u, s)
  <2> SUFFICES ASSUME NEW d \in Commands, Working(u, d)
               PROVE  Pauses(u, d) /\ \A k \in 1..Len(s) : Unresumed(u, s[k], d)
    BY DEF Alone
  <2>1. d = c /\ Ran(t) = {}
    BY <1>4 DEF Working
  <2>2. t.ran = <<>>
    BY <1>1, <2>1, RanIsNotEmpty
  <2>3. ~t.paused /\ s = <<>>
    BY <2>2 DEF Good, Terminal
  <2>4. u.work[d] = "called"
    BY <1>3, <2>1 DEF Working
  <2>5. Pauses(u, d)
    BY <1>2, <2>3, <2>4 DEF Pauses, SameSwitches
  <2>6. \A k \in 1..Len(s) : FALSE
    BY <2>3
  <2> QED BY <2>5, <2>6
<1>12. Good(u, s, n, P)
  BY <1>1, <1>4, <1>6, <1>7, <1>9, <1>10, <1>11 DEF Good, WorkOK
<1>13. Items(u, s) = Items(t, s) \cup {c}
  BY <1>2, <1>4 DEF Items, Ran
<1>14. ASSUME NEW k \in 1..Len(s) PROVE s[k] # Call("interpreter", <<c>>)
  BY <1>1, <1>5 DEF CallsFit, CallFits
<1> QED BY <1>3, <1>4, <1>12, <1>13, <1>14 DEF u

\* What a step says of exceptions.
Settles == thrown' \in BOOLEAN /\ (thrown' => stack' # <<>>)

LEMMA ThrowSettles == \A s : Throw(s) => Settles
BY DEF Throw, Settles

(* commands, called with a command that may run. *)
LEMMA GoodCommands ==
  ASSUME NEW P, NEW n, NEW s, Good(term, s, n, P), NEW c \in Commands, c \in Upto(n),
         c \notin Ran(term),
         MayRun(c, term.ran, term.delayed, s, P),
         commands(c, s)
  PROVE  Good(term', stack', n, P) /\ Settles /\ Items(term', stack') = Items(term, s) \cup {c}
<1> DEFINE w == "called"
           p == "pending"
           u == Started(term, c, w, p)
           f == Call("interpreter", <<c>>)
<1>1. /\ Good(u, s, n, P) /\ Items(u, s) = Items(term, s) \cup {c}
      /\ u.work[c] = w /\ u.ran # <<>>
      /\ \A k \in 1..Len(s) : s[k] # f
  <2>1. w \in {"called", "over"} /\ p \in {"pending", "broken"}
    OBVIOUS
  <2> HIDE DEF w, p
  <2> QED BY <2>1, GoodRun
<1>2. term' = u /\ stack' = Append(s, f) /\ thrown' = FALSE
  BY DEF commands
<1> HIDE DEF u
<1>3. f \in Calls /\ f.at = "interpreter"
  <2>1. "interpreter" \in Places
    BY DEF Places
  <2> QED BY <2>1, OneCommand, CallIs
<1>4. CallFits(u, f)
  <2>1. ASSUME NEW d \in Commands
        PROVE  f \notin {Call("value", <<d>>), Call("fulfilled", <<d>>)}
    BY <1>3 DEF Call
  <2>2. ASSUME NEW d \in Commands, f = Call("interpreter", <<d>>) PROVE d = c
    <3>1. <<d>> = <<c>>
      BY <2>2 DEF Call
    <3> QED BY <3>1
  <2>3. f.at # "trigger"
    BY <1>3
  <2> HIDE DEF f
  <2>4. ASSUME NEW d \in Commands, f = Call("interpreter", <<d>>) PROVE u.work[d] = "called"
    BY <1>1, <2>2, <2>4
  <2> QED BY <2>1, <2>3, <2>4 DEF CallFits
<1>5. \A d \in Commands : f = Call("interpreter", <<d>>) => \A k \in 1..Len(s) : s[k] # f
  BY <1>1
<1>6. Bare(f) /\ \A d : Unresumed(u, f, d)
  BY <1>3 DEF Bare, Unresumed
<1> HIDE DEF f
<1>7. Good(u, Append(s, f), n, P) /\ Items(u, Append(s, f)) = Items(u, s)
  BY <1>1, <1>3, <1>4, <1>5, <1>6, GoodPush
<1> QED BY <1>1, <1>2, <1>7 DEF Settles

LEMMA GoodUninterpreted ==
  ASSUME NEW P, NEW n, NEW s, Good(term, s, n, P), NEW c \in Commands, c \in Upto(n),
         c \notin Ran(term),
         MayRun(c, term.ran, term.delayed, s, P),
         Uninterpreted(c)
  PROVE  Good(term', s, n, P) /\ Items(term', s) = Items(term, s) \cup {c}
<1> DEFINE w == "over"
           p == "broken"
<1>1. w \in {"called", "over"} /\ p \in {"pending", "broken"}
  OBVIOUS
<1>2. term' = Started(term, c, w, p)
  BY DEF Uninterpreted
<1> HIDE DEF w, p
<1> DEFINE u == Started(term, c, w, p)
           f == Call("interpreter", <<c>>)
<1>3. /\ Good(u, s, n, P) /\ Items(u, s) = Items(term, s) \cup {c}
      /\ u.work[c] = w /\ u.ran # <<>>
      /\ \A k \in 1..Len(s) : s[k] # f
  BY <1>1, GoodRun
<1> HIDE DEF u, f
<1> QED BY <1>2, <1>3 DEF u

WithDelayed(t, c) == [t EXCEPT !.delayed = Append(@, c), !.promise[c] = "pending"]

(* A command is delayed, that is not behind what is left to the calls. *)
LEMMA GoodDelay ==
  ASSUME NEW P, NEW n, NEW t, NEW s, Good(t, s, n, P), NEW c \in Commands, c \in Upto(n),
         c \notin Ran(t), t.paused,
         MayDelay(c, t.ran, t.delayed, s, P)
  PROVE  LET u == WithDelayed(t, c)
         IN Good(u, s, n, P) /\ Items(u, s) = Items(t, s) \cup {c}
<1> DEFINE u == WithDelayed(t, c)
<1>0. Terminal(t) /\ t \in Terminals /\ Kind(t) /\ CallsFit(t, s) /\ Alone(t, s)
  BY GoodFacts
<1>2. /\ u \in Terminals /\ u.ran = t.ran /\ u.delayed = Append(t.delayed, c)
      /\ u.work = t.work /\ u.promise = [t.promise EXCEPT ![c] = "pending"]
      /\ SameSwitches(u, t) /\ SameLists(u, t)
  BY <1>0, DelayIs DEF WithDelayed
<1>3. t.ran \in Seq(Commands) /\ t.delayed \in Seq(Commands) /\ s \in Seq(Calls)
  BY <1>0, TerminalSeqs DEF Good
<1>4. /\ Queue(t.ran, Append(t.delayed, c), s, n, P)
      /\ ToSet(Append(t.delayed, c)) = ToSet(t.delayed) \cup {c}
  <2>1. Queue(t.ran, t.delayed, s, n, P)
    BY DEF Good
  <2>2. Queue(t.ran, Append(t.delayed, c), s, n, P)
    BY <1>3, <2>1, QueueDelays
  <2>3. ToSet(Append(t.delayed, c)) = ToSet(t.delayed) \cup {c}
    BY <1>3, AppendSet
  <2> QED BY <2>2, <2>3
<1>5. u.promise[c] = "pending" /\ \A d \in Commands \ {c} : u.promise[d] = t.promise[d]
  BY <1>0, <1>2, TerminalSeqs
<1> HIDE DEF u
<1>6. Terminal(u) /\ Ran(u) = Ran(t)
  BY <1>0, <1>2 DEF Terminal, SameSwitches, Ran
<1>7. Evolves(u, t)
  BY <1>2 DEF Evolves, Done
<1>8. CallsFit(u, s)
  BY <1>0, <1>3, <1>7, EvolvesFits
<1>9. Kind(u)
  <2>1. \A d \in Commands : u.promise[d] = "resolved" => t.promise[d] = "resolved"
    BY <1>5
  <2> QED BY <1>0, <1>2, <1>6, <2>1 DEF Kind, SameLists, Done
<1>10. Alone(u, s)
  <2>1. ASSUME NEW d \in Commands, Working(u, d) PROVE Working(t, d)
    <3>1. d \in Ran(t)
      BY <1>6, <2>1 DEF Working
    <3>2. d # c
      BY <3>1
    <3> QED BY <1>2, <1>5, <1>6, <2>1, <3>2 DEF Working
  <2> QED BY <1>0, <1>2, <2>1 DEF Alone, Pauses, Unresumed, SameSwitches, SameLists
<1>11. Good(u, s, n, P)
  BY <1>2, <1>3, <1>4, <1>6, <1>8, <1>9, <1>10 DEF Good, WorkOK
<1>12. Items(u, s) = Items(t, s) \cup {c}
  BY <1>2, <1>4 DEF Items
<1> QED BY <1>11, <1>12 DEF u

(* exec, called with a command that may be delayed or run. *)
LEMMA GoodExec ==
  ASSUME NEW P, NEW n, NEW s, Good(term, s, n, P), NEW c \in Commands, c \in Upto(n),
         c \notin Ran(term),
         MayDelay(c, term.ran, term.delayed, s, P),
         exec(c, s)
  PROVE  Good(term', stack', n, P) /\ Settles /\ Items(term', stack') = Items(term, s) \cup {c}
<1>0. Terminal(term) /\ term \in Terminals /\ Kind(term) /\ CallsFit(term, s) /\ Alone(term, s)
  BY GoodFacts
<1>1. CASE ~term.paused
  <2>1. term.delayed = <<>> /\ ToSet(term.delayed) = {}
    BY <1>0, <1>1, EmptyIs DEF Terminal
  <2>2. MayRun(c, term.ran, term.delayed, s, P)
    BY <2>1 DEF Before, MayRun, MayDelay
  <2>3. CASE commands(c, s)
    BY <2>2, <2>3, GoodCommands
  <2>4. CASE Uninterpreted(c) /\ Throw(s)
    <3>1. Good(term', s, n, P) /\ Items(term', s) = Items(term, s) \cup {c}
      BY <2>2, <2>4, GoodUninterpreted
    <3>2. stack' = s /\ Settles
      BY <2>4, ThrowSettles DEF Throw
    <3> QED BY <3>1, <3>2
  <2> QED BY <1>1, <2>3, <2>4 DEF exec
<1>2. CASE term.paused
  <2>1. term' = WithDelayed(term, c) /\ stack' = s /\ Settles
    BY <1>2 DEF exec, Settles, WithDelayed
  <2>2. Good(WithDelayed(term, c), s, n, P) /\ Items(WithDelayed(term, c), s) = Items(term, s) \cup {c}
    BY <1>2, GoodDelay
  <2> QED BY <2>1, <2>2
<1> QED BY <1>1, <1>2

-----------------------------------------------------------------------------
(* The actions.                                                            *)

Here == MayPrecede(typed, inside)

State ==
  /\ Good(term, stack, arrived, Here)
  /\ thrown \in BOOLEAN
  /\ thrown => stack # <<>>

\* Only an exception in a loop of resume loses commands.
Keeps ==
  \A c \in Items(term, stack) :
    c \in Items(term', stack') \/ (thrown /\ Last(stack).at = "loop" /\ c \in ToSet(Of))

\* What a step does that brings no command.
Fine == Good(term', stack', arrived, Here) /\ Settles /\ Keeps

LEMMA FineIf ==
  ASSUME Good(term', stack', arrived, Here), Settles, Items(term, stack) \subseteq Items(term', stack')
  PROVE  Fine
BY DEF Fine, Keeps

(* The innermost call and its callers. *)
LEMMA Innermost ==
  ASSUME State, stack # <<>>
  PROVE  /\ Good(term, Callers, arrived, Here) /\ term.ran # <<>> /\ Callers \in Seq(Calls)
         /\ Last(stack) \in Calls /\ Of \in Seq(Commands)
         /\ Last(stack) = Call(Last(stack).at, Of)
         /\ CallFits(term, Last(stack))
         /\ \A c \in Commands : Working(term, c) => Unresumed(term, Last(stack), c)
         /\ Items(term, stack) = Items(term, Callers) \cup ToSet(LeftTo(Last(stack)))
         /\ Bare(Last(stack)) => Items(term, stack) = Items(term, Callers)
         /\ \A c \in Commands : Last(stack) = Call("interpreter", <<c>>) =>
              \A k \in 1..Len(Callers) : Callers[k] # Last(stack)
<1> DEFINE f == Last(stack)
<1>1. Good(term, stack, arrived, Here)
  BY DEF State
<1>2. /\ Good(term, Callers, arrived, Here)
      /\ f \in Calls /\ CallFits(term, f)
      /\ Items(term, stack) = Items(term, Callers) \cup ToSet(LeftTo(f))
      /\ \A c \in Commands : Working(term, c) => Unresumed(term, f, c)
      /\ \A c \in Commands : f = Call("interpreter", <<c>>) =>
           \A k \in 1..Len(Callers) : Callers[k] # f
  BY <1>1, GoodPop DEF Callers
<1>3. term.ran # <<>> /\ Callers \in Seq(Calls)
  BY <1>1, <1>2 DEF Good
<1>4. f.of \in Seq(Commands) /\ f = Call(f.at, f.of)
  BY <1>2 DEF Calls, Call
<1>5. Bare(f) => Items(term, stack) = Items(term, Callers)
  BY <1>2, BareLeft
<1> QED BY <1>2, <1>3, <1>4, <1>5 DEF Of

LEMMA SwitchFine ==
  ASSUME State, NEW u, Switched(u, term), term' = u, UNCHANGED <<stack, thrown>>
  PROVE  Fine
<1>1. Good(u, stack, arrived, Here) /\ Items(u, stack) = Items(term, stack)
  BY GoodSwitch DEF State
<1>2. Settles
  BY DEF Settles, State
<1> QED BY <1>1, <1>2, FineIf

LEMMA FreezeFine ==
  ASSUME State, NEW on \in BOOLEAN, Freeze(on)
  PROVE  Fine
<1> DEFINE u == disable(term)
           b == FALSE
           v == [term EXCEPT !.frozen = b]
<1>0. term \in Terminals /\ Good(term, stack, arrived, Here)
  BY GoodFacts DEF State
<1>1. Settles /\ stack' = stack
  BY DEF Freeze, Settles, State
<1>2. CASE on
  <2>1. Switched(u, term)
    BY <1>0, SwitchIs
  <2>2. Good(u, stack, arrived, Here) /\ Items(u, stack) = Items(term, stack)
    BY <1>0, <2>1, GoodSwitch
  <2>3. ~u.enabled
    BY <1>0 DEF disable, Terminals, Good, Terminal
  <2>4. term' = [u EXCEPT !.frozen = TRUE]
    BY <1>2 DEF Freeze
  <2> HIDE DEF u
  <2> DEFINE a == TRUE
  <2>5. LET x == [u EXCEPT !.frozen = a]
        IN Good(x, stack, arrived, Here) /\ Items(x, stack) = Items(u, stack)
    <3>1. a \in BOOLEAN /\ (a => ~u.enabled)
      BY <2>3
    <3> HIDE DEF a
    <3> QED BY <2>2, <3>1, GoodFrozen
  <2> QED BY <1>1, <2>2, <2>4, <2>5, FineIf
<1>3. CASE ~on
  <2>1. LET x == v
        IN Good(x, stack, arrived, Here) /\ Items(x, stack) = Items(term, stack) /\ x \in Terminals
    <3>1. b \in BOOLEAN /\ (b => ~term.enabled)
      OBVIOUS
    <3> HIDE DEF b
    <3> QED BY <1>0, <3>1, GoodFrozen
  <2>2. term' = enable(v)
    BY <1>3 DEF Freeze
  <2> HIDE DEF v
  <2>3. Switched(enable(v), v)
    BY <2>1, SwitchIs
  <2>4. Good(enable(v), stack, arrived, Here) /\ Items(enable(v), stack) = Items(v, stack)
    BY <2>1, <2>3, GoodSwitch
  <2> QED BY <1>1, <2>1, <2>2, <2>4, FineIf
<1> QED BY <1>2, <1>3

(* The innermost call is the interpreter, or another call about a command. *)
LEMMA CallOf ==
  ASSUME State, stack # <<>>, NEW c \in Commands, Of = <<c>>
  PROVE  /\ Last(stack).at = "interpreter" => term.work[c] \in {"called", "requested", "over"}
         /\ Last(stack).at \in {"value", "fulfilled"} => term.work[c] = "over"
         /\ Last(stack).at # "loop" => Items(term, stack) = Items(term, Callers)
<1>1. Last(stack) = Call(Last(stack).at, <<c>>) /\ CallFits(term, Last(stack))
  BY Innermost
<1>2. Last(stack).at # "loop" => Bare(Last(stack))
  BY DEF Bare
<1> QED BY <1>1, <1>2, Innermost DEF CallFits

LEMMA RequestsFine ==
  ASSUME State, NEW c \in Commands, Requests(c)
  PROVE  Fine
<1> DEFINE w == "requested"
           u == Begun(term, c, w)
<1>1. /\ term \in Terminals /\ Terminal(term) /\ Kind(term) /\ CallsFit(term, stack)
      /\ Alone(term, stack) /\ stack \in Seq(Calls)
      /\ term.work \in [Commands -> Works]
  BY GoodFacts DEF State
<1>2. term.work[c] = "called" /\ term' = u /\ stack' = stack /\ thrown' = thrown /\ stack # <<>>
  BY DEF Requests, At
<1>3. /\ u \in Terminals /\ u.paused /\ u.frozen = term.frozen
      /\ SameQueues(u, term) /\ u.waiting = term.waiting /\ u.promise = term.promise
      /\ u.work = [term.work EXCEPT ![c] = w] /\ u.requests = Append(term.requests, c)
      /\ (term.frozen => ~term.enabled) => (u.frozen => ~u.enabled)
  BY <1>1, BegunIs DEF Works
<1> HIDE DEF u
<1>4. u.work[c] = "requested" /\ \A d \in Commands \ {c} : u.work[d] = term.work[d]
  BY <1>1, <1>3
<1>5. Ran(u) = Ran(term) /\ u.ran # <<>>
  BY <1>2, <1>3, Innermost DEF Ran, SameQueues
<1>6. Terminal(u)
  BY <1>1, <1>3, <1>5 DEF Terminal
<1>7. Evolves(u, term)
  BY <1>2, <1>4 DEF Evolves, Done
<1>8. CallsFit(u, stack)
  BY <1>1, <1>7, EvolvesFits
<1>9. Kind(u)
  <2>1. \A d \in Commands : u.work[d] # "none" => d \in Ran(u)
    BY <1>1, <1>2, <1>4, <1>5 DEF Kind
  <2>2. \A d \in ToSet(u.waiting) : Done(u, d)
    BY <1>3, <1>7, GoodFacts DEF Evolves, State
  <2>3. \A d \in Commands : u.promise[d] = "resolved" =>
          u.work[d] = "over" \/ (u.work[d] = "requested" /\ Ran(u) # {d})
    BY <1>1, <1>2, <1>3, <1>4, <1>5 DEF Kind
  <2> QED BY <2>1, <2>2, <2>3 DEF Kind
<1>10. Alone(u, stack)
  <2> SUFFICES ASSUME NEW d \in Commands, Working(u, d)
               PROVE  Pauses(u, d) /\ \A k \in 1..Len(stack) : Unresumed(u, stack[k], d)
    BY DEF Alone
  <2>1. d = c
    BY <1>1, <1>2, <1>5 DEF Working, Kind
  <2>2. Working(term, c)
    BY <1>2, <1>3, <1>5, <2>1 DEF Working
  <2>3. ASSUME NEW k \in 1..Len(stack) PROVE Unresumed(u, stack[k], d)
    BY <1>1, <1>2, <2>2 DEF Alone, Unresumed
  <2>4. c \in ToSet(u.requests)
    BY <1>1, <1>3, TerminalSeqs, AppendSet
  <2> QED BY <1>3, <1>4, <2>1, <2>3, <2>4 DEF Pauses
<1>11. Good(u, stack, arrived, Here) /\ Items(u, stack) = Items(term, stack)
  BY <1>3, <1>6, <1>8, <1>9, <1>10, GoodTerm DEF State
<1> QED BY <1>2, <1>11, FineIf DEF Settles, State

LEMMA ReturnsFine ==
  ASSUME State, NEW c \in Commands, Returns(c)
  PROVE  Fine
<1> DEFINE u == ended(term, c)
<1>1. /\ term \in Terminals /\ Alone(term, stack) /\ term.work \in [Commands -> Works]
  BY GoodFacts DEF State
<1>2. stack # <<>> /\ Of = <<c>> /\ Last(stack).at = "interpreter"
  BY DEF Returns, At
<1>3. /\ term.work[c] \in {"called", "requested", "over"}
      /\ Items(term, stack) = Items(term, Callers)
  BY <1>2, CallOf
<1>4. Good(term, Callers, arrived, Here) /\ term.ran # <<>>
  BY <1>2, Innermost
<1>5. /\ Good(u, Callers, arrived, Here) /\ Items(u, Callers) = Items(term, Callers)
      /\ u.work = [term.work EXCEPT ![c] = IF term.work[c] = "called" THEN "over" ELSE term.work[c]]
      /\ u.promise = term.promise /\ u.ran = term.ran /\ u.paused = term.paused
      /\ \A d \in Commands : Working(u, d) => Working(term, d)
  BY <1>4, GoodEnded
<1>6. IF term.paused
      THEN term' = [u EXCEPT !.waiting = Append(@, c)] /\ stack' = Callers /\ thrown' = FALSE
      ELSE Resolve(u, c, Callers)
  BY DEF Returns, waitForResume
<1> HIDE DEF u
<1>7. Good(u, Callers, arrived, Here)
  BY <1>5
<1>8. u.work[c] = "over" \/ (u.work[c] = "requested" /\ term.work[c] = "requested")
  BY <1>1, <1>3, <1>5
<1>9. CASE term.paused
  <2> DEFINE q == Append(u.waiting, c)
  <2>1. u \in Terminals /\ Terminal(u) /\ \A d \in ToSet(u.waiting) : Done(u, d)
    BY <1>5, GoodFacts
  <2>2. u.waiting \in Seq(Commands)
    BY <2>1, TerminalSeqs
  <2>3. q \in Seq(Commands) /\ ToSet(q) = ToSet(u.waiting) \cup {c}
    BY <2>2, AppendSet
  <2>4. Done(u, c)
    BY <1>8 DEF Done
  <2>5. q \in Seq(Commands) /\ AllDone(u, q)
    BY <2>1, <2>3, <2>4 DEF AllDone
  <2>6. term' = WithWaiting(u, q) /\ stack' = Callers /\ thrown' = FALSE
    BY <1>6, <1>9 DEF WithWaiting
  <2> HIDE DEF q
  <2>7. LET v == WithWaiting(u, q)
        IN Good(v, Callers, arrived, Here) /\ Items(v, Callers) = Items(u, Callers)
    BY <1>7, <2>5, GoodWaiting
  <2> QED BY <1>3, <1>5, <2>6, <2>7, FineIf DEF Settles
<1>10. CASE ~term.paused
  <2>1. term.work[c] = "requested" /\ term.promise[c] = "pending" => Ran(term) # {c}
    BY <1>1, <1>10 DEF Alone, Working, Pauses
  <2>2. u.promise[c] = "pending" =>
          u.work[c] = "over" \/ (u.work[c] = "requested" /\ Ran(u) # {c})
    BY <1>5, <1>8, <2>1 DEF Ran
  <2>3. Resolve(u, c, Callers) /\ u.ran # <<>>
    BY <1>4, <1>5, <1>6, <1>10
  <2>4. /\ Good(term', stack', arrived, Here) /\ thrown' = FALSE
        /\ Items(term', stack') = Items(u, Callers)
    BY <1>7, <2>2, <2>3, GoodResolves
  <2> QED BY <1>3, <1>5, <2>4, FineIf DEF Settles
<1> QED BY <1>9, <1>10

LEMMA ResolvesFine ==
  ASSUME State, NEW c \in Commands, Resolves(c)
  PROVE  Fine
<1>1. /\ stack # <<>> /\ Of = <<c>> /\ Last(stack).at \in {"value", "fulfilled"}
      /\ Resolve(term, c, Callers)
  BY DEF Resolves, At
<1>2. /\ term.work[c] = "over" /\ Items(term, stack) = Items(term, Callers)
  BY <1>1, CallOf
<1>3. Good(term, Callers, arrived, Here) /\ term.ran # <<>>
  BY <1>1, Innermost
<1>4. /\ Good(term', stack', arrived, Here) /\ thrown' = FALSE
      /\ Items(term', stack') = Items(term, Callers)
  BY <1>1, <1>2, <1>3, GoodResolves
<1> QED BY <1>2, <1>4, FineIf DEF Settles

(* The innermost call is left: what was left to it is lost if it is a loop. *)
LEMMA PopFine ==
  ASSUME State, stack # <<>>, Good(term', Callers, arrived, Here),
         Items(term', Callers) = Items(term, Callers), stack' = Callers, Settles,
         Last(stack).at = "loop" => thrown
  PROVE  Fine
<1>1. Items(term, stack) = Items(term, Callers) \cup ToSet(LeftTo(Last(stack)))
  BY Innermost
<1>2. Last(stack).at # "loop" => ToSet(LeftTo(Last(stack))) = {}
  BY EmptyIs DEF LeftTo
<1>3. Last(stack).at = "loop" => LeftTo(Last(stack)) = Of
  BY DEF LeftTo, Of
<1>4. Keeps
  BY <1>1, <1>2, <1>3 DEF Keeps
<1> QED BY <1>4 DEF Fine

LEMMA LeaveFine ==
  ASSUME State, \/ CallbackThrows \/ Rethrows \/ Escapes \/ TriggerEnds
  PROVE  Fine
<1>1. /\ stack # <<>> /\ stack' = Callers /\ term' = term /\ Settles
      /\ Last(stack).at = "loop" => thrown
  <2>1. CASE CallbackThrows
    BY <2>1, ThrowSettles DEF CallbackThrows, At, Throw
  <2>2. CASE Rethrows
    BY <2>2, ThrowSettles DEF Rethrows, At, Throw
  <2>3. CASE Escapes
    BY <2>3, ThrowSettles DEF Escapes, State, Throw
  <2>4. CASE TriggerEnds
    BY <2>4 DEF TriggerEnds, At, Settles, State
  <2> QED BY <2>1, <2>2, <2>3, <2>4
<1>2. Good(term, Callers, arrived, Here)
  BY <1>1, Innermost
<1>3. Good(term', Callers, arrived, Here) /\ Items(term', Callers) = Items(term, Callers)
  BY <1>1, <1>2
<1> QED BY <1>1, <1>3, PopFine

LEMMA CatchFine ==
  ASSUME State, Catches \/ AbortCatches
  PROVE  Fine
<1>1. thrown' = FALSE /\ term' = term /\ stack' = stack
  BY DEF Catches, AbortCatches
<1>2. Good(term', stack', arrived, Here) /\ Items(term', stack') = Items(term, stack)
  BY <1>1 DEF State
<1> QED BY <1>1, <1>2, FineIf DEF Settles

LEMMA CallbackReturnsFine ==
  ASSUME State, CallbackReturns
  PROVE  Fine
<1> DEFINE q == <<>>
           u == WithWaiting(term, q)
<1>1. /\ stack # <<>> /\ Last(stack).at = "callback" /\ stack' = Callers /\ thrown' = FALSE
      /\ term' = term \/ term' = u
  BY DEF CallbackReturns, At, WithWaiting, State
<1>2. Good(term, Callers, arrived, Here)
  BY <1>1, Innermost
<1>3. q \in Seq(Commands) /\ AllDone(term, q)
  BY EmptyIs DEF AllDone
<1> HIDE DEF q
<1>4. LET v == WithWaiting(term, q)
      IN Good(v, Callers, arrived, Here) /\ Items(v, Callers) = Items(term, Callers)
  BY <1>2, <1>3, GoodWaiting
<1> HIDE DEF u
<1>5. Good(term', Callers, arrived, Here) /\ Items(term', Callers) = Items(term, Callers)
  BY <1>1, <1>2, <1>4 DEF u
<1> QED BY <1>1, <1>5, PopFine DEF Settles

(* The interpreter, or a call that followed it, is left by an exception. *)
LEMMA FailsFine ==
  ASSUME State, NEW c \in Commands, stack # <<>>, Of = <<c>>,
         Last(stack).at \in {"interpreter", "value"}, Fails(c)
  PROVE  Fine
<1> DEFINE p == "broken"
           u == ended(term, c)
           t == WithPromise(u, c, p)
           f == Call("rethrow", <<>>)
<1>1. Items(term, stack) = Items(term, Callers) /\ term.work[c] # "none"
  BY CallOf
<1>2. /\ Good(term, Callers, arrived, Here) /\ term.ran # <<>> /\ Callers \in Seq(Calls)
  BY Innermost
<1>3. c \in Ran(term)
  BY <1>1, GoodFacts DEF State
<1>4. IF t.paused THEN resume(t, Append(Callers, f)) ELSE term' = t /\ Throw(Callers)
  BY DEF Fails, WithPromise
<1>5. p \in {"broken", "resolved"} /\ p # "resolved"
  OBVIOUS
<1>6. /\ Good(u, Callers, arrived, Here) /\ Items(u, Callers) = Items(term, Callers)
      /\ u.work = [term.work EXCEPT ![c] = IF term.work[c] = "called" THEN "over" ELSE term.work[c]]
      /\ u.promise = term.promise /\ u.ran = term.ran /\ u.paused = term.paused
      /\ \A d \in Commands : Working(u, d) => Working(term, d)
  BY <1>2, GoodEnded
<1> HIDE DEF u, p
<1>7. /\ Good(t, Callers, arrived, Here) /\ Items(t, Callers) = Items(u, Callers)
      /\ t.work = u.work /\ t.ran = u.ran /\ t.paused = u.paused
      /\ t.waiting = u.waiting
      /\ \A d \in Commands : Working(t, d) => d # c /\ Working(u, d)
  BY <1>5, <1>6, GoodSettled
<1> HIDE DEF t
<1>8. \A d \in Commands : ~Working(t, d)
  <2>1. c \in Ran(t) /\ ~Working(t, c)
    BY <1>3, <1>6, <1>7 DEF Ran
  <2> QED BY <2>1, NoneWorks
<1>9. CASE t.paused
  <2>1. f \in Calls /\ f.at = "rethrow"
    BY EmptyIs DEF Calls, Call, Places
  <2>2. f \in Calls /\ Bare(f) /\ CallFits(t, f) /\ \A d \in Commands : f # Call("interpreter", <<d>>)
    <3>1. \A d \in Commands : /\ f # Call("interpreter", <<d>>) /\ f # Call("value", <<d>>)
                              /\ f # Call("fulfilled", <<d>>)
      BY <2>1 DEF Call
    <3> HIDE DEF f
    <3> QED BY <2>1, <3>1 DEF Bare, CallFits
  <2> HIDE DEF f
  <2>3. t.ran # <<>>
    BY <1>2, <1>6, <1>7
  <2>4. Good(t, Append(Callers, f), arrived, Here) /\ Items(t, Append(Callers, f)) = Items(t, Callers)
    BY <1>7, <1>8, <2>2, <2>3, GoodPush
  <2>5. resume(t, Append(Callers, f))
    BY <1>4, <1>9
  <2>6. /\ Good(term', stack', arrived, Here) /\ thrown' = FALSE
        /\ Items(term', stack') = Items(t, Append(Callers, f))
    BY <1>8, <2>4, <2>5, GoodResume
  <2> QED BY <1>1, <1>6, <1>7, <2>4, <2>6, FineIf DEF Settles
<1>10. CASE ~t.paused
  <2>1. term' = t /\ stack' = Callers /\ Settles
    BY <1>4, <1>10, ThrowSettles DEF Throw
  <2>2. Good(term', Callers, arrived, Here) /\ Items(term', Callers) = Items(term, Callers)
    BY <1>6, <1>7, <2>1
  <2>3. Last(stack).at # "loop"
    OBVIOUS
  <2> QED BY <2>1, <2>2, <2>3, PopFine
<1> QED BY <1>9, <1>10

LEMMA ThrowsFine ==
  ASSUME State, NEW c \in Commands, Throws(c) \/ EscapesFrom(c)
  PROVE  Fine
<1>1. CASE Throws(c)
  BY <1>1, FailsFine DEF Throws, At
<1>2. CASE EscapesFrom(c)
  <2>1. stack # <<>> /\ Of = <<c>>
    BY <1>2 DEF EscapesFrom, State
  <2>2. CASE Last(stack).at \in {"interpreter", "value"} /\ Fails(c)
    BY <2>1, <2>2, FailsFine
  <2>3. CASE /\ Last(stack).at = "fulfilled"
             /\ Throw(Callers)
             /\ term' = [term EXCEPT !.promise[c] = "broken"]
    <3> DEFINE p == "broken"
               t == WithPromise(term, c, p)
    <3>1. stack' = Callers /\ Settles /\ term' = t /\ Last(stack).at # "loop"
      BY <2>3, ThrowSettles DEF Throw, WithPromise
    <3>2. Good(term, Callers, arrived, Here)
      BY <2>1, Innermost
    <3>3. p \in {"broken", "resolved"} /\ p # "resolved"
      OBVIOUS
    <3> HIDE DEF p
    <3>4. /\ Good(t, Callers, arrived, Here) /\ Items(t, Callers) = Items(term, Callers)
          /\ t.work = term.work /\ t.ran = term.ran /\ t.paused = term.paused
          /\ t.waiting = term.waiting
          /\ \A d \in Commands : Working(t, d) => d # c /\ Working(term, d)
      BY <3>2, <3>3, GoodSettled
    <3> HIDE DEF t
    <3>5. Good(term', Callers, arrived, Here) /\ Items(term', Callers) = Items(term, Callers)
      BY <3>1, <3>4
    <3> QED BY <2>1, <3>1, <3>5, PopFine
  <2> QED BY <1>2, <2>2, <2>3 DEF EscapesFrom
<1> QED BY <1>1, <1>2

(* The terminal pauses, while no command is the only one that works. *)
LEMMA GoodPause ==
  ASSUME NEW P, NEW n, NEW t, NEW s, Good(t, s, n, P), t.ran # <<>>,
         \A c \in Commands : ~Working(t, c)
  PROVE  /\ Good(pause(t), s, n, P) /\ Items(pause(t), s) = Items(t, s)
         /\ SameQueues(pause(t), t) /\ SameWork(pause(t), t)
<1> DEFINE u == pause(t)
<1>1. t \in Terminals /\ Terminal(t) /\ Kind(t) /\ CallsFit(t, s) /\ s \in Seq(Calls)
  BY GoodFacts
<1>2. Paused(u, t)
  BY <1>1, PauseIs
<1> HIDE DEF u
<1>3. Terminal(u)
  BY <1>1, <1>2 DEF Terminal, Paused, SameQueues
<1>4. Kind(u)
  BY <1>1, <1>2 DEF Kind, Paused, SameQueues, SameWork, SameLists, Ran, Done
<1>5. Evolves(u, t)
  BY <1>2 DEF Evolves, Paused, SameWork, Done
<1>6. CallsFit(u, s)
  BY <1>1, <1>5, EvolvesFits
<1>7. \A c \in Commands : ~Working(u, c)
  BY <1>2 DEF Working, Paused, SameQueues, SameWork, Ran
<1>8. Alone(u, s)
  BY <1>7 DEF Alone
<1>9. SameQueues(u, t) /\ SameWork(u, t)
  BY <1>2 DEF Paused
<1>10. Good(u, s, n, P) /\ Items(u, s) = Items(t, s)
  BY <1>3, <1>4, <1>6, <1>8, <1>9, GoodTerm
<1> QED BY <1>9, <1>10 DEF u

(* A call that comes to the promise of a command that is done. *)
LEMMA OverCall ==
  ASSUME NEW t, NEW c \in Commands, NEW at \in {"value", "fulfilled"}, t.work[c] = "over"
  PROVE  LET f == Call(at, <<c>>)
         IN /\ f \in Calls /\ Bare(f) /\ CallFits(t, f)
            /\ \A d \in Commands : f # Call("interpreter", <<d>>)
<1> DEFINE f == Call(at, <<c>>)
<1>1. <<c>> \in Seq(Commands)
  BY OneCommand
<1>2. f \in Calls /\ f.at = at /\ f.of = <<c>>
  BY <1>1 DEF Calls, Call, Places
<1>3. \A d \in Commands : f \in {Call("value", <<d>>), Call("fulfilled", <<d>>)} => d = c
  BY <1>2 DEF Call
<1>4. \A d \in Commands : f # Call("interpreter", <<d>>)
  BY <1>2 DEF Call
<1> HIDE DEF f
<1>5. Bare(f) /\ CallFits(t, f)
  BY <1>2, <1>3, <1>4 DEF Bare, CallFits
<1> QED BY <1>2, <1>4, <1>5 DEF f

LEMMA ReturnsValueFine ==
  ASSUME State, NEW c \in Commands, ReturnsValue(c)
  PROVE  Fine
<1> DEFINE u == ended(term, c)
           t == pause(u)
           at == "value"
           f == Call(at, <<c>>)
<1>1. /\ stack # <<>> /\ Of = <<c>> /\ Last(stack).at = "interpreter"
      /\ term.work[c] = "called" /\ resume(t, Append(Callers, f))
  BY DEF ReturnsValue, At
<1>2. Items(term, stack) = Items(term, Callers)
  BY <1>1, CallOf
<1>3. Good(term, Callers, arrived, Here) /\ term.ran # <<>> /\ Callers \in Seq(Calls)
  BY <1>1, Innermost
<1>4. c \in Ran(term) /\ term.work \in [Commands -> Works]
  BY <1>1, GoodFacts DEF State
<1>5. /\ Good(u, Callers, arrived, Here) /\ Items(u, Callers) = Items(term, Callers)
      /\ u.work = [term.work EXCEPT ![c] = IF term.work[c] = "called" THEN "over" ELSE term.work[c]]
      /\ u.promise = term.promise /\ u.ran = term.ran /\ u.paused = term.paused
      /\ \A d \in Commands : Working(u, d) => Working(term, d)
  BY <1>3, GoodEnded
<1> HIDE DEF u
<1>6. u.work[c] = "over" /\ c \in Ran(u)
  BY <1>1, <1>4, <1>5 DEF Ran
<1>7. \A d \in Commands : ~Working(u, d)
  <2>1. ~Working(u, c)
    BY <1>6 DEF Working
  <2> QED BY <1>6, <2>1, NoneWorks
<1>8. u.ran # <<>> /\ Good(u, Callers, arrived, Here)
  BY <1>3, <1>5
<1>9. /\ Good(t, Callers, arrived, Here) /\ Items(t, Callers) = Items(u, Callers)
      /\ SameQueues(t, u) /\ SameWork(t, u)
  BY <1>7, <1>8, GoodPause
<1> HIDE DEF t
<1>10. \A d \in Commands : ~Working(t, d)
  BY <1>7, <1>9 DEF Working, SameQueues, SameWork, Ran
<1>11. t.work[c] = "over" /\ at \in {"value", "fulfilled"}
  BY <1>6, <1>9 DEF SameWork
<1> HIDE DEF at
<1>12. /\ f \in Calls /\ Bare(f) /\ CallFits(t, f)
       /\ \A d \in Commands : f # Call("interpreter", <<d>>)
  BY <1>11, OverCall
<1> HIDE DEF f
<1>13. t.ran # <<>>
  BY <1>8, <1>9 DEF SameQueues
<1>14. Good(t, Append(Callers, f), arrived, Here) /\ Items(t, Append(Callers, f)) = Items(t, Callers)
  BY <1>9, <1>10, <1>12, <1>13, GoodPush
<1>15. /\ Good(term', stack', arrived, Here) /\ thrown' = FALSE
       /\ Items(term', stack') = Items(t, Append(Callers, f))
  BY <1>1, <1>10, <1>14, GoodResume
<1> QED BY <1>2, <1>5, <1>9, <1>14, <1>15, FineIf DEF Settles

(* Handlers of 'resume' have yet to be called. *)
LEMMA TriggerCall ==
  ASSUME NEW t, NEW cs \in Seq(Commands), AllDone(t, cs)
  PROVE  LET f == Call("trigger", cs)
         IN /\ f \in Calls /\ Bare(f) /\ CallFits(t, f)
            /\ \A c \in Commands : f # Call("interpreter", <<c>>)
<1> DEFINE f == Call("trigger", cs)
<1>1. f \in Calls /\ f.at = "trigger" /\ f.of = cs
  BY DEF Calls, Call, Places
<1>2. \A c \in Commands : /\ f # Call("interpreter", <<c>>)
                          /\ f # Call("value", <<c>>) /\ f # Call("fulfilled", <<c>>)
  BY <1>1 DEF Call
<1> HIDE DEF f
<1>3. Bare(f) /\ CallFits(t, f)
  BY <1>1, <1>2 DEF Bare, CallFits, AllDone
<1> QED BY <1>1, <1>2, <1>3 DEF f

LEMMA LoopEndsFine ==
  ASSUME State, LoopEnds
  PROVE  Fine
<1> DEFINE q == term.waiting
           f == Call("trigger", q)
<1>1. /\ stack # <<>> /\ Last(stack).at = "loop" /\ Of = <<>> /\ thrown' = FALSE
      /\ term' = term /\ stack' = Append(Callers, f)
  BY DEF LoopEnds, At, State
<1>2. /\ Good(term, Callers, arrived, Here) /\ term.ran # <<>>
      /\ \A c \in Commands : Working(term, c) => Unresumed(term, Last(stack), c)
      /\ Bare(Last(stack)) => Items(term, stack) = Items(term, Callers)
  BY <1>1, Innermost
<1>3. Items(term, stack) = Items(term, Callers)
  BY <1>1, <1>2 DEF Bare, Of
<1>4. \A c \in Commands : ~Working(term, c)
  BY <1>1, <1>2 DEF Unresumed
<1>5. q \in Seq(Commands) /\ AllDone(term, q)
  BY GoodFacts, TerminalSeqs DEF AllDone, State
<1> HIDE DEF q
<1>6. /\ f \in Calls /\ Bare(f) /\ CallFits(term, f)
      /\ \A c \in Commands : f # Call("interpreter", <<c>>)
  BY <1>5, TriggerCall
<1> HIDE DEF f
<1>7. Good(term, Append(Callers, f), arrived, Here) /\ Items(term, Append(Callers, f)) = Items(term, Callers)
  BY <1>2, <1>4, <1>6, GoodPush
<1>8. Good(term', stack', arrived, Here) /\ Items(term', stack') = Items(term, stack)
  BY <1>1, <1>3, <1>7
<1> QED BY <1>1, <1>8, FineIf DEF Settles

LEMMA TriggerNextFine ==
  ASSUME State, TriggerNext
  PROVE  Fine
<1> DEFINE c == Head(Of)
           r == Tail(Of)
           f == Call("trigger", r)
           s == Append(Callers, f)
           t == after_exec(term, c)
           q == <<>>
<1>1. /\ stack # <<>> /\ Last(stack).at = "trigger" /\ Of # <<>> /\ thrown' = FALSE
      /\ stack' = Callback(term, c, s)
      /\ term' = t \/ term' = WithWaiting(t, q)
  BY DEF TriggerNext, At, WithWaiting, State
<1>2. /\ Good(term, Callers, arrived, Here) /\ term.ran # <<>>
      /\ Of \in Seq(Commands) /\ CallFits(term, Last(stack))
      /\ \A d \in Commands : Working(term, d) => Unresumed(term, Last(stack), d)
      /\ Bare(Last(stack)) => Items(term, stack) = Items(term, Callers)
  BY <1>1, Innermost
<1>3. Items(term, stack) = Items(term, Callers)
  BY <1>1, <1>2 DEF Bare
<1>4. \A d \in Commands : ~Working(term, d)
  BY <1>1, <1>2 DEF Unresumed
<1>5. c \in Commands /\ r \in Seq(Commands) /\ ToSet(Of) = {c} \cup ToSet(r)
  BY <1>1, <1>2, TailSet
<1>6. AllDone(term, r) /\ Done(term, c) /\ r \in Seq(Commands)
  BY <1>1, <1>2, <1>5 DEF CallFits, AllDone, Of
<1>7. c \in Commands /\ q \in Seq(Commands)
  BY <1>5, EmptyIs
<1> HIDE DEF c, r
<1>8. /\ f \in Calls /\ Bare(f) /\ CallFits(term, f)
      /\ \A d \in Commands : f # Call("interpreter", <<d>>)
  BY <1>6, TriggerCall
<1> HIDE DEF f
<1>9. Good(term, s, arrived, Here) /\ Items(term, s) = Items(term, Callers)
  BY <1>2, <1>4, <1>8, GoodPush
<1> HIDE DEF s
<1>10. term.promise[c] = "pending" =>
         term.work[c] = "over" \/ (term.work[c] = "requested" /\ Ran(term) # {c})
  BY <1>4, <1>6, <1>7 DEF Done, Working
<1>11. /\ Good(t, s, arrived, Here) /\ Items(t, s) = Items(term, s)
       /\ t.work = term.work /\ t.ran = term.ran /\ t.waiting = term.waiting
       /\ \A d \in Commands : Working(t, d) => Working(term, d)
  BY <1>7, <1>9, <1>10, GoodAfterExec
<1> HIDE DEF t
<1> DEFINE z == Callback(term, c, s)
<1>12. Good(t, z, arrived, Here) /\ Items(t, z) = Items(t, s)
  <2>1. t.ran # <<>>
    BY <1>2, <1>11
  <2> QED BY <1>7, <1>11, <2>1, GoodCallback
<1> HIDE DEF z
<1>13. AllDone(t, q)
  BY EmptyIs DEF AllDone
<1> HIDE DEF q
<1>14. LET v == WithWaiting(t, q)
       IN Good(v, z, arrived, Here) /\ Items(v, z) = Items(t, z)
  BY <1>7, <1>12, <1>13, GoodWaiting
<1>15. Good(term', stack', arrived, Here) /\ Items(term', stack') = Items(term, stack)
  <2>1. stack' = z
    BY <1>1 DEF z
  <2> QED BY <1>1, <1>3, <1>9, <1>11, <1>12, <1>14, <2>1
<1> QED BY <1>1, <1>15, FineIf DEF Settles

LEMMA PromisesFine ==
  ASSUME State, NEW c \in Commands, Promises(c)
  PROVE  Fine
<1> DEFINE w == "promised"
           u == Begun(term, c, w)
<1>1. /\ term \in Terminals /\ Terminal(term) /\ Kind(term)
      /\ term.work \in [Commands -> Works]
      /\ \A d \in ToSet(term.waiting) : d \in Commands /\ Done(term, d)
  BY GoodFacts DEF State
<1>2. /\ stack # <<>> /\ Of = <<c>> /\ Last(stack).at = "interpreter"
      /\ term.work[c] = "called" /\ term' = u /\ stack' = Callers /\ thrown' = FALSE
  BY DEF Promises, At, State
<1>3. /\ u \in Terminals /\ u.paused /\ u.frozen = term.frozen
      /\ SameQueues(u, term) /\ u.waiting = term.waiting /\ u.promise = term.promise
      /\ u.work = [term.work EXCEPT ![c] = w] /\ u.requests = Append(term.requests, c)
      /\ (term.frozen => ~term.enabled) => (u.frozen => ~u.enabled)
  BY <1>1, BegunIs DEF Works
<1> HIDE DEF u
<1>4. u.work[c] = "promised" /\ \A d \in Commands \ {c} : u.work[d] = term.work[d]
  BY <1>1, <1>3
<1>5. /\ Good(term, Callers, arrived, Here) /\ term.ran # <<>> /\ Callers \in Seq(Calls)
      /\ Last(stack) = Call(Last(stack).at, Of)
      /\ \A d \in Commands : Last(stack) = Call("interpreter", <<d>>) =>
           \A k \in 1..Len(Callers) : Callers[k] # Last(stack)
  BY <1>2, Innermost
<1>6. Ran(u) = Ran(term) /\ u.ran # <<>>
  BY <1>3, <1>5 DEF Ran, SameQueues
<1>7. Terminal(u)
  BY <1>1, <1>3, <1>6 DEF Terminal
<1>8. CallsFit(u, Callers)
  <2> SUFFICES ASSUME NEW k \in 1..Len(Callers) PROVE CallFits(u, Callers[k])
    BY DEF CallsFit
  <2> DEFINE f == Callers[k]
  <2>1. CallFits(term, f) /\ f \in Calls
    BY <1>5, GoodFacts, ElementOfSeq DEF CallsFit
  <2>2. f # Call("interpreter", <<c>>)
    BY <1>2, <1>5
  <2> HIDE DEF f
  <2>3. ASSUME NEW d \in Commands
        PROVE  /\ f = Call("interpreter", <<d>>) => u.work[d] \in {"called", "requested", "over"}
               /\ f \in {Call("value", <<d>>), Call("fulfilled", <<d>>)} => u.work[d] = "over"
    <3>1. CASE d = c
      BY <1>2, <2>1, <2>2, <3>1 DEF CallFits
    <3>2. CASE d # c
      BY <1>4, <2>1, <3>2 DEF CallFits
    <3> QED BY <3>1, <3>2
  <2>4. f.of \in Seq(Commands)
    BY <2>1 DEF Calls
  <2>5. \A d \in ToSet(f.of) : d \in Commands
    BY <2>4, SetOf
  <2>6. f.at = "trigger" => \A d \in ToSet(f.of) : Done(u, d)
    BY <1>2, <1>4, <2>1, <2>5 DEF CallFits, Done
  <2>7. CallFits(u, f)
    BY <2>3, <2>6 DEF CallFits
  <2> QED BY <2>7 DEF f
<1>9. Kind(u)
  <2>1. \A d \in Commands : u.work[d] # "none" => d \in Ran(u)
    BY <1>1, <1>2, <1>4, <1>6 DEF Kind
  <2>2. \A d \in ToSet(u.waiting) : Done(u, d)
    BY <1>1, <1>2, <1>3, <1>4 DEF Done
  <2>3. \A d \in Commands : u.promise[d] = "resolved" =>
          u.work[d] = "over" \/ (u.work[d] = "requested" /\ Ran(u) # {d})
    BY <1>1, <1>2, <1>3, <1>4, <1>6 DEF Kind
  <2> QED BY <2>1, <2>2, <2>3 DEF Kind
<1>10. Alone(u, Callers)
  <2>1. c \in Ran(u) /\ ~Working(u, c)
    BY <1>1, <1>2, <1>4, <1>6 DEF Kind, Working
  <2>2. \A d \in Commands : ~Working(u, d)
    BY <2>1, NoneWorks
  <2> QED BY <2>2 DEF Alone
<1>11. Good(u, Callers, arrived, Here) /\ Items(u, Callers) = Items(term, Callers)
  BY <1>3, <1>5, <1>7, <1>8, <1>9, <1>10, GoodTerm
<1>12. Good(term', Callers, arrived, Here) /\ Items(term', Callers) = Items(term, Callers)
  BY <1>2, <1>11
<1> QED BY <1>2, <1>12, PopFine DEF Settles

LEMMA RejectedFine ==
  ASSUME State, NEW c \in Commands, Rejected(c)
  PROVE  Fine
<1> DEFINE w == "rejected"
           p == "broken"
           v == [term EXCEPT !.work[c] = w]
           u == WithPromise(v, c, p)
<1>1. /\ term \in Terminals /\ Terminal(term) /\ Kind(term)
      /\ term.work \in [Commands -> Works] /\ term.promise \in [Commands -> Promised]
      /\ \A d \in ToSet(term.waiting) : d \in Commands /\ Done(term, d)
  BY GoodFacts DEF State
<1>2. /\ stack = <<>> /\ stack' = stack /\ thrown' = thrown /\ term' = u
      /\ term.work[c] = "promised"
  BY DEF Rejected, Idle, WithPromise
<1>3. w \in Works /\ p \in Promised
  BY DEF Works, Promised
<1> HIDE DEF w, p
<1>4. /\ v \in Terminals /\ v.work = [term.work EXCEPT ![c] = w] /\ v.promise = term.promise
      /\ SameSwitches(v, term) /\ SameQueues(v, term) /\ SameLists(v, term)
  BY <1>1, <1>3, WorkSet
<1> HIDE DEF v
<1>5. /\ u \in Terminals /\ u.promise = [v.promise EXCEPT ![c] = p] /\ u.work = v.work
      /\ SameSwitches(u, v) /\ SameQueues(u, v) /\ SameLists(u, v)
  BY <1>3, <1>4, PromiseSet DEF WithPromise
<1> HIDE DEF u
<1>6. /\ u.work[c] = "rejected" /\ \A d \in Commands \ {c} : u.work[d] = term.work[d]
      /\ u.promise[c] = "broken" /\ \A d \in Commands \ {c} : u.promise[d] = term.promise[d]
  BY <1>1, <1>4, <1>5 DEF w, p
<1>7. /\ SameSwitches(u, term) /\ SameQueues(u, term) /\ SameLists(u, term)
      /\ Ran(u) = Ran(term)
  BY <1>4, <1>5 DEF SameSwitches, SameQueues, SameLists, Ran
<1>8. Terminal(u)
  BY <1>1, <1>5, <1>7 DEF Terminal, SameSwitches, SameQueues
<1>9. Kind(u)
  <2>1. \A d \in Commands : u.work[d] # "none" => d \in Ran(u)
    BY <1>1, <1>2, <1>6, <1>7 DEF Kind
  <2>2. \A d \in ToSet(u.waiting) : Done(u, d)
    BY <1>1, <1>2, <1>6, <1>7 DEF Done, SameLists
  <2>3. \A d \in Commands : u.promise[d] = "resolved" =>
          u.work[d] = "over" \/ (u.work[d] = "requested" /\ Ran(u) # {d})
    BY <1>1, <1>6, <1>7 DEF Kind
  <2> QED BY <2>1, <2>2, <2>3 DEF Kind
<1>10. CallsFit(u, stack)
  <2>1. Len(stack) = 0
    BY <1>2
  <2> HIDE DEF CallFits
  <2> QED BY <2>1 DEF CallsFit
<1>11. Alone(u, stack)
  <2>1. c \in Ran(u) /\ ~Working(u, c)
    BY <1>1, <1>2, <1>6, <1>7 DEF Kind, Working
  <2>2. \A d \in Commands : ~Working(u, d)
    BY <2>1, NoneWorks
  <2> QED BY <2>2 DEF Alone
<1>12. Good(u, stack, arrived, Here) /\ Items(u, stack) = Items(term, stack)
  BY <1>7, <1>8, <1>9, <1>10, <1>11, GoodTerm DEF State
<1> QED BY <1>2, <1>12, FineIf DEF Settles, State

\* The only command that works has a request, and that is to be aborted.
ToAbort(t, r) == \A c \in Commands : Working(t, c) => t.work[c] = "requested" /\ c \in ToSet(r)

(* Requests have yet to be aborted. *)
LEMMA GoodAbort ==
  ASSUME NEW P, NEW n, NEW t, NEW s, Good(t, s, n, P), t.ran # <<>>, NEW r \in Seq(Commands),
         ToAbort(t, r)
  PROVE  LET f == Call("abort", r)
         IN Good(t, Append(s, f), n, P) /\ Items(t, Append(s, f)) = Items(t, s)
<1> DEFINE f == Call("abort", r)
<1>1. f \in Calls /\ f.at = "abort" /\ f.of = r
  BY DEF Calls, Call, Places
<1>2. \A d \in Commands : /\ f # Call("interpreter", <<d>>)
                          /\ f # Call("value", <<d>>) /\ f # Call("fulfilled", <<d>>)
  BY <1>1 DEF Call
<1> HIDE DEF f
<1>3. Bare(f) /\ CallFits(t, f)
  BY <1>1, <1>2 DEF Bare, CallFits
<1>4. \A c \in Commands : Working(t, c) => Unresumed(t, f, c)
  BY <1>1 DEF Unresumed, ToAbort
<1>5. Good(t, Append(s, f), n, P) /\ Items(t, Append(s, f)) = Items(t, s)
  BY <1>1, <1>2, <1>3, <1>4, GoodPush
<1> QED BY <1>5 DEF f

LEMMA AbortNextFine ==
  ASSUME State, AbortNext
  PROVE  Fine
<1> DEFINE c == Head(Of)
           r == Tail(Of)
           f == Call("abort", r)
           s == Append(Callers, f)
           t == [term EXCEPT !.work[c] = "over"]
           p == "broken"
           u == WithPromise(t, c, p)
<1>1. /\ stack # <<>> /\ Last(stack).at = "abort" /\ Of # <<>> /\ thrown = FALSE
      /\ CASE term.work[c] = "requested" -> resume(t, s)
           [] term.work[c] = "promised" -> term' = u /\ stack' = s /\ thrown' = FALSE
           [] OTHER -> stack' = s /\ term' = term /\ thrown' = thrown
  BY DEF AbortNext, At, WithPromise, State
<1>2. /\ Good(term, Callers, arrived, Here) /\ term.ran # <<>>
      /\ Of \in Seq(Commands)
      /\ \A d \in Commands : Working(term, d) => Unresumed(term, Last(stack), d)
      /\ Bare(Last(stack)) => Items(term, stack) = Items(term, Callers)
  BY <1>1, Innermost
<1>3. Items(term, stack) = Items(term, Callers)
  BY <1>1, <1>2 DEF Bare
<1>4. \A d \in Commands : Working(term, d) => term.work[d] = "requested" /\ d \in ToSet(Of)
  BY <1>1, <1>2 DEF Unresumed, Of
<1>5. c \in Commands /\ r \in Seq(Commands) /\ ToSet(Of) = {c} \cup ToSet(r)
  BY <1>1, <1>2, TailSet
<1>6. c \in Commands /\ r \in Seq(Commands) /\ p \in {"broken", "resolved"} /\ p # "resolved"
  BY <1>5
<1>7. term.work[c] # "none" => c \in Ran(term)
  BY <1>6, GoodFacts DEF State
<1> HIDE DEF c, r, p
<1>8. term.work[c] # "none" =>
        /\ Good(t, Callers, arrived, Here) /\ Items(t, Callers) = Items(term, Callers)
        /\ t.work = [term.work EXCEPT ![c] = "over"] /\ t.promise = term.promise
        /\ t.ran = term.ran /\ t.paused = term.paused
        /\ \A d \in Commands : Working(t, d) => d # c /\ Working(term, d)
  <2> SUFFICES ASSUME term.work[c] # "none"
               PROVE  /\ Good(t, Callers, arrived, Here) /\ Items(t, Callers) = Items(term, Callers)
                      /\ t.work = [term.work EXCEPT ![c] = "over"] /\ t.promise = term.promise
                      /\ t.ran = term.ran /\ t.paused = term.paused
                      /\ \A d \in Commands : Working(t, d) => d # c /\ Working(term, d)
    OBVIOUS
  <2> QED BY <1>2, <1>6, GoodOver
<1> HIDE DEF t
<1>9. CASE term.work[c] = "requested"
  <2>1. \A d \in Commands : ~Working(t, d)
    <3>1. c \in Ran(t) /\ ~Working(t, c)
      BY <1>6, <1>7, <1>8, <1>9 DEF Ran
    <3> QED BY <3>1, NoneWorks
  <2>2. Good(t, Callers, arrived, Here) /\ t.ran # <<>> /\ ToAbort(t, r)
    BY <1>2, <1>8, <1>9, <2>1 DEF ToAbort
  <2>3. Good(t, s, arrived, Here) /\ Items(t, s) = Items(t, Callers)
    BY <1>6, <2>2, GoodAbort
  <2>4. resume(t, s)
    BY <1>1, <1>9
  <2> HIDE DEF s
  <2>5. /\ Good(term', stack', arrived, Here) /\ thrown' = FALSE
        /\ Items(term', stack') = Items(t, s)
    BY <2>1, <2>3, <2>4, GoodResume
  <2> QED BY <1>3, <1>8, <1>9, <2>3, <2>5, FineIf DEF Settles
<1>10. CASE term.work[c] = "promised"
  <2>1. Good(t, Callers, arrived, Here) /\ t.ran # <<>> /\ Items(t, Callers) = Items(term, Callers)
    BY <1>2, <1>8, <1>10
  <2>2. /\ Good(u, Callers, arrived, Here) /\ Items(u, Callers) = Items(t, Callers)
        /\ u.work = t.work /\ u.ran = t.ran /\ u.paused = t.paused
        /\ u.waiting = t.waiting
        /\ \A d \in Commands : Working(u, d) => d # c /\ Working(t, d)
    BY <1>6, <2>1, GoodSettled
  <2>3. term' = u /\ stack' = s /\ thrown' = FALSE
    BY <1>1, <1>10
  <2> HIDE DEF u
  <2>4. \A d \in Commands : ~Working(u, d)
    <3>1. c \in Ran(u) /\ ~Working(u, c)
      BY <1>6, <1>7, <1>8, <1>10, <2>2 DEF Ran
    <3> QED BY <3>1, NoneWorks
  <2>5. Good(u, Callers, arrived, Here) /\ u.ran # <<>> /\ ToAbort(u, r)
    BY <2>1, <2>2, <2>4 DEF ToAbort
  <2>6. Good(u, s, arrived, Here) /\ Items(u, s) = Items(u, Callers)
    BY <1>6, <2>5, GoodAbort
  <2>7. Good(term', stack', arrived, Here) /\ Items(term', stack') = Items(term, stack)
    BY <1>3, <2>1, <2>2, <2>3, <2>6
  <2> QED BY <2>3, <2>7, FineIf DEF Settles
<1>11. CASE term.work[c] \notin {"requested", "promised"}
  <2>1. ToAbort(term, r)
    BY <1>4, <1>5, <1>11 DEF ToAbort
  <2>2. Good(term, s, arrived, Here) /\ Items(term, s) = Items(term, Callers)
    BY <1>2, <1>6, <2>1, GoodAbort
  <2>3. stack' = s /\ term' = term /\ thrown' = FALSE
    BY <1>1, <1>11
  <2>4. Good(term', stack', arrived, Here) /\ Items(term', stack') = Items(term, stack)
    BY <1>3, <2>2, <2>3
  <2> QED BY <2>3, <2>4, FineIf DEF Settles
<1> QED BY <1>9, <1>10, <1>11

WithRequests(t, q) == [t EXCEPT !.requests = q]

(* The list of requests changes, while no command is the only one that works. *)
LEMMA GoodRequests ==
  ASSUME NEW P, NEW n, NEW t, NEW s, Good(t, s, n, P), NEW q \in Seq(Commands),
         \A c \in Commands : ~Working(t, c)
  PROVE  LET u == WithRequests(t, q)
         IN /\ Good(u, s, n, P) /\ Items(u, s) = Items(t, s)
            /\ \A c \in Commands : ~Working(u, c)
<1> DEFINE u == WithRequests(t, q)
<1>1. /\ u \in Terminals /\ u.requests = q /\ u.waiting = t.waiting
      /\ SameSwitches(u, t) /\ SameQueues(u, t) /\ SameWork(u, t)
  BY GoodFacts, RequestsSet DEF WithRequests
<1> HIDE DEF u
<1>2. Terminal(u)
  BY <1>1, GoodFacts DEF Terminal, SameQueues, SameSwitches
<1>3. Kind(u)
  BY <1>1, GoodFacts DEF Kind, SameWork, SameQueues, Ran, Done
<1>4. Evolves(u, t)
  BY <1>1 DEF Evolves, SameWork, Done
<1>5. CallsFit(u, s)
  BY <1>4, GoodFacts, EvolvesFits
<1>6. \A c \in Commands : ~Working(u, c)
  BY <1>1 DEF Working, SameWork, SameQueues, Ran
<1>7. Alone(u, s)
  BY <1>6 DEF Alone
<1>8. Good(u, s, n, P) /\ Items(u, s) = Items(t, s)
  BY <1>1, <1>2, <1>3, <1>5, <1>7, GoodTerm
<1> QED BY <1>6, <1>8 DEF u

LEMMA AbortEndsFine ==
  ASSUME State, AbortEnds
  PROVE  Fine
<1> DEFINE q == <<>>
           u == WithRequests(term, q)
<1>1. /\ stack # <<>> /\ Last(stack).at = "abort" /\ Of = <<>>
      /\ resume(u, Callers)
  BY DEF AbortEnds, At, WithRequests
<1>2. /\ Good(term, Callers, arrived, Here) /\ term.ran # <<>>
      /\ \A c \in Commands : Working(term, c) => Unresumed(term, Last(stack), c)
      /\ Bare(Last(stack)) => Items(term, stack) = Items(term, Callers)
  BY <1>1, Innermost
<1>3. Items(term, stack) = Items(term, Callers)
  BY <1>1, <1>2 DEF Bare
<1>4. \A c \in Commands : ~Working(term, c)
  BY <1>1, <1>2, EmptyIs DEF Unresumed, Of
<1>5. q \in Seq(Commands)
  BY EmptyIs
<1> HIDE DEF q
<1>6. /\ Good(u, Callers, arrived, Here) /\ Items(u, Callers) = Items(term, Callers)
      /\ \A c \in Commands : ~Working(u, c)
  BY <1>2, <1>4, <1>5, GoodRequests
<1> HIDE DEF u
<1>7. /\ Good(term', stack', arrived, Here) /\ thrown' = FALSE
      /\ Items(term', stack') = Items(u, Callers)
  BY <1>1, <1>6, GoodResume
<1> QED BY <1>3, <1>6, <1>7, FineIf DEF Settles

LEMMA AnsweredFine ==
  ASSUME State, NEW c \in Commands, Answered(c) \/ Fulfilled(c)
  PROVE  Fine
<1> DEFINE u == [term EXCEPT !.work[c] = "over"]
           at == "fulfilled"
           f == Call(at, <<c>>)
<1>1. /\ stack = <<>> /\ term.work[c] # "none"
      /\ resume(u, stack) \/ resume(u, Append(stack, f))
  <2>1. stack = <<>> /\ term.work[c] # "none"
    BY DEF Answered, Fulfilled, Idle
  <2>2. Append(stack, f) = <<f>>
    BY <2>1
  <2>3. CASE Answered(c)
    BY <2>1, <2>3 DEF Answered
  <2>4. CASE Fulfilled(c)
    <3>1. resume(u, <<f>>)
      BY <2>4 DEF Fulfilled
    <3> HIDE DEF u, f
    <3> QED BY <2>1, <2>2, <3>1
  <2> QED BY <2>3, <2>4
<1>2. Good(term, stack, arrived, Here)
  BY DEF State
<1>3. c \in Ran(term) /\ term.work \in [Commands -> Works] /\ Terminal(term)
  BY <1>1, <1>2, GoodFacts
<1>4. /\ Good(u, stack, arrived, Here) /\ Items(u, stack) = Items(term, stack)
      /\ u.work = [term.work EXCEPT ![c] = "over"] /\ u.promise = term.promise
      /\ u.ran = term.ran /\ u.paused = term.paused
      /\ \A d \in Commands : Working(u, d) => d # c /\ Working(term, d)
  BY <1>1, <1>2, GoodOver
<1> HIDE DEF u
<1>5. u.work[c] = "over" /\ at \in {"value", "fulfilled"}
  BY <1>3, <1>4
<1>6. \A d \in Commands : ~Working(u, d)
  <2>1. c \in Ran(u) /\ ~Working(u, c)
    BY <1>3, <1>4 DEF Ran
  <2> QED BY <2>1, NoneWorks
<1>7. u.ran # <<>> /\ Good(u, stack, arrived, Here)
  <2>1. term.ran # <<>>
    BY <1>3, RanIsNotEmpty
  <2> QED BY <1>4, <2>1
<1> HIDE DEF at
<1>8. /\ f \in Calls /\ Bare(f) /\ CallFits(u, f)
      /\ \A d \in Commands : f # Call("interpreter", <<d>>)
  BY <1>5, OverCall
<1> HIDE DEF f
<1>9. Good(u, Append(stack, f), arrived, Here) /\ Items(u, Append(stack, f)) = Items(u, stack)
  BY <1>6, <1>7, <1>8, GoodPush
<1>10. CASE resume(u, stack)
  <2>1. /\ Good(term', stack', arrived, Here) /\ thrown' = FALSE
        /\ Items(term', stack') = Items(u, stack)
    BY <1>6, <1>7, <1>10, GoodResume
  <2> QED BY <1>4, <2>1, FineIf DEF Settles
<1>11. CASE resume(u, Append(stack, f))
  <2>1. /\ Good(term', stack', arrived, Here) /\ thrown' = FALSE
        /\ Items(term', stack') = Items(u, Append(stack, f))
    BY <1>6, <1>9, <1>11, GoodResume
  <2> QED BY <1>4, <1>9, <2>1, FineIf DEF Settles
<1> QED BY <1>1, <1>10, <1>11

(* Reversing a sequence keeps its members. *)
LEMMA ReverseSet ==
  ASSUME NEW S, NEW s \in Seq(S)
  PROVE  Reverse(s) \in Seq(S) /\ ToSet(s) \subseteq ToSet(Reverse(s))
<1> DEFINE n == Len(s)
           r == Reverse(s)
<1>1. n \in Nat /\ \A i \in 1..n : s[i] \in S
  BY LenProperties, ElementOfSeq
<1>2. r = [i \in 1..n |-> s[(n - i) + 1]]
  BY DEF Reverse
<1>3. \A x \in ToSet(s) : \E i \in 1..n : x = s[i]
  BY SetOf
<1> HIDE DEF n, r
<1>4. \A i \in 1..n : (n - i) + 1 \in 1..n /\ (n - ((n - i) + 1)) + 1 = i
  BY <1>1
<1>5. r \in [1..n -> S]
  BY <1>1, <1>2, <1>4
<1>6. r \in Seq(S)
  BY <1>1, <1>5, SeqDef
<1>7. ASSUME NEW x \in ToSet(s) PROVE x \in ToSet(r)
  <2>1. PICK i \in 1..n : x = s[i]
    BY <1>3
  <2>2. (n - i) + 1 \in DOMAIN r /\ r[(n - i) + 1] = x
    BY <1>2, <1>4, <2>1
  <2> QED BY <2>2 DEF ToSet
<1> QED BY <1>6, <1>7 DEF r

LEMMA CtrlDFine ==
  ASSUME State, CtrlD
  PROVE  Fine
<1> DEFINE r == Reverse(term.requests)
           s == Append(stack, Call("abort", r))
<1>1. /\ stack = <<>> /\ term.paused /\ stack' = s /\ term' = term /\ thrown' = thrown
  BY DEF CtrlD, Idle
<1>2. Good(term, stack, arrived, Here) /\ term.ran # <<>>
  BY <1>1 DEF State, Good, Terminal
<1>3. term.requests \in Seq(Commands)
  BY <1>2, TerminalSeqs DEF Good
<1>4. r \in Seq(Commands) /\ ToSet(term.requests) \subseteq ToSet(r)
  BY <1>3, ReverseSet
<1>5. ToAbort(term, r)
  <2>1. Alone(term, stack)
    BY <1>2, GoodFacts
  <2> HIDE DEF r
  <2> SUFFICES ASSUME NEW c \in Commands, Working(term, c)
               PROVE  term.work[c] = "requested" /\ c \in ToSet(r)
    BY DEF ToAbort
  <2>2. Pauses(term, c)
    BY <2>1 DEF Alone
  <2> QED BY <1>1, <1>4, <2>2 DEF Pauses, Working
<1> HIDE DEF r
<1>6. Good(term, s, arrived, Here) /\ Items(term, s) = Items(term, stack)
  BY <1>2, <1>4, <1>5, GoodAbort
<1>7. Good(term', stack', arrived, Here) /\ Items(term', stack') = Items(term, stack)
  BY <1>1, <1>6
<1> QED BY <1>1, <1>7, FineIf DEF Settles, State

LEMMA FocusFine ==
  ASSUME State, \/ Click \/ ClickElsewhere \/ WindowBlur \/ WindowFocus
  PROVE  Fine
<1>1. term \in Terminals
  BY GoodFacts DEF State
<1>2. /\ term' \in {enable(term), disable(term)} /\ stack' = stack /\ thrown' = thrown
  BY DEF Click, ClickElsewhere, WindowBlur, WindowFocus
<1>3. Switched(enable(term), term) /\ Switched(disable(term), term)
  BY <1>1, SwitchIs
<1>4. CASE term' = enable(term)
  BY <1>2, <1>3, <1>4, SwitchFine
<1>5. CASE term' = disable(term)
  BY <1>2, <1>3, <1>5, SwitchFine
<1> QED BY <1>2, <1>4, <1>5

(* A command that may follow what has run has not run itself. *)
LEMMA NotYetRun ==
  ASSUME NEW T, NEW I, NEW r \in Seq(Commands), NEW c, Before(ToSet(r), {c}, MayPrecede(T, I))
  PROVE  c \notin ToSet(r)
BY DEF Before, MayPrecede

LEMMA LoopNextFine ==
  ASSUME State, LoopNext
  PROVE  Fine
<1> DEFINE c == FirstLeft(stack)
           s == Taken(stack)
<1>1. InLoop(stack) /\ exec(c, s)
  <2>1. InLoop(stack)
    BY DEF LoopNext, At, Of, InLoop
  <2>2. c = Head(Of) /\ s = Append(Callers, Call("loop", Tail(Of)))
    BY DEF FirstLeft, Taken, Of, Callers
  <2>3. exec(Head(Of), Append(Callers, Call("loop", Tail(Of))))
    BY DEF LoopNext
  <2> QED BY <2>1, <2>2, <2>3
<1>2. /\ Good(term, s, arrived, Here) /\ Items(term, stack) = Plus(c, Items(term, s))
      /\ c \in Commands /\ c \in Upto(arrived)
      /\ MayDelay(c, term.ran, term.delayed, s, Here)
  BY <1>1, GoodTakes DEF State
<1> HIDE DEF c, s
<1>3. c \notin Ran(term)
  <2>1. term.ran \in Seq(Commands) /\ Before(ToSet(term.ran), {c}, Here)
    BY <1>2, TerminalSeqs DEF Good, MayDelay
  <2> QED BY <2>1, NotYetRun DEF Here, Ran
<1>4. Good(term, s, arrived, Here) /\ MayDelay(c, term.ran, term.delayed, s, Here)
  BY <1>2
<1>5. c \in Commands /\ c \in Upto(arrived)
  BY <1>2
<1>6. /\ Good(term', stack', arrived, Here) /\ Settles
      /\ Items(term', stack') = Items(term, s) \cup {c}
  BY <1>1, <1>3, <1>4, <1>5, GoodExec
<1>7. Items(term, stack) \subseteq Items(term', stack')
  BY <1>2, <1>6 DEF Plus
<1> QED BY <1>6, <1>7, FineIf

-----------------------------------------------------------------------------
(* A command comes.                                                        *)

There == MayPrecede(typed', inside')

LeftOf(s) == UNION {ToSet(s[i].of) : i \in {j \in DOMAIN s : s[j].at = "loop"}}

(* The commands left to the calls are what the model calls Left. *)
LEMMA LeftIs ==
  ASSUME NEW s \in Seq(Calls)
  PROVE  LeftOf(s) = LeftToAll(s)
<1>1. DOMAIN s = 1..Len(s)
  BY SetOf
<1>2. ASSUME NEW x \in LeftOf(s) PROVE x \in LeftToAll(s)
  BY <1>1, <1>2 DEF LeftOf, LeftToAll, LeftTo
<1>3. ASSUME NEW x \in LeftToAll(s) PROVE x \in LeftOf(s)
  <2>1. PICK k \in 1..Len(s) : x \in ToSet(LeftTo(s[k]))
    BY <1>3 DEF LeftToAll
  <2>2. s[k].at = "loop" /\ x \in ToSet(s[k].of)
    <3>1. CASE s[k].at = "loop"
      BY <2>1, <3>1 DEF LeftTo
    <3>2. CASE s[k].at # "loop"
      BY <2>1, <3>2, EmptyIs DEF LeftTo
    <3> QED BY <3>1, <3>2
  <2> QED BY <1>1, <2>1, <2>2 DEF LeftOf
<1> QED BY <1>2, <1>3

LEMMA GoodGrows ==
  ASSUME NEW P, NEW R, P \subseteq R, NEW n \in Nat, NEW m \in Nat, n <= m,
         NEW t, NEW s, Good(t, s, n, P)
  PROVE  Good(t, s, m, R)
<1>1. Queue(t.ran, t.delayed, s, m, R)
  BY QueueGrows, TerminalSeqs DEF Good
<1> QED BY <1>1 DEF Good

(* A command that comes is not in the queue yet. *)
LEMMA Comes ==
  ASSUME State, TypeInv, NEW c \in Commands, Arrives(c), Here \subseteq There
  PROVE  /\ Good(term, stack, arrived', There) /\ c = arrived' /\ c \in Upto(arrived')
         /\ c \notin Ran(term)
         /\ \A x \in ToSet(term.ran) \cup ToSet(term.delayed) \cup LeftToAll(stack) :
              x \in Commands /\ x < c
<1>1. c = arrived + 1 /\ arrived' = c /\ arrived \in Nat /\ c \in Nat
  BY CommandsAssumption DEF Arrives, TypeInv, Commands
<1>2. arrived <= arrived' /\ arrived' \in Nat /\ c \in 1..arrived'
  BY <1>1
<1>3. Good(term, stack, arrived, Here)
  BY DEF State
<1> DEFINE n == arrived
           m == arrived'
<1>4. n \in Nat /\ m \in Nat /\ n <= m
  BY <1>1, <1>2
<1>5. Good(term, stack, m, There)
  <2> HIDE DEF n, m
  <2>1. Good(term, stack, n, Here)
    BY <1>3 DEF n
  <2> QED BY <1>4, <2>1, GoodGrows
<1>6. ToSet(term.ran) \cup ToSet(term.delayed) \cup LeftToAll(stack) \subseteq 1..arrived
  BY <1>3 DEF Good, Queue
<1>7. \A x \in 1..arrived : x \in Commands /\ x < c
  BY <1>1, CommandsAssumption DEF Commands
<1>8. c \notin Ran(term)
  BY <1>1, <1>6 DEF Ran
<1> QED BY <1>1, <1>2, <1>5, <1>6, <1>7, <1>8 DEF Upto

LEMMA ExecComes ==
  ASSUME State, TypeInv, NEW c \in Commands, Exec(c)
  PROVE  /\ Good(term', stack', arrived', There) /\ Settles
         /\ Items(term', stack') = Items(term, stack) \cup {c}
<1>1. /\ Arrives(c) /\ exec(c, stack) /\ typed' = typed
      /\ inside' = IF Left # {} THEN inside \cup {c} ELSE inside
  BY DEF Exec
<1>2. Here \subseteq There
  BY <1>1 DEF Here, There, MayPrecede
<1>3. /\ Good(term, stack, arrived', There) /\ c = arrived' /\ c \in Upto(arrived')
      /\ c \notin Ran(term)
      /\ \A x \in ToSet(term.ran) \cup ToSet(term.delayed) \cup LeftToAll(stack) :
           x \in Commands /\ x < c
  BY <1>1, <1>2, Comes
<1>4. MayDelay(c, term.ran, term.delayed, stack, There)
  <2>1. c \in Nat
    BY CommandsAssumption DEF Commands
  <2>2. \A x \in Commands : x < c => <<x, c>> \in There
    BY <2>1, CommandsAssumption DEF There, MayPrecede, Commands
  <2>3. LeftToAll(stack) # {} => c \in inside'
    BY <1>1, LeftIs DEF TypeInv, Left, LeftOf
  <2>4. c \in inside' => \A x \in Commands : x < c => <<c, x>> \in There
    BY <2>1, CommandsAssumption DEF There, MayPrecede, Commands
  <2>5. Before({c}, LeftToAll(stack), There)
    BY <1>3, <2>3, <2>4 DEF Before
  <2> QED BY <1>3, <2>2, <2>5 DEF MayDelay, Before
<1>5. Good(term, stack, arrived', There) /\ c \in Upto(arrived') /\ c \notin Ran(term)
  BY <1>3
<1> QED BY <1>1, <1>4, <1>5, GoodExec

LEMMA EnterComes ==
  ASSUME State, TypeInv, NEW c \in Commands, Enter(c)
  PROVE  /\ Good(term', stack', arrived', There) /\ Settles
         /\ Items(term', stack') = Items(term, stack) \cup {c}
<1>1. /\ stack = <<>> /\ Arrives(c) /\ typed' = typed \cup {c} /\ inside' = inside
      /\ commands(c, stack) \/ (Uninterpreted(c) /\ stack' = stack /\ thrown' = thrown)
  <2>1. /\ stack = <<>> /\ Arrives(c) /\ typed' = typed \cup {c} /\ inside' = inside
        /\ commands(c, <<>>) \/ (Uninterpreted(c) /\ stack' = stack /\ thrown' = thrown)
    BY DEF Enter, Idle
  <2> QED BY <2>1
<1>2. Here \subseteq There
  BY <1>1 DEF Here, There, MayPrecede
<1>3. /\ Good(term, stack, arrived', There) /\ c = arrived' /\ c \in Upto(arrived')
      /\ c \notin Ran(term)
      /\ \A x \in ToSet(term.ran) \cup ToSet(term.delayed) \cup LeftToAll(stack) :
           x \in Commands /\ x < c
  BY <1>1, <1>2, Comes
<1>4. MayRun(c, term.ran, term.delayed, stack, There)
  <2>1. c \in Nat
    BY CommandsAssumption DEF Commands
  <2>2. \A x \in Commands : x < c => <<x, c>> \in There /\ <<c, x>> \in There
    BY <1>1, <2>1, CommandsAssumption DEF There, MayPrecede, Commands
  <2> QED BY <1>3, <2>2 DEF MayRun, Before
<1>5. Good(term, stack, arrived', There) /\ c \in Upto(arrived') /\ c \notin Ran(term)
  BY <1>3
<1>6. CASE commands(c, stack)
  BY <1>4, <1>5, <1>6, GoodCommands
<1>7. CASE Uninterpreted(c) /\ stack' = stack /\ thrown' = thrown
  <2>1. Good(term', stack, arrived', There) /\ Items(term', stack) = Items(term, stack) \cup {c}
    BY <1>4, <1>5, <1>7, GoodUninterpreted
  <2> QED BY <1>7, <2>1 DEF Settles, State
<1> QED BY <1>1, <1>6, <1>7

-----------------------------------------------------------------------------
(* The invariant.                                                          *)

LEMMA StateIs == IInv <=> /\ State /\ arrived \in 0..MaxCommands
                          /\ typed \subseteq Commands /\ inside \subseteq Commands
                          /\ old_enabled \in BOOLEAN /\ switched \in BOOLEAN
BY DEF IInv, State, Good, TypeInv, QueueInv, WorkInv, Here

LEMMA InitIInv == Init => IInv
<1> SUFFICES ASSUME Init PROVE IInv
  OBVIOUS
<1>1. /\ term.paused = FALSE /\ term.frozen = FALSE /\ term.delayed = <<>> /\ term.waiting = <<>>
      /\ term.ran = <<>>
      /\ \A c \in Commands : term.work[c] = "none" /\ term.promise[c] = "none"
  BY DEF Init
<1>2. term \in Terminals
  <2>1. <<>> \in Seq(Commands)
    BY EmptyIs
  <2> QED BY <2>1 DEF Init, Terminals
<1>3. Terminal(term)
  BY <1>1, <1>2 DEF Terminal
<1>4. stack = <<>> /\ stack \in Seq(Calls) /\ Len(stack) = 0 /\ thrown = FALSE
  BY DEF Init
<1>5. TypeInv
  <2>1. arrived = 0 /\ typed = {} /\ inside = {} /\ old_enabled = TRUE /\ switched = FALSE
    BY DEF Init
  <2>2. arrived \in 0..MaxCommands
    BY <2>1, CommandsAssumption
  <2>3. typed \subseteq Commands /\ inside \subseteq Commands
    BY <2>1
  <2>4. thrown \in BOOLEAN /\ old_enabled \in BOOLEAN /\ switched \in BOOLEAN /\ ~thrown
    BY <1>4, <2>1
  <2> QED BY <1>3, <1>4, <2>2, <2>3, <2>4 DEF TypeInv
<1>6. QueueInv
  <2>1. Len(<<>>) = 0 /\ ToSet(<<>>) = {}
    BY EmptyIs
  <2>2. Sorted(<<>>, MayPrecede(typed, inside))
    BY <2>1 DEF Sorted
  <2>3. LeftToAll(stack) = {} /\ StackSorted(stack, MayPrecede(typed, inside))
    BY <1>4 DEF LeftToAll, StackSorted
  <2> QED BY <1>1, <2>1, <2>2, <2>3 DEF QueueInv, Queue, Before
<1>7. Kind(term)
  BY <1>1, EmptyIs DEF Kind
<1>8. CallsFit(term, stack) /\ CalledOnce(stack)
  BY <1>4 DEF CallsFit, CalledOnce
<1>9. Alone(term, stack)
  BY <1>1 DEF Alone, Working
<1> QED BY <1>5, <1>6, <1>7, <1>8, <1>9 DEF IInv, WorkInv, WorkOK

ComesIn == arrived' = arrived + 1 /\ arrived' \in Items(term', stack')

(* What a step does: none of the commands is lost, and one may come. *)
LEMMA StepIs ==
  ASSUME IInv, Next
  PROVE  IInv' /\ Keeps /\ (arrived' = arrived \/ ComesIn)
<1>1. State /\ TypeInv
  BY StateIs DEF IInv
<1>2. ASSUME Fine, Unrelated
      PROVE  IInv' /\ Keeps /\ arrived' = arrived
  BY <1>1, <1>2 DEF Fine, Settles, Unrelated, IInv, Good, TypeInv, QueueInv, WorkInv, Here
<1>3. ASSUME NEW c \in Commands, Arrives(c), c = arrived + 1,
             Good(term', stack', arrived', There), Settles,
             Items(term', stack') = Items(term, stack) \cup {c},
             typed' \subseteq Commands, inside' \subseteq Commands
      PROVE  IInv' /\ Keeps /\ ComesIn
  <2>1. arrived' \in 0..MaxCommands /\ arrived' = c
    BY <1>3, CommandsAssumption DEF Arrives, Commands
  <2>2. Keeps
    BY <1>3 DEF Keeps
  <2> QED BY <1>1, <1>3, <2>1, <2>2
          DEF Settles, Arrives, ComesIn, IInv, Good, TypeInv, QueueInv, WorkInv, There
<1>4. CASE Runs
  <2>1. Unrelated
    BY <1>4 DEF Runs, LoopNext, LoopEnds, TriggerNext, TriggerEnds, Rethrows, Escapes, AbortNext,
                AbortCatches, AbortEnds, CallbackReturns, CallbackThrows, Catches, Requests,
                Returns, Promises, ReturnsValue, Throws, Resolves, EscapesFrom
  <2>2. Fine
    <3>1. CASE LoopNext \/ LoopEnds \/ TriggerNext \/ TriggerEnds \/ Rethrows \/ Escapes
      BY <1>1, <3>1, LoopNextFine, LoopEndsFine, TriggerNextFine, LeaveFine
    <3>2. CASE AbortNext \/ AbortCatches \/ AbortEnds \/ CallbackReturns \/ CallbackThrows \/ Catches
      BY <1>1, <3>2, AbortNextFine, CatchFine, AbortEndsFine, CallbackReturnsFine, LeaveFine
    <3>3. ASSUME NEW c \in Commands,
                 \/ Requests(c) \/ Returns(c) \/ Promises(c) \/ ReturnsValue(c) \/ Throws(c)
                 \/ Resolves(c) \/ EscapesFrom(c)
          PROVE  Fine
      BY <1>1, <3>3, RequestsFine, ReturnsFine, PromisesFine, ReturnsValueFine, ThrowsFine,
         ResolvesFine
    <3> QED BY <1>4, <3>1, <3>2, <3>3 DEF Runs
  <2> QED BY <1>2, <2>1, <2>2
<1>5. ASSUME NEW c \in Commands, Exec(c)
      PROVE  IInv' /\ Keeps /\ ComesIn
  <2>1. /\ Good(term', stack', arrived', There) /\ Settles
        /\ Items(term', stack') = Items(term, stack) \cup {c}
    BY <1>1, <1>5, ExecComes
  <2>2. /\ Arrives(c) /\ c = arrived + 1 /\ typed' \subseteq Commands /\ inside' \subseteq Commands
    BY <1>1, <1>5 DEF Exec, Arrives, TypeInv
  <2> QED BY <1>3, <2>1, <2>2
<1>6. ASSUME NEW c \in Commands, Enter(c)
      PROVE  IInv' /\ Keeps /\ ComesIn
  <2>1. /\ Good(term', stack', arrived', There) /\ Settles
        /\ Items(term', stack') = Items(term, stack) \cup {c}
    BY <1>1, <1>6, EnterComes
  <2>2. /\ Arrives(c) /\ c = arrived + 1 /\ typed' \subseteq Commands /\ inside' \subseteq Commands
    BY <1>1, <1>6 DEF Enter, Arrives, TypeInv
  <2> QED BY <1>3, <2>1, <2>2
<1>7. ASSUME NEW c \in Commands, Fulfilled(c) \/ Rejected(c) \/ Answered(c)
      PROVE  IInv' /\ Keeps /\ arrived' = arrived
  <2>1. Fine
    BY <1>1, <1>7, AnsweredFine, RejectedFine
  <2> QED BY <1>2, <1>7, <2>1 DEF Fulfilled, Rejected, Answered
<1>8. ASSUME CtrlD
      PROVE  IInv' /\ Keeps /\ arrived' = arrived
  <2>1. Fine /\ Unrelated
    BY <1>1, <1>8, CtrlDFine DEF CtrlD
  <2> QED BY <1>2, <2>1
<1>9. ASSUME \/ Click \/ ClickElsewhere \/ WindowBlur \/ WindowFocus
             \/ \E on \in BOOLEAN : Freeze(on)
      PROVE  IInv' /\ Keeps /\ arrived' = arrived
  <2>1. Fine
    BY <1>1, <1>9, FocusFine, FreezeFine
  <2>2. Switches
    BY <1>9 DEF Click, ClickElsewhere, WindowBlur, WindowFocus, Freeze
  <2>3. old_enabled' \in BOOLEAN
    BY <1>1, <1>9 DEF Click, ClickElsewhere, WindowBlur, WindowFocus, Freeze, TypeInv, Terminal,
                      Terminals
  <2> QED BY <1>1, <2>1, <2>2, <2>3
          DEF Switches, Fine, Settles, IInv, Good, TypeInv, QueueInv, WorkInv, Here
<1> QED BY <1>4, <1>5, <1>6, <1>7, <1>8, <1>9 DEF Next

LEMMA NextIInv == IInv /\ [Next]_vars => IInv'
<1>1. CASE IInv /\ Next
  BY <1>1, StepIs
<1>2. CASE IInv /\ vars' = vars
  BY <1>2 DEF vars, IInv, TypeInv, QueueInv, WorkInv
<1> QED BY <1>1, <1>2

LEMMA Invariant == Spec => []IInv
BY InitIInv, NextIInv, PTL DEF Spec

-----------------------------------------------------------------------------
(* The properties.                                                         *)

(* Every variable keeps its type, commands are only delayed while the      *)
(* terminal is paused, and a frozen terminal has no keyboard, for any      *)
(* number of commands, losses of the focus and calls on the stack          *)
(* (terminal.js:3830-3876, 4024-4055).                                     *)
THEOREM TypeCorrect == Spec => []TypeOK
<1>1. IInv => TypeOK
  BY DEF IInv, TypeInv, TypeOK, Terminal, Terminals, Calls
<1> QED BY <1>1, Invariant, PTL

(* Commands that the program executes run in the order of the calls of exec *)
(* and at most once, but for those that it executes while a call of resume  *)
(* has yet to run delayed ones; they overtake these                         *)
(* (terminal.js:3830-3876, 4038-4055).                                      *)
THEOREM RunInOrder == Spec => []RunsInOrder
<1>1. IInv => RunsInOrder
  <2> SUFFICES ASSUME IInv, NEW i \in DOMAIN term.ran, NEW j \in DOMAIN term.ran, i < j
               PROVE  /\ term.ran[i] # term.ran[j]
                      /\ (term.ran[i] \notin typed \cup inside /\ term.ran[j] \notin typed)
                           => term.ran[i] < term.ran[j]
    BY DEF RunsInOrder
  <2>1. term.ran \in Seq(Commands) /\ Sorted(term.ran, MayPrecede(typed, inside))
    BY TerminalSeqs DEF IInv, TypeInv, QueueInv, Queue
  <2>2. DOMAIN term.ran = 1..Len(term.ran)
    BY <2>1, SetOf
  <2>3. <<term.ran[i], term.ran[j]>> \in MayPrecede(typed, inside)
    BY <2>1, <2>2 DEF Sorted
  <2> QED BY <2>3 DEF MayPrecede
<1> QED BY <1>1, Invariant, PTL

(* A command that has come is delayed, left to a call of resume, or has run, *)
(* until an exception of another command ends the loop that was to run it    *)
(* (terminal.js:4043-4047).                                                  *)
THEOREM NoneForgotten == Spec => NothingForgotten
<1> DEFINE A == \A c \in 1..arrived' :
                  \/ c \in Kept'
                  \/ c <= arrived /\ c \notin Kept
                  \/ thrown /\ Last(stack).at = "loop" /\ c \in ToSet(Of)
<1>1. IInv /\ [Next]_vars => [A]_vars
  <2> SUFFICES ASSUME IInv, Next PROVE A
    OBVIOUS
  <2>1. IInv' /\ Keeps /\ (arrived' = arrived \/ ComesIn)
    BY StepIs
  <2>2. Kept = Items(term, stack)
    <3>1. LeftOf(stack) = LeftToAll(stack)
      BY LeftIs DEF IInv, TypeInv
    <3> QED BY <3>1 DEF Kept, Left, LeftOf, Items
  <2>3. Kept' = Items(term', stack')
    <3>1. LeftOf(stack') = LeftToAll(stack')
      BY <2>1, LeftIs DEF IInv, TypeInv
    <3> QED BY <3>1 DEF Kept, Left, LeftOf, Items
  <2>4. arrived \in Nat
    BY DEF IInv, TypeInv
  <2> SUFFICES ASSUME NEW c \in 1..arrived', c \notin Kept', c <= arrived => c \in Kept
               PROVE  thrown /\ Last(stack).at = "loop" /\ c \in ToSet(Of)
    OBVIOUS
  <2>5. CASE c <= arrived
    BY <2>1, <2>2, <2>3, <2>5 DEF Keeps
  <2>6. CASE ~(c <= arrived)
    BY <2>1, <2>3, <2>4, <2>6 DEF ComesIn
  <2> QED BY <2>5, <2>6
<1> QED BY <1>1, Invariant, PTL DEF Spec, NothingForgotten

(* The promise of a command is resolved when the command is done, or when the *)
(* terminal is resumed and the command is not the only one that has run      *)
(* (terminal.js:3366-3388).                                                  *)
THEOREM PromisesAreKept == Spec => []PromiseIsKept
<1>1. IInv => PromiseIsKept
  BY DEF IInv, WorkInv, WorkOK, Kind, PromiseIsKept, Ran
<1> QED BY <1>1, Invariant, PTL
================================================================================
