------------------------- MODULE TerminalScreen_proofs -------------------------
(***************************************************************************)
(* Proofs about the command line and the output of the terminal.  Of the   *)
(* command line, for commands of any length: its types, above all that the *)
(* cursor stays within the command, the prompt that comes back after a     *)
(* search, and what a kill key takes.  Of the output, for texts, windows   *)
(* and limits of any size: that the screen follows the lines.  Of both: that*)
(* the cursor is drawn at its position.                                    *)
(***************************************************************************)
EXTENDS TerminalScreen, SequenceTheorems, WellFoundedInduction, TLAPS

-----------------------------------------------------------------------------
(* Numbers.                                                                *)

(* A nonempty set of natural numbers has a least member. *)
LEMMA LeastNatural ==
  ASSUME NEW S \in SUBSET Nat, S # {}
  PROVE  \E m \in S : \A n \in S : m <= n
<1> DEFINE R == {p \in Nat \X Nat : p[1] < p[2]}
<1>1. IsWellFoundedOn(R, Nat)
  BY NatLessThanWellFounded DEF OpToRel
<1>2. \E m \in S : \A n \in S : <<n, m>> \notin R
  <2> HIDE DEF R
  <2> QED BY <1>1, WFMin
<1>3. \A m, n \in S : <<n, m>> \notin R => m <= n
  OBVIOUS
<1> QED BY <1>2, <1>3

LEMMA LeastIs ==
  ASSUME NEW S \in SUBSET Nat, S # {}
  PROVE  Least(S) \in S /\ \A j \in S : Least(S) <= j
BY LeastNatural DEF Least

LEMMA GreatestIs ==
  ASSUME NEW S \in SUBSET Nat, S # {}, NEW n \in Nat, \A i \in S : i <= n
  PROVE  Greatest(S) \in S /\ \A j \in S : Greatest(S) >= j
<1> DEFINE D == {n - i : i \in S}
<1>1. D \in SUBSET Nat /\ D # {}
  <2>1. \A i \in S : n - i \in Nat
    OBVIOUS
  <2> QED BY <2>1
<1>2. PICK m \in D : \A d \in D : m <= d
  <2> HIDE DEF D
  <2> QED BY <1>1, LeastNatural
<1>3. PICK i \in S : m = n - i
  BY <1>2
<1>4. ASSUME NEW j \in S PROVE i >= j
  <2>1. m <= n - j
    BY <1>2
  <2>2. i \in Nat /\ j \in Nat
    OBVIOUS
  <2> QED BY <1>3, <2>1, <2>2
<1> QED BY <1>4 DEF Greatest

(* Of two numbers. *)
LEMMA OfTwo ==
  ASSUME NEW a \in Int, NEW b \in Int
  PROVE  /\ Greatest({a, b}) = IF a >= b THEN a ELSE b
         /\ Least({a, b}) = IF a <= b THEN a ELSE b
<1>1. \E i \in {a, b} : \A j \in {a, b} : i >= j
  OBVIOUS
<1>2. \E i \in {a, b} : \A j \in {a, b} : i <= j
  OBVIOUS
<1>3. Greatest({a, b}) \in {a, b} /\ \A j \in {a, b} : Greatest({a, b}) >= j
  BY <1>1 DEF Greatest
<1>4. Least({a, b}) \in {a, b} /\ \A j \in {a, b} : Least({a, b}) <= j
  BY <1>2 DEF Least
<1> QED BY <1>3, <1>4

-----------------------------------------------------------------------------
(* Strings.                                                                *)

(* The two parts of a string at a position. *)
LEMMA Parts ==
  ASSUME NEW S, NEW s \in Seq(S), NEW n \in 0..Len(s)
  PROVE  /\ Left(s, n) \in Seq(S) /\ Len(Left(s, n)) = n
         /\ \A i \in 1..n : Left(s, n)[i] = s[i]
         /\ From(s, n) \in Seq(S) /\ Len(From(s, n)) = Len(s) - n
         /\ \A i \in 1..(Len(s) - n) : From(s, n)[i] = s[n + i]
<1>1. Len(s) \in Nat /\ n \in Int /\ n + 1 \in Int /\ \A i \in 1..Len(s) : s[i] \in S
  BY LenProperties, ElementOfSeq
<1>2. /\ \A i \in 1..n : s[i] \in S
      /\ \A i \in (n + 1)..Len(s) : s[i] \in S
  BY <1>1
<1>3. /\ Left(s, n) \in Seq(S)
      /\ Len(Left(s, n)) = IF 1 <= n THEN n - 1 + 1 ELSE 0
      /\ \A i \in 1..(n - 1 + 1) : Left(s, n)[i] = s[1 + i - 1]
  BY <1>1, <1>2, SubSeqProperties DEF Left
<1>4. /\ From(s, n) \in Seq(S)
      /\ Len(From(s, n)) = IF n + 1 <= Len(s) THEN Len(s) - (n + 1) + 1 ELSE 0
      /\ \A i \in 1..(Len(s) - (n + 1) + 1) : From(s, n)[i] = s[n + 1 + i - 1]
  BY <1>1, <1>2, SubSeqProperties DEF From
<1>5. Len(Left(s, n)) = n /\ Len(From(s, n)) = Len(s) - n
  BY <1>1, <1>3, <1>4
<1>6. \A i \in 1..n : Left(s, n)[i] = s[i]
  BY <1>1, <1>3
<1>7. \A i \in 1..(Len(s) - n) : From(s, n)[i] = s[n + i]
  BY <1>1, <1>4
<1> QED BY <1>3, <1>4, <1>5, <1>6, <1>7

(* Two strings are equal if they have the same characters. *)
LEMMA SameString ==
  ASSUME NEW S, NEW s \in Seq(S), NEW t \in Seq(S), Len(s) = Len(t),
         \A i \in 1..Len(s) : s[i] = t[i]
  PROVE  s = t
BY SeqEqual

(* A string is put together from two parts of others. *)
LEMMA Joined ==
  ASSUME NEW S, NEW s \in Seq(S), NEW a \in 0..Len(s), NEW b \in 0..Len(s)
  PROVE  LET u == Left(s, a) \o From(s, b)
         IN u \in Seq(S) /\ Len(u) = a + (Len(s) - b) /\ Left(u, a) = Left(s, a) /\ From(u, a) = From(s, b)
<1> DEFINE l == Left(s, a)
           r == From(s, b)
           u == l \o r
<1>1. /\ l \in Seq(S) /\ Len(l) = a
      /\ r \in Seq(S) /\ Len(r) = Len(s) - b
      /\ Len(s) \in Nat /\ a \in Nat /\ b \in Nat
  BY Parts, LenProperties
<1> HIDE DEF l, r
<1>2. /\ u \in Seq(S) /\ Len(u) = a + (Len(s) - b)
      /\ \A i \in 1..(a + (Len(s) - b)) : u[i] = IF i <= a THEN l[i] ELSE r[i - a]
  <2>1. /\ l \o r \in Seq(S) /\ Len(l \o r) = Len(l) + Len(r)
        /\ \A i \in 1..(Len(l) + Len(r)) : (l \o r)[i] = IF i <= Len(l) THEN l[i] ELSE r[i - Len(l)]
    BY <1>1, ConcatProperties
  <2> QED BY <1>1, <2>1
<1> HIDE DEF u
<1>3. a \in 0..Len(u)
  BY <1>1, <1>2
<1>4. /\ Left(u, a) \in Seq(S) /\ Len(Left(u, a)) = a
      /\ \A i \in 1..a : Left(u, a)[i] = u[i]
      /\ From(u, a) \in Seq(S) /\ Len(From(u, a)) = Len(u) - a
      /\ \A i \in 1..(Len(u) - a) : From(u, a)[i] = u[a + i]
  BY <1>2, <1>3, Parts
<1>5. Left(u, a) = l
  <2>1. \A i \in 1..a : Left(u, a)[i] = l[i]
    <3>1. \A i \in 1..a : i \in 1..(a + (Len(s) - b)) /\ i <= a
      BY <1>1
    <3> QED BY <1>2, <1>4, <3>1
  <2> QED BY <1>1, <1>4, <2>1, SameString
<1>6. From(u, a) = r
  <2>1. Len(u) - a = Len(s) - b
    BY <1>1, <1>2
  <2>2. ASSUME NEW i \in 1..(Len(s) - b) PROVE From(u, a)[i] = r[i]
    <3>1. a + i \in 1..(a + (Len(s) - b)) /\ ~(a + i <= a) /\ a + i - a = i
      BY <1>1
    <3> QED BY <1>2, <1>4, <2>1, <3>1
  <2> QED BY <1>1, <1>4, <2>1, <2>2, SameString
<1> QED BY <1>2, <1>5, <1>6 DEF l, r, u

(* What is taken out of a string between two positions fits in again. *)
LEMMA PutBack ==
  ASSUME NEW S, NEW s \in Seq(S), NEW a \in 0..Len(s), NEW b \in a..Len(s)
  PROVE  LET t == SubSeq(s, a + 1, b)
         IN t \in Seq(S) /\ s = Left(s, a) \o t \o From(s, b)
<1> DEFINE l == Left(s, a)
           t == SubSeq(s, a + 1, b)
           r == From(s, b)
<1>1. /\ Len(s) \in Nat /\ a \in Nat /\ b \in Nat /\ b \in 0..Len(s) /\ a <= b
      /\ \A i \in 1..Len(s) : s[i] \in S
  BY LenProperties, ElementOfSeq
<1>2. /\ l \in Seq(S) /\ Len(l) = a /\ \A i \in 1..a : l[i] = s[i]
      /\ r \in Seq(S) /\ Len(r) = Len(s) - b /\ \A i \in 1..(Len(s) - b) : r[i] = s[b + i]
  BY <1>1, Parts
<1>3. /\ t \in Seq(S) /\ Len(t) = b - a
      /\ \A i \in 1..(b - a) : t[i] = s[a + i]
  <2>1. a + 1 \in Int /\ b \in Int /\ \A i \in (a + 1)..b : s[i] \in S
    BY <1>1
  <2>2. /\ t \in Seq(S)
        /\ Len(t) = IF a + 1 <= b THEN b - (a + 1) + 1 ELSE 0
        /\ \A i \in 1..(b - (a + 1) + 1) : t[i] = s[a + 1 + i - 1]
    BY <2>1, SubSeqProperties
  <2> QED BY <1>1, <2>2
<1> HIDE DEF l, t, r
<1> DEFINE lt == l \o t
           ltr == lt \o r
<1>4. /\ lt \in Seq(S) /\ Len(lt) = a + (b - a)
      /\ \A i \in 1..(a + (b - a)) : lt[i] = IF i <= a THEN l[i] ELSE t[i - a]
  <2>1. /\ l \o t \in Seq(S) /\ Len(l \o t) = Len(l) + Len(t)
        /\ \A i \in 1..(Len(l) + Len(t)) : (l \o t)[i] = IF i <= Len(l) THEN l[i] ELSE t[i - Len(l)]
    <3>1. l \in Seq(S) /\ t \in Seq(S)
      BY <1>2, <1>3
    <3> QED BY <3>1, ConcatProperties, Zenon
  <2> QED BY <1>2, <1>3, <2>1
<1>5. Len(lt) = b /\ \A i \in 1..b : lt[i] = s[i]
  <2>1. Len(lt) = b /\ a + (b - a) = b
    BY <1>1, <1>4
  <2>2. ASSUME NEW i \in 1..b PROVE lt[i] = s[i]
    <3>1. CASE i <= a
      <4>1. i \in 1..a
        BY <1>1, <3>1
      <4> QED BY <1>2, <1>4, <2>1, <3>1, <4>1
    <3>2. CASE ~(i <= a)
      <4>1. i - a \in 1..(b - a) /\ a + (i - a) = i
        BY <1>1, <3>2
      <4> QED BY <1>3, <1>4, <2>1, <3>2, <4>1
    <3> QED BY <3>1, <3>2
  <2> QED BY <2>1, <2>2
<1> HIDE DEF lt
<1>6. /\ ltr \in Seq(S) /\ Len(ltr) = b + (Len(s) - b)
      /\ \A i \in 1..(b + (Len(s) - b)) : ltr[i] = IF i <= b THEN lt[i] ELSE r[i - b]
  <2>1. lt \in Seq(S) /\ r \in Seq(S)
    BY <1>2, <1>4
  <2>2. /\ lt \o r \in Seq(S) /\ Len(lt \o r) = Len(lt) + Len(r)
        /\ \A i \in 1..(Len(lt) + Len(r)) :
             (lt \o r)[i] = IF i <= Len(lt) THEN lt[i] ELSE r[i - Len(lt)]
    BY <2>1, ConcatProperties, Zenon
  <2> QED BY <1>2, <1>5, <2>2
<1>7. Len(ltr) = Len(s) /\ \A i \in 1..Len(s) : ltr[i] = s[i]
  <2>1. Len(ltr) = Len(s) /\ b + (Len(s) - b) = Len(s)
    BY <1>1, <1>6
  <2>2. ASSUME NEW i \in 1..Len(s) PROVE ltr[i] = s[i]
    <3>1. CASE i <= b
      <4>1. i \in 1..b
        BY <1>1, <3>1
      <4> QED BY <1>5, <1>6, <2>1, <3>1, <4>1
    <3>2. CASE ~(i <= b)
      <4>1. i - b \in 1..(Len(s) - b) /\ b + (i - b) = i
        BY <1>1, <3>2
      <4> QED BY <1>2, <1>6, <2>1, <3>2, <4>1
    <3> QED BY <3>1, <3>2
  <2> QED BY <2>1, <2>2
<1> HIDE DEF ltr
<1>8. s = ltr
  BY <1>6, <1>7, SameString
<1> QED BY <1>3, <1>8 DEF l, t, r, lt, ltr

(* A text is inserted. *)
LEMMA Inserted ==
  ASSUME NEW S, NEW s \in Seq(S), NEW a \in 0..Len(s), NEW t \in Seq(S)
  PROVE  LET u == Left(s, a) \o t \o From(s, a)
         IN u \in Seq(S) /\ Len(u) = Len(s) + Len(t)
<1> DEFINE l == Left(s, a)
           r == From(s, a)
           lt == l \o t
<1>1. /\ l \in Seq(S) /\ Len(l) = a
      /\ r \in Seq(S) /\ Len(r) = Len(s) - a
      /\ Len(s) \in Nat /\ a \in Nat /\ Len(t) \in Nat
  <2>1. /\ l \in Seq(S) /\ Len(l) = a
        /\ r \in Seq(S) /\ Len(r) = Len(s) - a
    BY Parts, Zenon
  <2>2. Len(s) \in Nat /\ Len(t) \in Nat
    BY LenProperties, Zenon
  <2> HIDE DEF l, r
  <2> QED BY <2>1, <2>2
<1> HIDE DEF l, r
<1>2. lt \in Seq(S) /\ Len(lt) = a + Len(t)
  BY <1>1, ConcatProperties
<1> HIDE DEF lt
<1>3. lt \o r \in Seq(S) /\ Len(lt \o r) = Len(lt) + Len(r)
  BY <1>1, <1>2, ConcatProperties
<1>4. Len(lt \o r) = Len(s) + Len(t)
  BY <1>1, <1>2, <1>3
<1> QED BY <1>3, <1>4 DEF l, r, lt

-----------------------------------------------------------------------------
(* Words.                                                                  *)

LEMMA RunFromIs ==
  ASSUME NEW s \in Lines, NEW i \in 1..(Len(s) + 1), NEW C
  PROVE  /\ RunFrom(s, i, C) \in (i - 1)..Len(s)
         /\ i <= Len(s) /\ s[i] \in C => RunFrom(s, i, C) >= i
<1> DEFINE R == {j \in (i - 1)..Len(s) : \A k \in i..j : s[k] \in C}
<1>1. Len(s) \in Nat
  BY LenProperties DEF Lines
<1>2. R \in SUBSET Nat /\ \A j \in R : j <= Len(s)
  BY <1>1
<1>3. i - 1 \in R
  BY <1>1
<1>4. i <= Len(s) /\ s[i] \in C => i \in R
  BY <1>1
<1>5. R \subseteq (i - 1)..Len(s)
  OBVIOUS
<1>6. RunFrom(s, i, C) = Greatest(R)
  BY DEF RunFrom
<1> HIDE DEF R
<1>7. Greatest(R) \in R /\ \A j \in R : Greatest(R) >= j
  BY <1>1, <1>2, <1>3, GreatestIs
<1> QED BY <1>4, <1>5, <1>6, <1>7

LEMMA RunToIs ==
  ASSUME NEW s \in Lines, NEW i \in 1..Len(s), NEW C, s[i] \in C
  PROVE  RunTo(s, i, C) \in 1..i
<1> DEFINE R == {j \in 1..i : \A k \in j..i : s[k] \in C}
<1>1. Len(s) \in Nat
  BY LenProperties DEF Lines
<1>2. R \in SUBSET Nat /\ R \subseteq 1..i
  BY <1>1
<1>3. i \in R
  BY <1>1
<1>4. RunTo(s, i, C) = Least(R)
  BY DEF RunTo
<1> HIDE DEF R
<1>5. Least(R) \in R
  BY <1>2, <1>3, LeastIs
<1> QED BY <1>2, <1>4, <1>5

LEMMA NonBlanksAre ==
  ASSUME NEW s \in Lines
  PROVE  /\ NonBlanks(s) \in SUBSET Nat /\ NonBlanks(s) \subseteq 1..Len(s)
         /\ \A i \in NonBlanks(s) : s[i] \in Chars \ {Blank} /\ i <= Len(s)
<1>1. Len(s) \in Nat /\ DOMAIN s = 1..Len(s) /\ \A i \in 1..Len(s) : s[i] \in Chars
  BY LenProperties, ElementOfSeq DEF Lines
<1> QED BY <1>1 DEF NonBlanks

(* The word that CTRL+W kills is part of the string. *)
LEMMA LastWordIs ==
  ASSUME NEW s \in Lines, NonBlanks(s) # {}
  PROVE  LastWord(s) \in 1..Len(s)
<1> DEFINE end == Greatest(NonBlanks(s))
<1>1. Len(s) \in Nat
  BY LenProperties DEF Lines
<1>2. end \in NonBlanks(s)
  BY <1>1, NonBlanksAre, GreatestIs
<1>3. LastWord(s) = Len(s) - RunTo(s, end, Chars \ {Blank}) + 1
  BY DEF LastWord
<1> HIDE DEF end
<1>4. end \in 1..Len(s) /\ s[end] \in Chars \ {Blank}
  BY <1>2, NonBlanksAre
<1>5. RunTo(s, end, Chars \ {Blank}) \in 1..end
  BY <1>4, RunToIs
<1> QED BY <1>1, <1>3, <1>4, <1>5

(* ALT+D leaves a string. *)
LEMMA WithoutFirstWordIs ==
  ASSUME NEW s \in Lines
  PROVE  WithoutFirstWord(s) \in Lines
<1> DEFINE first == Least(NonBlanks(s))
           end == RunFrom(s, first, Chars \ {Blank})
           gap == RunFrom(s, end + 1, {Blank})
<1>1. Len(s) \in Nat
  BY LenProperties DEF Lines
<1>2. CASE NonBlanks(s) = {}
  BY <1>2 DEF WithoutFirstWord
<1>3. CASE NonBlanks(s) # {}
  <2>1. WithoutFirstWord(s) = IF end = Len(s) THEN Left(s, first - 1) ELSE From(s, gap - 1)
    BY <1>3 DEF WithoutFirstWord
  <2>2. first \in NonBlanks(s)
    BY <1>3, NonBlanksAre, LeastIs
  <2> HIDE DEF first
  <2>3. first \in 1..Len(s) /\ s[first] \in Chars \ {Blank}
    BY <2>2, NonBlanksAre
  <2>4. end \in 1..Len(s)
    <3>1. first \in 1..(Len(s) + 1) /\ first <= Len(s)
      BY <1>1, <2>3
    <3>2. end \in (first - 1)..Len(s) /\ end >= first
      BY <2>3, <3>1, RunFromIs
    <3> HIDE DEF end
    <3> QED BY <1>1, <2>3, <3>2
  <2> HIDE DEF end
  <2>5. gap \in end..Len(s)
    <3> DEFINE next == end + 1
    <3>1. next \in 1..(Len(s) + 1) /\ next - 1 = end
      BY <1>1, <2>4
    <3> HIDE DEF next
    <3>2. RunFrom(s, next, {Blank}) \in (next - 1)..Len(s)
      BY <3>1, RunFromIs
    <3> QED BY <3>1, <3>2 DEF next
  <2> HIDE DEF gap
  <2>6. first - 1 \in 0..Len(s) /\ gap - 1 \in 0..Len(s)
    BY <1>1, <2>3, <2>4, <2>5
  <2>7. Left(s, first - 1) \in Lines /\ From(s, gap - 1) \in Lines
    BY <2>6, Parts DEF Lines
  <2> QED BY <2>1, <2>7
<1> QED BY <1>2, <1>3

LineOK == command \in Lines /\ position \in 0..Len(command)

(* CTRL+LEFT stays in the command. *)
LEMMA WordLeftIs ==
  ASSUME LineOK
  PROVE  WordLeft \in 0..Len(command)
<1> DEFINE from == IF At(command, position - 1) = Blank THEN position - 2 ELSE position - 1
           stops == {i \in 1..from : \E c \in White :
                       At(command, i) = c /\ At(command, i + 1) # c}
           i == Greatest(stops)
<1>1. Len(command) \in Nat /\ position \in Nat /\ position <= Len(command)
  BY LenProperties DEF LineOK, Lines
<1>2. /\ stops \in SUBSET Nat
      /\ \A k \in stops : k <= Len(command) /\ k + 1 \in 0..Len(command) /\ k \in 0..Len(command)
  BY <1>1
<1>3. WordLeft = IF stops = {} THEN 0 ELSE IF At(command, i) = Blank THEN i + 1 ELSE i
  BY DEF WordLeft
<1> HIDE DEF stops
<1>4. CASE stops = {}
  BY <1>1, <1>3, <1>4
<1>5. CASE stops # {}
  <2>1. i \in stops
    BY <1>1, <1>2, <1>5, GreatestIs
  <2> QED BY <1>2, <1>3, <1>5, <2>1
<1> QED BY <1>4, <1>5

(* CTRL+RIGHT stays in the command. *)
LEMMA WordRightIs ==
  ASSUME LineOK
  PROVE  WordRight \in 0..Len(command)
<1> DEFINE from == IF At(command, position) = Blank THEN position + 1 ELSE position
           rest == From(command, from)
           white == {i \in DOMAIN rest : rest[i] \in White}
           first == Least(white)
           end == RunFrom(rest, first, White)
<1>1. Len(command) \in Nat /\ position \in Nat /\ position <= Len(command)
  BY LenProperties DEF LineOK, Lines
<1>2. from \in 0..Len(command)
  <2>1. CASE position = Len(command)
    <3>1. At(command, position) = None
      BY <1>1, <2>1 DEF At
    <3>2. None # Blank
      BY CommandLineAssumption DEF Chars, White
    <3> QED BY <1>1, <3>1, <3>2
  <2>2. CASE position < Len(command)
    BY <1>1, <2>2
  <2> QED BY <1>1, <2>1, <2>2
<1>3. WordRight =
        IF white = {} THEN Len(command)
        ELSE IF first > 1 /\ end > first THEN from + first - 1
        ELSE IF end = Len(rest) THEN Len(command)
        ELSE IF rest[first] = NewLine THEN from + first
        ELSE from + end - 1
  BY DEF WordRight
<1> HIDE DEF from
<1>4. rest \in Lines /\ Len(rest) = Len(command) - from
  BY <1>2, Parts DEF LineOK, Lines
<1> HIDE DEF rest
<1>5. Len(rest) \in Nat /\ DOMAIN rest = 1..Len(rest) /\ from + Len(rest) = Len(command)
  BY <1>1, <1>2, <1>4, LenProperties DEF Lines
<1>6. CASE white = {}
  BY <1>1, <1>3, <1>6
<1>7. CASE white # {}
  <2>1. white \in SUBSET Nat /\ \A i \in white : i \in 1..Len(rest) /\ rest[i] \in White
    BY <1>5
  <2> HIDE DEF white
  <2>2. first \in 1..Len(rest) /\ rest[first] \in White
    BY <1>7, <2>1, LeastIs
  <2> HIDE DEF first
  <2>3. end \in first..Len(rest)
    <3>1. first \in 1..(Len(rest) + 1) /\ first <= Len(rest)
      BY <1>5, <2>2
    <3>2. end \in (first - 1)..Len(rest) /\ end >= first
      BY <1>4, <2>2, <3>1, RunFromIs
    <3> HIDE DEF end
    <3> QED BY <1>5, <2>2, <3>2
  <2> HIDE DEF end
  <2>4. /\ from + first - 1 \in 0..Len(command)
        /\ end # Len(rest) => from + first \in 0..Len(command) /\ from + end - 1 \in 0..Len(command)
    <3>1. \A c, l, f, i, e \in Nat :
            l + f = c /\ 1 <= i /\ i <= e /\ e <= l =>
              /\ f + i - 1 \in 0..c
              /\ e # l => f + i \in 0..c
              /\ e # l => f + e - 1 \in 0..c
      OBVIOUS
    <3>2. /\ first \in Nat /\ end \in Nat /\ from \in Nat
          /\ 1 <= first /\ first <= end /\ end <= Len(rest)
      BY <1>2, <1>5, <2>2, <2>3
    <3>3. Len(rest) + from = Len(command)
      BY <1>2, <1>5
    <3> QED BY <1>1, <1>5, <3>1, <3>2, <3>3, Zenon
  <2> QED BY <1>1, <1>3, <1>7, <2>4
<1> QED BY <1>6, <1>7

-----------------------------------------------------------------------------
(* The invariant.                                                          *)

TextsOK ==
  /\ kill_text \in Lines \cup {None}
  /\ last_command \in Lines \cup {None}
  /\ clip \in Lines

HistoryOK ==
  /\ history \in [data : Seq(Lines), pos : Nat, enabled : BOOLEAN]
  /\ Len(history.data) <= HistorySize
  /\ storage \in [Names -> Seq(Lines)]
  /\ \A n \in Names : Len(storage[n]) <= HistorySize
  /\ name \in Names

SearchOK == search \in [on : BOOLEAN, str : Seq(Chars), at : Nat]

\* During a search it is the backup that has the prompt asked for last.
PromptsOK ==
  /\ asked \in Prompts \cup {None}
  /\ asked # None => (IF search.on THEN backup_prompt ELSE prompt) = asked

FlagsOK ==
  /\ first_up_history \in BOOLEAN
  /\ prevent_keypress \in BOOLEAN /\ no_keypress \in BOOLEAN
  /\ pastes \in 0..MaxPastes
  /\ enabled \in BOOLEAN /\ held \in BOOLEAN
  /\ typist \in Typists

ViewOK ==
  view # None => view.command \in Lines /\ view.position \in Nat /\ view.prompt \in Prompts

IInv == LineOK /\ TextsOK /\ HistoryOK /\ SearchOK /\ PromptsOK /\ FlagsOK /\ ViewOK

-----------------------------------------------------------------------------
(* The methods.                                                            *)

LEMMA SetOK ==
  ASSUME NEW text \in Lines, set(text)
  PROVE  LineOK'
BY LenProperties DEF set, LineOK, Lines, Chars

LEMMA SetIfDefinedOK ==
  ASSUME LineOK, NEW text \in Lines \cup {None}, setIfDefined(text)
  PROVE  LineOK'
<1>1. CASE text = None
  BY <1>1 DEF setIfDefined, line, LineOK, Lines, Chars
<1>2. CASE text # None
  BY <1>2, SetOK DEF setIfDefined
<1> QED BY <1>1, <1>2

LEMMA InsertOK ==
  ASSUME LineOK, NEW text \in Lines, insert(text)
  PROVE  LineOK'
<1> DEFINE u == Left(command, position) \o text \o From(command, position)
<1>1. u \in Lines /\ Len(u) = Len(command) + Len(text)
  BY Inserted DEF LineOK, Lines
<1>2. command' = u /\ position' = position + Len(text)
  BY DEF insert
<1> HIDE DEF u
<1>3. Len(command) \in Nat /\ Len(text) \in Nat /\ position \in 0..Len(command)
  BY LenProperties DEF LineOK, Lines
<1>4. position + Len(text) \in 0..Len(u)
  BY <1>1, <1>3
<1>5. command' \in Lines /\ position' \in 0..Len(command')
  BY <1>1, <1>2, <1>4
<1> QED BY <1>5 DEF LineOK, Lines, Chars

\* A part of the command from `a` to `b` is gone, with the cursor where it was.
Cut(a, b) ==
  /\ command' = Left(command, a) \o From(command, b)
  /\ position' = a

LEMMA CutOK ==
  ASSUME LineOK, NEW a \in 0..Len(command), NEW b \in 0..Len(command), Cut(a, b)
  PROVE  LineOK'
<1> DEFINE u == Left(command, a) \o From(command, b)
<1>1. u \in Lines /\ Len(u) = a + (Len(command) - b)
  BY Joined DEF LineOK, Lines
<1>2. command' = u /\ position' = a
  BY DEF Cut
<1> HIDE DEF u
<1>3. Len(command) \in Nat
  BY LenProperties DEF LineOK, Lines
<1>4. a \in 0..Len(u)
  BY <1>1, <1>3
<1>5. command' \in Lines /\ position' \in 0..Len(command')
  BY <1>1, <1>2, <1>4
<1> QED BY <1>5 DEF LineOK, Lines, Chars

LEMMA DeleteBeforeCuts ==
  ASSUME LineOK, NEW n \in 0..position, deleteBefore(n)
  PROVE  /\ Cut(position - n, position)
         /\ position - n \in 0..Len(command) /\ position \in (position - n)..Len(command)
         /\ LineOK'
<1>1. Len(command) \in Nat /\ position \in 0..Len(command) /\ position \in Nat
  BY LenProperties DEF LineOK, Lines
<1>2. position - n \in 0..Len(command) /\ position \in (position - n)..Len(command)
  BY <1>1
<1>3. Cut(position - n, position)
  BY DEF deleteBefore, Cut
<1>4. LineOK'
  BY <1>1, <1>2, <1>3, CutOK
<1> QED BY <1>2, <1>3, <1>4

LEMMA DeleteBehindCuts ==
  ASSUME LineOK, NEW n \in 0..(Len(command) - position), deleteBehind(n)
  PROVE  Cut(position, position + n) /\ position + n \in position..Len(command) /\ LineOK'
<1>1. Len(command) \in Nat /\ position \in 0..Len(command) /\ position \in Nat
  BY LenProperties DEF LineOK, Lines
<1>2. position + n \in 0..Len(command) /\ position + n \in position..Len(command)
  BY <1>1
<1>3. Cut(position, position + n)
  BY DEF deleteBehind, Cut, line
<1>4. LineOK'
  BY <1>1, <1>2, <1>3, CutOK
<1> QED BY <1>2, <1>3, <1>4

LEMMA AtIs ==
  ASSUME NEW S, NEW s \in Seq(S), NEW i \in Int
  PROVE  At(s, i) \in S \cup {None}
<1>1. CASE i \in 0..(Len(s) - 1)
  <2>1. Len(s) \in Nat
    BY LenProperties
  <2>2. i + 1 \in 1..Len(s)
    BY <1>1, <2>1
  <2> QED BY <1>1, <2>2, ElementOfSeq DEF At
<1>2. CASE i \notin 0..(Len(s) - 1)
  BY <1>2 DEF At
<1> QED BY <1>1, <1>2

(* A line comes into the history, and the oldest goes when it is full. *)
LEMMA AppendOK ==
  ASSUME HistoryOK, NEW text \in Lines, append(text), name' = name
  PROVE  HistoryOK'
<1> DEFINE data == history.data
           longer == Append(data, text)
           kept == From(longer, Greatest({0, Len(longer) - HistorySize}))
<1>1. /\ data \in Seq(Lines) /\ Len(data) \in Nat /\ HistorySize \in Nat \ {0}
      /\ history \in [data : Seq(Lines), pos : Nat, enabled : BOOLEAN]
  BY CommandLineAssumption, LenProperties DEF HistoryOK
<1>2. longer \in Seq(Lines) /\ Len(longer) = Len(data) + 1
  BY <1>1, AppendProperties
<1>3. kept \in Seq(Lines) /\ Len(kept) <= HistorySize /\ Len(kept) \in Nat
  <2> HIDE DEF longer
  <2> DEFINE n == Greatest({0, Len(longer) - HistorySize})
  <2>1. n = IF 0 >= Len(longer) - HistorySize THEN 0 ELSE Len(longer) - HistorySize
    BY <1>1, <1>2, OfTwo
  <2> HIDE DEF n
  <2>2. n \in 0..Len(longer) /\ Len(longer) - n <= HistorySize
    BY <1>1, <1>2, <2>1
  <2>3. From(longer, n) \in Seq(Lines) /\ Len(From(longer, n)) = Len(longer) - n
    BY <1>2, <2>2, Parts
  <2> QED BY <1>2, <2>2, <2>3, LenProperties DEF n
<1>4. CASE history.enabled /\ (data = <<>> \/ data[Len(data)] # text)
  <2>1. history' = HistoryOf(kept, TRUE) /\ storage' = [storage EXCEPT ![name] = kept]
    BY <1>4 DEF append
  <2> HIDE DEF kept
  <2>2. /\ history' \in [data : Seq(Lines), pos : Nat, enabled : BOOLEAN]
        /\ Len(history'.data) <= HistorySize
    BY <1>3, <2>1 DEF HistoryOf
  <2>3. /\ storage' \in [Names -> Seq(Lines)]
        /\ \A n \in Names : Len(storage'[n]) <= HistorySize
    BY <1>3, <2>1 DEF HistoryOK
  <2> QED BY <2>2, <2>3 DEF HistoryOK, Lines, Chars
<1>5. CASE ~(history.enabled /\ (data = <<>> \/ data[Len(data)] # text))
  <2>1. history' = [history EXCEPT !.pos = Len(data)] /\ storage' = storage
    BY <1>5 DEF append
  <2>2. /\ history' \in [data : Seq(Lines), pos : Nat, enabled : BOOLEAN]
        /\ history'.data = data
    BY <1>1, <2>1
  <2> QED BY <2>1, <2>2 DEF HistoryOK, Lines, Chars
<1> QED BY <1>4, <1>5

(* What a search finds is a line of the history. *)
LEMMA SearchHistoryIs ==
  ASSUME HistoryOK, SearchOK, NEW str \in Seq(Chars), NEW next \in BOOLEAN
  PROVE  LET hit == SearchHistory(str, next)
         IN hit.str \in Seq(Chars) /\ hit.at \in Nat /\ hit.text \in Lines \cup {None}
<1> DEFINE data == history.data
           limit == IF next THEN Len(data) - search.at ELSE Len(data)
           Hits(j) == {i \in 1..limit : Occurs(Left(str, j), data[i])}
           found == {j \in 1..Len(str) : Hits(j) # {}}
           j == Greatest(found)
           i == Greatest(Hits(j))
           hit == SearchHistory(str, next)
<1>1. data \in Seq(Lines) /\ Len(data) \in Nat /\ search.at \in Nat /\ Len(str) \in Nat
  BY LenProperties DEF HistoryOK, SearchOK
<1>2. hit = IF found = {} THEN [str |-> <<>>, at |-> search.at, text |-> None]
            ELSE [str |-> Left(str, j), at |-> Len(data) - i + 1, text |-> data[i]]
  BY DEF SearchHistory
<1>3. CASE found = {}
  <2>1. <<>> \in Seq(Chars)
    BY EmptySeq
  <2> QED BY <1>1, <1>2, <1>3, <2>1
<1>4. CASE found # {}
  <2>1. found \in SUBSET Nat /\ \A k \in found : k <= Len(str) /\ k \in 0..Len(str) /\ Hits(k) # {}
    BY <1>1
  <2>2. \A k : Hits(k) \in SUBSET Nat /\ \A m \in Hits(k) : m <= Len(data) /\ m \in 1..Len(data)
    BY <1>1
  <2> HIDE DEF found, Hits, data, limit, hit
  <2>3. j \in found
    BY <1>1, <1>4, <2>1, GreatestIs
  <2> HIDE DEF j
  <2>4. i \in Hits(j)
    BY <1>1, <2>1, <2>2, <2>3, GreatestIs
  <2> HIDE DEF i
  <2>5. i \in 1..Len(data) /\ Len(data) - i + 1 \in Nat
    BY <1>1, <2>2, <2>4
  <2>6. data[i] \in Lines
    BY <1>1, <2>5, ElementOfSeq
  <2>7. Left(str, j) \in Seq(Chars)
    BY <2>1, <2>3, Parts
  <2> QED BY <1>2, <1>4, <2>5, <2>6, <2>7 DEF hit
<1> QED BY <1>3, <1>4

LEMMA ReverseSearchOK ==
  ASSUME LineOK, HistoryOK, SearchOK, NEW str \in Seq(Chars), NEW next \in BOOLEAN,
         reverse_history_search(str, next)
  PROVE  LineOK' /\ SearchOK' /\ search'.on = TRUE
<1> DEFINE hit == SearchHistory(str, next)
<1>1. hit.str \in Seq(Chars) /\ hit.at \in Nat /\ hit.text \in Lines \cup {None}
  BY SearchHistoryIs
<1>2. /\ search' = [on |-> TRUE, str |-> hit.str, at |-> hit.at]
      /\ IF hit.text = None THEN UNCHANGED line ELSE command' = hit.text /\ position' = 0
  BY DEF reverse_history_search
<1> HIDE DEF hit
<1>3. SearchOK' /\ search'.on = TRUE
  BY <1>1, <1>2 DEF SearchOK, Chars
<1>4. LineOK'
  <2>1. CASE hit.text = None
    BY <1>2, <2>1 DEF line, LineOK, Lines, Chars
  <2>2. CASE hit.text # None
    <3>1. command' \in Lines /\ position' = 0
      BY <1>1, <1>2, <2>2
    <3> QED BY <3>1, LenProperties DEF LineOK, Lines, Chars
  <2> QED BY <2>1, <2>2
<1> QED BY <1>3, <1>4

(* However a search is left, the backup becomes the prompt. *)
LEMMA ClearReverseOK ==
  ASSUME SearchOK, PromptsOK, NEW key, clear_reverse_state(key)
  PROVE  SearchOK' /\ PromptsOK'
<1>1. CASE search.on /\ key \in Leaving
  <2>1. prompt' = backup_prompt /\ search' = NoSearch /\ asked' = asked
    BY <1>1 DEF clear_reverse_state
  <2>2. SearchOK'
    <3>1. <<>> \in Seq(Chars)
      BY EmptySeq
    <3> QED BY <2>1, <3>1 DEF SearchOK, NoSearch, Chars
  <2> QED BY <1>1, <2>1, <2>2 DEF PromptsOK, NoSearch
<1>2. CASE ~(search.on /\ key \in Leaving)
  BY <1>2 DEF clear_reverse_state, prompts, SearchOK, PromptsOK, Chars
<1> QED BY <1>1, <1>2

LEMMA PressedOK ==
  ASSUME IInv, NEW c \in Chars, Pressed(c)
  PROVE  LineOK' /\ SearchOK' /\ PromptsOK'
<1>1. LineOK /\ HistoryOK /\ SearchOK /\ PromptsOK
  BY DEF IInv
<1>2. CASE search.on
  <2>1. /\ reverse_history_search(Append(search.str, c), FALSE)
        /\ backup_prompt' = backup_prompt /\ asked' = asked
    BY <1>2 DEF Pressed
  <2>2. Append(search.str, c) \in Seq(Chars)
    BY <1>1, AppendProperties DEF SearchOK
  <2>3. LineOK' /\ SearchOK' /\ search'.on = TRUE
    BY <1>1, <2>1, <2>2, ReverseSearchOK
  <2>4. PromptsOK'
    BY <1>1, <1>2, <2>1, <2>3 DEF PromptsOK
  <2> QED BY <2>3, <2>4
<1>3. CASE ~search.on
  <2>1. insert(<<c>>) /\ UNCHANGED <<prompts, search>>
    BY <1>3 DEF Pressed
  <2>2. <<c>> \in Lines
    BY DEF Lines
  <2>3. LineOK'
    BY <1>1, <2>1, <2>2, InsertOK
  <2> QED BY <1>1, <2>1, <2>3 DEF prompts, SearchOK, PromptsOK, Chars
<1> QED BY <1>2, <1>3

-----------------------------------------------------------------------------
(* The keys.                                                               *)

(* What is left alone stays as it was. *)
LEMMA Untouched ==
  ASSUME IInv
  PROVE  /\ UNCHANGED line => LineOK'
         /\ UNCHANGED <<kill_text, last_command, clip>> => TextsOK'
         /\ UNCHANGED <<history, storage, name>> => HistoryOK'
         /\ UNCHANGED search => SearchOK'
         /\ UNCHANGED <<prompts, search>> => PromptsOK'
         /\ UNCHANGED view => ViewOK'
<1>1. /\ UNCHANGED line => LineOK'
      /\ UNCHANGED <<kill_text, last_command, clip>> => TextsOK'
      /\ UNCHANGED search => SearchOK'
  BY DEF IInv, line, LineOK, TextsOK, SearchOK, Lines, Chars
<1>2. UNCHANGED <<history, storage, name>> => HistoryOK'
  BY DEF IInv, HistoryOK, Lines, Chars
<1>3. UNCHANGED <<prompts, search>> => PromptsOK'
  BY DEF IInv, prompts, PromptsOK
<1>4. UNCHANGED view => ViewOK'
  BY DEF IInv, ViewOK, Lines, Chars
<1> QED BY <1>1, <1>2, <1>3, <1>4

(* The flags of the keyboard, whatever key is pressed. *)
LEMMA KeyDownFlags ==
  ASSUME IInv, NEW key, KeyDown(key),
         Prevented \/ Returned \/ (prevent_keypress' \in BOOLEAN /\ no_keypress' \in BOOLEAN),
         held' \in BOOLEAN
  PROVE  FlagsOK' /\ clip' = clip
BY DEF KeyDown, Prevented, Returned, pasting, IInv, FlagsOK

LEMMA TypeOf ==
  ASSUME IInv
  PROVE  held \in BOOLEAN /\ prevent_keypress \in BOOLEAN /\ no_keypress \in BOOLEAN
BY DEF IInv, FlagsOK

(* Characters. *)
LEMMA TypeStep ==
  ASSUME IInv, UNCHANGED view, NEW c \in Letters \cup {Blank}, Type(c) \/ TypeAlt(c)
  PROVE  IInv'
<1>1. c \in Chars
  BY DEF Chars, White
<1>2. CASE Type(c)
  <2>1. LineOK' /\ SearchOK' /\ PromptsOK'
    BY <1>1, <1>2, PressedOK DEF Type
  <2>2. FlagsOK' /\ clip' = clip
    BY <1>2, KeyDownFlags, TypeOf DEF Type
  <2>3. TextsOK' /\ HistoryOK' /\ ViewOK'
    BY <1>2, <2>2, Untouched DEF Type, recall
  <2> QED BY <2>1, <2>2, <2>3 DEF IInv
<1>3. CASE TypeAlt(c)
  <2>1. LineOK' /\ SearchOK' /\ PromptsOK'
    BY <1>1, <1>3, PressedOK, Untouched DEF TypeAlt
  <2>2. FlagsOK' /\ clip' = clip
    BY <1>3, KeyDownFlags, TypeOf DEF TypeAlt
  <2>3. TextsOK' /\ HistoryOK' /\ ViewOK'
    BY <1>3, <2>2, Untouched DEF TypeAlt, recall
  <2> QED BY <2>1, <2>2, <2>3 DEF IInv
<1> QED BY <1>2, <1>3

(* ENTER. *)
LEMMA EnterStep ==
  ASSUME IInv, UNCHANGED view, Enter
  PROVE  IInv'
<1>1. SearchOK' /\ PromptsOK'
  BY ClearReverseOK DEF Enter, IInv
<1>2. HistoryOK'
  BY AppendOK DEF Enter, IInv, LineOK
<1>3. LineOK'
  <2>1. <<>> \in Lines
    BY EmptySeq DEF Lines
  <2> QED BY <2>1, SetOK DEF Enter
<1>4. FlagsOK' /\ clip' = clip
  BY KeyDownFlags, TypeOf DEF Enter
<1>5. TextsOK' /\ ViewOK'
  BY <1>4, Untouched DEF Enter
<1> QED BY <1>1, <1>2, <1>3, <1>4, <1>5 DEF IInv

LEMMA ShiftEnterStep ==
  ASSUME IInv, UNCHANGED view, ShiftEnter
  PROVE  IInv'
<1>1. SearchOK' /\ PromptsOK'
  BY ClearReverseOK DEF ShiftEnter, IInv
<1>2. LineOK'
  <2>1. <<NewLine>> \in Lines
    BY DEF Lines, Chars, White
  <2> QED BY <2>1, InsertOK DEF ShiftEnter, IInv
<1>3. FlagsOK' /\ clip' = clip
  BY KeyDownFlags, TypeOf DEF ShiftEnter
<1>4. TextsOK' /\ HistoryOK' /\ ViewOK'
  BY <1>3, Untouched DEF ShiftEnter, recall
<1> QED BY <1>1, <1>2, <1>3, <1>4 DEF IInv

(* The keys that delete a character or a word. *)
LEMMA BackspaceStep ==
  ASSUME IInv, UNCHANGED view, Backspace
  PROVE  IInv'
<1>1. FlagsOK' /\ clip' = clip
  BY KeyDownFlags DEF Backspace
<1>2. TextsOK' /\ HistoryOK' /\ ViewOK'
  BY <1>1, Untouched DEF Backspace, recall
<1>3. CASE search.on
  <2> DEFINE n == Greatest({0, Len(search.str) - 1})
             str == Left(search.str, n)
  <2>1. search' = [search EXCEPT !.str = str] /\ UNCHANGED <<line, backup_prompt, asked>>
    BY <1>3 DEF Backspace
  <2>2. search.str \in Seq(Chars) /\ search \in [on : BOOLEAN, str : Seq(Chars), at : Nat]
    BY DEF IInv, SearchOK
  <2>3. n \in 0..Len(search.str)
    <3>1. Len(search.str) \in Nat
      BY <2>2, LenProperties
    <3>2. n = IF 0 >= Len(search.str) - 1 THEN 0 ELSE Len(search.str) - 1
      BY <3>1, OfTwo
    <3> HIDE DEF n
    <3> QED BY <3>1, <3>2
  <2> HIDE DEF n
  <2>4. str \in Seq(Chars)
    BY <2>2, <2>3, Parts
  <2> HIDE DEF str
  <2>5. SearchOK' /\ search'.on = search.on
    BY <2>1, <2>2, <2>4 DEF SearchOK, Chars
  <2>6. PromptsOK'
    BY <1>3, <2>1, <2>5 DEF IInv, PromptsOK
  <2>7. LineOK'
    BY <2>1, Untouched
  <2> QED BY <1>1, <1>2, <2>5, <2>6, <2>7 DEF IInv
<1>4. CASE ~search.on
  <2>1. /\ IF position > 0 THEN deleteBefore(1) ELSE UNCHANGED line
        /\ UNCHANGED <<prompts, search>>
    BY <1>4 DEF Backspace
  <2>2. SearchOK' /\ PromptsOK'
    BY <2>1, Untouched
  <2>3. LineOK'
    <3>1. CASE position > 0
      <4>1. 1 \in 0..position /\ LineOK
        BY <3>1, LenProperties DEF IInv, LineOK, Lines
      <4> QED BY <2>1, <3>1, <4>1, DeleteBeforeCuts
    <3> QED BY <2>1, <3>1, Untouched
  <2> QED BY <1>1, <1>2, <2>2, <2>3 DEF IInv
<1> QED BY <1>3, <1>4

LEMMA DeleteStep ==
  ASSUME IInv, UNCHANGED view, CtrlH \/ Delete \/ AltD
  PROVE  IInv'
<1>1. Len(command) \in Nat /\ position \in 0..Len(command) /\ LineOK
  BY LenProperties DEF IInv, LineOK, Lines
<1>2. FlagsOK' /\ clip' = clip
  BY KeyDownFlags, TypeOf DEF CtrlH, Delete, AltD
<1>3. TextsOK' /\ HistoryOK' /\ ViewOK' /\ SearchOK' /\ PromptsOK'
  BY <1>2, Untouched DEF CtrlH, Delete, AltD, recall
<1>4. CASE CtrlH
  <2>1. CASE position > 0
    <3>1. 1 \in 0..position
      BY <1>1, <2>1
    <3> QED BY <1>1, <1>2, <1>3, <1>4, <2>1, <3>1, DeleteBeforeCuts DEF CtrlH, IInv
  <2>2. CASE ~(position > 0)
    BY <1>2, <1>3, <1>4, <2>2, Untouched DEF CtrlH, IInv
  <2> QED BY <2>1, <2>2
<1>5. CASE Delete
  <2>1. CASE position < Len(command)
    <3>1. 1 \in 0..(Len(command) - position)
      BY <1>1, <2>1
    <3> QED BY <1>1, <1>2, <1>3, <1>5, <2>1, <3>1, DeleteBehindCuts DEF Delete, IInv
  <2>2. CASE ~(position < Len(command))
    BY <1>2, <1>3, <1>5, <2>2, Untouched DEF Delete, IInv
  <2> QED BY <2>1, <2>2
<1>6. CASE AltD
  <2> DEFINE l == Left(command, position)
             r == WithoutFirstWord(From(command, position))
  <2>1. command' = l \o r /\ position' = position
    BY <1>6 DEF AltD
  <2>2. /\ l \in Lines /\ Len(l) = position
        /\ From(command, position) \in Lines
    BY <1>1, Parts DEF LineOK, Lines
  <2>3. r \in Lines /\ Len(r) \in Nat
    BY <2>2, WithoutFirstWordIs, LenProperties DEF Lines
  <2> HIDE DEF l, r
  <2>4. l \o r \in Lines /\ Len(l \o r) = Len(l) + Len(r)
    BY <2>2, <2>3, ConcatProperties DEF Lines
  <2>5. position \in 0..Len(l \o r)
    BY <1>1, <2>2, <2>3, <2>4
  <2>6. command' \in Lines /\ position' \in 0..Len(command')
    BY <2>1, <2>4, <2>5
  <2>7. LineOK'
    BY <2>6 DEF LineOK, Lines, Chars
  <2> QED BY <1>2, <1>3, <2>7 DEF IInv
<1> QED BY <1>4, <1>5, <1>6

(* The keys that go through the history. *)
LEMMA UpDownStep ==
  ASSUME IInv, UNCHANGED view, NEW key, Up(key) \/ Down(key)
  PROVE  IInv'
<1>1. /\ LineOK /\ HistoryOK /\ TextsOK
      /\ history \in [data : Seq(Lines), pos : Nat, enabled : BOOLEAN]
      /\ history.data \in Seq(Lines) /\ history.pos \in Nat
      /\ command \in Lines
  BY DEF IInv, HistoryOK, LineOK
<1>2. SearchOK' /\ PromptsOK'
  BY ClearReverseOK DEF Up, Down, IInv
<1>3. FlagsOK' /\ clip' = clip
  BY KeyDownFlags, TypeOf DEF Up, Down
<1>4. ViewOK'
  BY Untouched
<1>5. ASSUME NEW p \in Nat, history' = [history EXCEPT !.pos = p], storage' = storage, name' = name
      PROVE  HistoryOK' /\ history'.pos = p
  <2>1. history' \in [data : Seq(Lines), pos : Nat, enabled : BOOLEAN]
        /\ history'.data = history.data /\ history'.pos = p
    BY <1>1, <1>5
  <2> QED BY <1>1, <1>5, <2>1 DEF HistoryOK, Lines, Chars
<1>6. CASE Up(key) /\ first_up_history
  <2>1. last_command' = command /\ kill_text' = kill_text
    BY <1>6 DEF Up
  <2>2. TextsOK'
    BY <1>1, <1>3, <2>1 DEF TextsOK, Lines, Chars
  <2>3. LineOK'
    <3>1. Current \in Lines \cup {None}
      BY <1>1, AtIs DEF Current
    <3> QED BY <1>1, <1>6, <3>1, SetIfDefinedOK DEF Up
  <2>4. HistoryOK'
    BY <1>6, Untouched DEF Up
  <2> QED BY <1>2, <1>3, <1>4, <2>2, <2>3, <2>4 DEF IInv
<1>7. CASE Up(key) /\ ~first_up_history
  <2> DEFINE p == IF history.pos > 1 THEN history.pos - 1 ELSE history.pos
  <2>1. p \in Nat
    BY <1>1
  <2>2. /\ history' = [history EXCEPT !.pos = p] /\ storage' = storage /\ name' = name
        /\ UNCHANGED <<kill_text, last_command>>
        /\ setIfDefined(At(history.data, history'.pos - 1))
    BY <1>1, <1>7 DEF Up
  <2> HIDE DEF p
  <2>3. HistoryOK' /\ history'.pos = p
    BY <1>5, <2>1, <2>2
  <2>4. LineOK'
    <3>1. At(history.data, p - 1) \in Lines \cup {None}
      BY <1>1, <2>1, AtIs
    <3> QED BY <1>1, <2>2, <2>3, <3>1, SetIfDefinedOK
  <2>5. TextsOK'
    BY <1>3, <2>2, Untouched
  <2> QED BY <1>2, <1>3, <1>4, <2>3, <2>4, <2>5 DEF IInv
<1>8. CASE Down(key) /\ history.pos = Len(history.data)
  <2>1. /\ setIfDefined(last_command) /\ UNCHANGED history
        /\ UNCHANGED <<kill_text, last_command, storage, name>>
    BY <1>8 DEF Down
  <2>2. LineOK'
    BY <1>1, <2>1, SetIfDefinedOK DEF TextsOK
  <2>3. HistoryOK' /\ TextsOK'
    BY <1>3, <2>1, Untouched
  <2> QED BY <1>2, <1>3, <1>4, <2>2, <2>3 DEF IInv
<1>9. CASE Down(key) /\ history.pos # Len(history.data)
  <2> DEFINE p == IF history.pos < Len(history.data) THEN history.pos + 1 ELSE history.pos
  <2>1. p \in Nat
    BY <1>1
  <2>2. /\ history' = [history EXCEPT !.pos = p] /\ storage' = storage /\ name' = name
        /\ UNCHANGED <<kill_text, last_command>>
        /\ setIfDefined(At(history.data, history'.pos - 1))
    BY <1>1, <1>9 DEF Down
  <2> HIDE DEF p
  <2>3. HistoryOK' /\ history'.pos = p
    BY <1>5, <2>1, <2>2
  <2>4. LineOK'
    <3>1. At(history.data, p - 1) \in Lines \cup {None}
      BY <1>1, <2>1, AtIs
    <3> QED BY <1>1, <2>2, <2>3, <3>1, SetIfDefinedOK
  <2>5. TextsOK'
    BY <1>3, <2>2, Untouched
  <2> QED BY <1>2, <1>3, <1>4, <2>3, <2>4, <2>5 DEF IInv
<1> QED BY <1>6, <1>7, <1>8, <1>9

(* The keys that move the cursor. *)
LEMMA MoveStep ==
  ASSUME IInv, UNCHANGED view, NEW key, Move(key)
  PROVE  IInv'
<1>1. Len(command) \in Nat /\ position \in 0..Len(command) /\ LineOK
  BY LenProperties DEF IInv, LineOK, Lines
<1>2. SearchOK' /\ PromptsOK'
  BY ClearReverseOK DEF Move, IInv
<1>3. FlagsOK' /\ clip' = clip
  BY KeyDownFlags, TypeOf DEF Move
<1>4. TextsOK' /\ HistoryOK' /\ ViewOK'
  BY <1>3, Untouched DEF Move, recall
<1>5. command' = command /\ position' \in 0..Len(command)
  <2>1. Greatest({0, position - 1}) \in 0..Len(command)
    <3>1. Greatest({0, position - 1}) = IF 0 >= position - 1 THEN 0 ELSE position - 1
      BY <1>1, OfTwo
    <3> QED BY <1>1, <3>1
  <2>2. Least({Len(command), position + 1}) \in 0..Len(command)
    <3>1. Least({Len(command), position + 1}) =
            IF Len(command) <= position + 1 THEN Len(command) ELSE position + 1
      <4>1. Len(command) \in Int /\ position + 1 \in Int
        BY <1>1
      <4> QED BY <4>1, OfTwo
    <3> QED BY <1>1, <3>1
  <2>3. 0 \in 0..Len(command) /\ Len(command) \in 0..Len(command)
    BY <1>1
  <2> QED BY <1>1, <2>1, <2>2, <2>3, WordLeftIs, WordRightIs DEF Move
<1>6. LineOK'
  BY <1>1, <1>5 DEF LineOK, Lines, Chars
<1> QED BY <1>2, <1>3, <1>4, <1>6 DEF IInv

(* A search begins, goes on and is given up. *)
LEMMA CtrlRStep ==
  ASSUME IInv, UNCHANGED view, CtrlR
  PROVE  IInv'
<1>1. /\ LineOK /\ HistoryOK /\ SearchOK /\ PromptsOK /\ TextsOK
      /\ search \in [on : BOOLEAN, str : Seq(Chars), at : Nat]
  BY DEF IInv, SearchOK
<1>2. FlagsOK' /\ clip' = clip
  BY KeyDownFlags, TypeOf DEF CtrlR
<1>3. HistoryOK' /\ ViewOK'
  BY Untouched DEF CtrlR
<1>4. CASE search.on /\ search.str # <<>> /\ search.at > Len(history.data)
  <2>1. UNCHANGED <<line, prompts, search, last_command>> /\ kill_text' = kill_text
    BY <1>4 DEF CtrlR
  <2> QED BY <1>2, <1>3, <2>1, Untouched DEF IInv
<1>5. CASE search.on /\ ~(search.str # <<>> /\ search.at > Len(history.data))
  <2>1. /\ reverse_history_search(search.str, TRUE)
        /\ UNCHANGED <<backup_prompt, asked, last_command>> /\ kill_text' = kill_text
    BY <1>5 DEF CtrlR
  <2>2. LineOK' /\ SearchOK' /\ search'.on = TRUE
    BY <1>1, <2>1, ReverseSearchOK
  <2>3. PromptsOK'
    BY <1>1, <1>5, <2>1, <2>2 DEF PromptsOK
  <2>4. TextsOK'
    BY <1>2, <2>1, Untouched
  <2> QED BY <1>2, <1>3, <2>2, <2>3, <2>4 DEF IInv
<1>6. CASE ~search.on
  <2>1. /\ backup_prompt' = prompt /\ last_command' = command /\ set(<<>>)
        /\ search' = [search EXCEPT !.on = TRUE] /\ asked' = asked /\ kill_text' = kill_text
    BY <1>6 DEF CtrlR
  <2>2. LineOK'
    <3>1. <<>> \in Lines
      BY EmptySeq DEF Lines
    <3> QED BY <2>1, <3>1, SetOK
  <2>3. SearchOK' /\ search'.on = TRUE
    BY <1>1, <2>1 DEF SearchOK, Chars
  <2>4. PromptsOK'
    BY <1>1, <1>6, <2>1, <2>3 DEF PromptsOK
  <2>5. TextsOK'
    BY <1>1, <1>2, <2>1 DEF TextsOK, LineOK, Lines, Chars
  <2> QED BY <1>2, <1>3, <2>2, <2>3, <2>4, <2>5 DEF IInv
<1> QED BY <1>4, <1>5, <1>6

LEMMA CtrlGStep ==
  ASSUME IInv, UNCHANGED view, CtrlG
  PROVE  IInv'
<1>1. /\ LineOK /\ PromptsOK /\ last_command \in Lines \cup {None}
      /\ search \in [on : BOOLEAN, str : Seq(Chars), at : Nat]
  BY DEF IInv, SearchOK, TextsOK
<1>2. FlagsOK' /\ clip' = clip
  BY KeyDownFlags, TypeOf DEF CtrlG
<1>3. TextsOK' /\ HistoryOK' /\ ViewOK'
  BY <1>2, Untouched DEF CtrlG, recall
<1>4. CASE search.on
  <2>1. /\ prompt' = backup_prompt /\ setIfDefined(last_command)
        /\ search' = [search EXCEPT !.on = FALSE, !.str = <<>>] /\ asked' = asked
    BY <1>4 DEF CtrlG
  <2>2. SearchOK' /\ search'.on = FALSE
    <3>1. <<>> \in Seq(Chars)
      BY EmptySeq
    <3> QED BY <1>1, <2>1, <3>1 DEF SearchOK, Chars
  <2>3. PromptsOK'
    BY <1>1, <1>4, <2>1, <2>2 DEF PromptsOK
  <2>4. LineOK'
    BY <1>1, <2>1, SetIfDefinedOK
  <2> QED BY <1>2, <1>3, <2>2, <2>3, <2>4 DEF IInv
<1>5. CASE ~search.on
  <2>1. UNCHANGED <<line, prompts, search>>
    BY <1>5 DEF CtrlG, prompts
  <2> QED BY <1>2, <1>3, <2>1, Untouched DEF IInv
<1> QED BY <1>4, <1>5

LEMMA EscapeStep ==
  ASSUME IInv, UNCHANGED view, Escape
  PROVE  IInv'
<1>1. SearchOK' /\ PromptsOK'
  BY ClearReverseOK DEF Escape, IInv
<1>2. FlagsOK' /\ clip' = clip
  <2>1. search.on \in BOOLEAN
    BY DEF IInv, SearchOK
  <2> QED BY <2>1, KeyDownFlags, TypeOf DEF Escape
<1>3. TextsOK' /\ HistoryOK' /\ ViewOK'
  BY <1>2, Untouched DEF Escape, recall
<1>4. LineOK'
  <2>1. <<>> \in Lines
    BY EmptySeq DEF Lines
  <2> QED BY <2>1, SetOK, Untouched DEF Escape
<1> QED BY <1>1, <1>2, <1>3, <1>4 DEF IInv

LEMMA ShiftStep ==
  ASSUME IInv, UNCHANGED view, Shift
  PROVE  IInv'
<1>1. FlagsOK' /\ clip' = clip
  BY KeyDownFlags, TypeOf DEF Shift
<1>2. TextsOK' /\ HistoryOK' /\ ViewOK' /\ LineOK' /\ SearchOK' /\ PromptsOK'
  BY <1>1, Untouched DEF Shift, recall
<1> QED BY <1>1, <1>2 DEF IInv

(* CTRL+W, CTRL+K and CTRL+U: what a kill key cuts out, and puts aside. *)
Killed(a, b) == Cut(a, b) /\ kill_text' = SubSeq(command, a + 1, b)

LEMMA KillKeysCut ==
  ASSUME IInv, KillWord \/ KillToEnd \/ KillToStart
  PROVE  \/ UNCHANGED line /\ kill_text' \in {kill_text, None}
         \/ \E a \in 0..Len(command) : \E b \in a..Len(command) : Killed(a, b)
<1>1. /\ Len(command) \in Nat /\ position \in 0..Len(command) /\ LineOK /\ command \in Lines
      /\ position \in Nat
  BY LenProperties DEF IInv, LineOK, Lines
<1>2. CASE KillWord
  <2> DEFINE before == Left(command, position)
             n == LastWord(before)
  <2>1. CASE NonBlanks(before) # {}
    <3>1. kill_text' = SubSeq(command, position - n + 1, position) /\ deleteBefore(n)
      BY <1>2, <2>1 DEF KillWord
    <3>2. before \in Lines /\ Len(before) = position
      BY <1>1, Parts DEF Lines
    <3> HIDE DEF before
    <3>3. n \in 1..position
      BY <2>1, <3>2, LastWordIs
    <3> HIDE DEF n
    <3>4. n \in 0..position
      BY <1>1, <3>3
    <3>5. /\ Cut(position - n, position)
          /\ position - n \in 0..Len(command) /\ position \in (position - n)..Len(command)
      BY <1>1, <3>1, <3>4, DeleteBeforeCuts
    <3>6. Killed(position - n, position)
      BY <3>1, <3>5 DEF Killed
    <3> QED BY <3>5, <3>6
  <2>2. CASE NonBlanks(before) = {}
    <3>1. UNCHANGED <<line, kill_text>>
      BY <1>2, <2>2 DEF KillWord
    <3> QED BY <3>1
  <2> QED BY <2>1, <2>2
<1>3. CASE KillToEnd
  <2>1. CASE position = Len(command)
    BY <1>3, <2>1 DEF KillToEnd
  <2>2. CASE position # Len(command)
    <3> DEFINE n == Len(command) - position
    <3>1. kill_text' = From(command, position) /\ deleteBehind(n)
      BY <1>3, <2>2 DEF KillToEnd
    <3>2. n \in 0..(Len(command) - position) /\ position + n = Len(command)
      BY <1>1
    <3> HIDE DEF n
    <3>3. Cut(position, position + n) /\ position + n \in position..Len(command)
      BY <1>1, <3>1, <3>2, DeleteBehindCuts
    <3>4. Killed(position, Len(command))
      BY <3>1, <3>2, <3>3 DEF Killed, From
    <3> QED BY <1>1, <3>2, <3>3, <3>4
  <2> QED BY <2>1, <2>2
<1>4. CASE KillToStart
  <2>1. CASE position > 0
    <3>1. kill_text' = Left(command, position) /\ deleteBefore(position)
      BY <1>4, <2>1 DEF KillToStart
    <3>2. position \in 0..position /\ position - position = 0
      BY <1>1
    <3>3. Cut(0, position) /\ 0 \in 0..Len(command) /\ position \in 0..Len(command)
      BY <1>1, <3>1, <3>2, DeleteBeforeCuts
    <3>4. Killed(0, position)
      BY <3>1, <3>3 DEF Killed, Left
    <3> QED BY <3>3, <3>4
  <2>2. CASE ~(position > 0)
    BY <1>4, <2>2 DEF KillToStart
  <2> QED BY <2>1, <2>2
<1> QED BY <1>2, <1>3, <1>4

LEMMA KillStep ==
  ASSUME IInv, UNCHANGED view, KillWord \/ KillToEnd \/ KillToStart
  PROVE  IInv'
<1>1. Len(command) \in Nat /\ LineOK /\ command \in Lines
  BY LenProperties DEF IInv, LineOK, Lines
<1>2. FlagsOK' /\ clip' = clip
  BY KeyDownFlags, TypeOf DEF KillWord, KillToEnd, KillToStart
<1>3. /\ HistoryOK' /\ ViewOK' /\ SearchOK' /\ PromptsOK'
      /\ last_command' = last_command
  BY Untouched DEF KillWord, KillToEnd, KillToStart, recall
<1>4. CASE UNCHANGED line /\ kill_text' \in {kill_text, None}
  <2>1. LineOK'
    BY <1>4, Untouched
  <2>2. TextsOK'
    BY <1>2, <1>3, <1>4 DEF IInv, TextsOK, Lines, Chars
  <2> QED BY <1>2, <1>3, <2>1, <2>2 DEF IInv
<1>5. CASE \E a \in 0..Len(command) : \E b \in a..Len(command) : Killed(a, b)
  <2>1. PICK a \in 0..Len(command) : \E b \in a..Len(command) : Killed(a, b)
    BY <1>5
  <2>2. PICK b \in a..Len(command) : Killed(a, b)
    BY <2>1
  <2>3. LineOK'
    <3>1. b \in 0..Len(command)
      BY <1>1
    <3> QED BY <1>1, <2>2, <3>1, CutOK DEF Killed
  <2>4. SubSeq(command, a + 1, b) \in Lines
    BY <1>1, PutBack DEF Lines
  <2>5. TextsOK'
    BY <1>2, <1>3, <2>2, <2>4 DEF Killed, IInv, TextsOK, Lines, Chars
  <2> QED BY <1>2, <1>3, <2>3, <2>5 DEF IInv
<1> QED BY <1>4, <1>5, KillKeysCut

(* CTRL+Y, and text that is pasted. *)
LEMMA YankStep ==
  ASSUME IInv, UNCHANGED view, Yank
  PROVE  IInv'
<1>1. Len(command) \in Nat /\ position \in 0..Len(command) /\ LineOK /\ command \in Lines
      /\ kill_text \in Lines \cup {None}
  BY LenProperties DEF IInv, LineOK, Lines, TextsOK
<1>2. FlagsOK' /\ clip' = clip
  BY KeyDownFlags, TypeOf DEF Yank
<1>3. TextsOK' /\ HistoryOK' /\ ViewOK' /\ SearchOK' /\ PromptsOK'
  BY <1>2, Untouched DEF Yank, recall
<1>4. CASE kill_text = None
  <2> DEFINE u == Left(command, position) \o ObjectText \o From(command, position)
  <2>1. command' = u /\ position' = position + 1
    BY <1>4 DEF Yank
  <2>2. ObjectText \in Lines /\ Len(ObjectText) = 3
    BY DEF ObjectText, Lines, Chars, White
  <2>3. u \in Lines /\ Len(u) = Len(command) + Len(ObjectText)
    BY <1>1, <2>2, Inserted DEF Lines
  <2> HIDE DEF u
  <2>4. position + 1 \in 0..Len(u)
    BY <1>1, <2>2, <2>3
  <2>5. command' \in Lines /\ position' \in 0..Len(command')
    BY <2>1, <2>3, <2>4
  <2>6. LineOK'
    BY <2>5 DEF LineOK, Lines, Chars
  <2> QED BY <1>2, <1>3, <2>6 DEF IInv
<1>5. CASE kill_text # None
  <2>1. LineOK'
    BY <1>1, <1>5, InsertOK DEF Yank
  <2> QED BY <1>2, <1>3, <2>1 DEF IInv
<1> QED BY <1>4, <1>5

LEMMA PasteStep ==
  ASSUME IInv, UNCHANGED view, NEW c \in Letters, Paste(<<c>>)
  PROVE  IInv'
<1>1. LineOK' /\ HistoryOK' /\ ViewOK' /\ SearchOK' /\ PromptsOK'
  BY Untouched DEF Paste, recall
<1>2. TextsOK'
  <2>1. <<c>> \in Lines
    BY DEF Lines, Chars
  <2> QED BY <2>1 DEF Paste, recall, IInv, TextsOK, Lines, Chars
<1>3. FlagsOK'
  <2>1. pastes' \in 0..MaxPastes
    BY CommandLineAssumption DEF Paste, IInv, FlagsOK
  <2> QED BY <2>1 DEF Paste, Returned, IInv, FlagsOK
<1> QED BY <1>1, <1>2, <1>3 DEF IInv

LEMMA PasteTimerStep ==
  ASSUME IInv, UNCHANGED view, PasteTimer
  PROVE  IInv'
<1>1. HistoryOK' /\ ViewOK' /\ SearchOK' /\ PromptsOK'
  BY Untouched DEF PasteTimer, recall
<1>2. LineOK'
  BY InsertOK DEF PasteTimer, IInv, TextsOK
<1>3. TextsOK'
  <2>1. <<>> \in Lines
    BY EmptySeq DEF Lines
  <2> QED BY <2>1 DEF PasteTimer, recall, IInv, TextsOK, Lines, Chars
<1>4. FlagsOK'
  <2>1. pastes' \in 0..MaxPastes
    BY CommandLineAssumption DEF PasteTimer, IInv, FlagsOK
  <2> QED BY <2>1 DEF PasteTimer, IInv, FlagsOK
<1> QED BY <1>1, <1>2, <1>3, <1>4 DEF IInv

LEMMA ReleaseStep ==
  ASSUME IInv, UNCHANGED view, NEW key, Release(key)
  PROVE  IInv'
<1>1. TextsOK' /\ HistoryOK' /\ ViewOK' /\ SearchOK' /\ PromptsOK'
  BY Untouched DEF Release, recall, pasting
<1>2. LineOK'
  BY SetOK, Untouched DEF Release, IInv, TextsOK
<1>3. FlagsOK'
  BY DEF Release, pasting, IInv, FlagsOK
<1> QED BY <1>1, <1>2, <1>3 DEF IInv

(* What the terminal calls. *)
LEMMA CalledStep ==
  ASSUME IInv, UNCHANGED view,
         \/ \E p \in Prompts : SetPrompt(p)
         \/ \E n \in Names : SetName(n)
         \/ Purge
         \/ \E on \in BOOLEAN : EnableHistory(on) \/ Enable(on)
  PROVE  IInv'
<1>1. ASSUME NEW method, Called(method), enabled' \in BOOLEAN
      PROVE  LineOK' /\ SearchOK' /\ FlagsOK' /\ ViewOK'
             /\ (UNCHANGED <<prompt, asked>> => PromptsOK')
             /\ TextsOK'
  BY <1>1, Untouched DEF Called, line, pasting, prompts, IInv, FlagsOK
<1>2. /\ history \in [data : Seq(Lines), pos : Nat, enabled : BOOLEAN]
      /\ Len(history.data) <= HistorySize
      /\ storage \in [Names -> Seq(Lines)] /\ \A n \in Names : Len(storage[n]) <= HistorySize
      /\ name \in Names /\ enabled \in BOOLEAN
      /\ PromptsOK
  BY DEF IInv, HistoryOK, FlagsOK
<1>3. ASSUME NEW p \in Prompts, SetPrompt(p) PROVE IInv'
  <2>1. LineOK' /\ SearchOK' /\ FlagsOK' /\ ViewOK' /\ TextsOK' /\ HistoryOK'
    BY <1>1, <1>2, <1>3, Untouched DEF SetPrompt
  <2>2. PromptsOK'
    BY <1>2, <1>3 DEF SetPrompt, Called, PromptsOK
  <2> QED BY <2>1, <2>2 DEF IInv
<1>4. ASSUME NEW n \in Names, SetName(n) PROVE IInv'
  <2>1. LineOK' /\ SearchOK' /\ FlagsOK' /\ ViewOK' /\ TextsOK' /\ PromptsOK'
    BY <1>1, <1>2, <1>4 DEF SetName
  <2>2. HistoryOK'
    <3>1. /\ name' = n /\ storage' = storage
          /\ history' = HistoryOf(storage[n], history.enabled)
      BY <1>4 DEF SetName
    <3>2. storage[n] \in Seq(Lines) /\ Len(storage[n]) \in Nat /\ Len(storage[n]) <= HistorySize
      BY <1>2, LenProperties
    <3> QED BY <1>2, <3>1, <3>2 DEF HistoryOf, HistoryOK, Lines, Chars
  <2> QED BY <2>1, <2>2 DEF IInv
<1>5. CASE Purge
  <2>1. LineOK' /\ SearchOK' /\ FlagsOK' /\ ViewOK' /\ TextsOK' /\ PromptsOK'
    BY <1>1, <1>2, <1>5 DEF Purge
  <2>2. HistoryOK'
    <3>1. /\ name' = name
          /\ history' = [history EXCEPT !.data = <<>>]
          /\ storage' = [storage EXCEPT ![name] = <<>>]
      BY <1>5 DEF Purge
    <3>2. <<>> \in Seq(Lines) /\ Len(<<>>) = 0 /\ 0 <= HistorySize
      BY EmptySeq, CommandLineAssumption
    <3>3. history' \in [data : Seq(Lines), pos : Nat, enabled : BOOLEAN] /\ history'.data = <<>>
      BY <1>2, <3>1, <3>2
    <3>4. /\ storage' \in [Names -> Seq(Lines)]
          /\ \A n \in Names : storage'[n] = IF n = name THEN <<>> ELSE storage[n]
      BY <1>2, <3>1, <3>2
    <3>5. \A n \in Names : Len(storage'[n]) <= HistorySize
      BY <1>2, <3>2, <3>4
    <3> QED BY <1>2, <3>1, <3>2, <3>3, <3>4, <3>5 DEF HistoryOK, Lines, Chars
  <2> QED BY <2>1, <2>2 DEF IInv
<1>6. ASSUME NEW on \in BOOLEAN, EnableHistory(on) PROVE IInv'
  <2>1. LineOK' /\ SearchOK' /\ FlagsOK' /\ ViewOK' /\ TextsOK' /\ PromptsOK'
    BY <1>1, <1>2, <1>6 DEF EnableHistory
  <2>2. HistoryOK'
    <3>1. /\ name' = name /\ storage' = storage
          /\ history' = [history EXCEPT !.enabled = on]
      BY <1>6 DEF EnableHistory
    <3>2. history' \in [data : Seq(Lines), pos : Nat, enabled : BOOLEAN]
          /\ history'.data = history.data
      BY <1>2, <3>1
    <3> QED BY <1>2, <3>1, <3>2 DEF HistoryOK, Lines, Chars
  <2> QED BY <2>1, <2>2 DEF IInv
<1>7. ASSUME NEW on \in BOOLEAN, Enable(on) PROVE IInv'
  <2>1. /\ LineOK' /\ SearchOK' /\ FlagsOK' /\ ViewOK' /\ TextsOK' /\ PromptsOK'
    BY <1>1, <1>2, <1>7 DEF Enable
  <2>2. HistoryOK'
    BY <1>7, Untouched DEF Enable
  <2> QED BY <2>1, <2>2 DEF IInv
<1> QED BY <1>3, <1>4, <1>5, <1>6, <1>7

LEMMA KeysStep ==
  ASSUME IInv, UNCHANGED view, Keys
  PROVE  IInv'
BY TypeStep, ShiftEnterStep, BackspaceStep, DeleteStep, UpDownStep, MoveStep, CtrlRStep,
   CtrlGStep, EscapeStep, ShiftStep, KillStep, YankStep, PasteStep, PasteTimerStep,
   ReleaseStep, CalledStep
   DEF Keys

-----------------------------------------------------------------------------
(* The terminal around the command line.                                   *)

LEMMA SetLineOK ==
  ASSUME IInv, NEW text \in Lines, NEW pos \in 0..Len(text), SetLine(text, pos)
  PROVE  LineOK' /\ TextsOK' /\ HistoryOK' /\ SearchOK' /\ FlagsOK'
<1>1. LineOK'
  BY DEF SetLine, LineOK, Lines, Chars
<1>2. TextsOK' /\ HistoryOK' /\ SearchOK'
  BY Untouched DEF SetLine, recall, pasting
<1>3. FlagsOK'
  BY DEF SetLine, pasting, IInv, FlagsOK
<1> QED BY <1>1, <1>2, <1>3

LEMMA ClearStep ==
  ASSUME IInv, Clear
  PROVE  IInv'
<1>1. SetLine(<<>>, 0) /\ UNCHANGED <<prompt, asked, view>>
  BY DEF Clear
<1>2. LineOK' /\ TextsOK' /\ HistoryOK' /\ SearchOK' /\ FlagsOK'
  <2>1. <<>> \in Lines /\ 0 \in 0..Len(<<>>)
    BY EmptySeq DEF Lines
  <2> QED BY <1>1, <2>1, SetLineOK
<1>3. PromptsOK' /\ ViewOK'
  BY <1>1, Untouched DEF SetLine, prompts
<1> QED BY <1>2, <1>3 DEF IInv

(* A view is exported outside a search, with a prompt of the terminal. *)
LEMMA ExportViewStep ==
  ASSUME IInv, ExportView
  PROVE  IInv'
<1>1. UNCHANGED vars /\ ~search.on /\ asked # None
      /\ view' = [lines |-> screen.lines, command |-> command, position |-> position,
                  prompt |-> prompt]
  BY DEF ExportView
<1>2. LineOK' /\ TextsOK' /\ HistoryOK' /\ SearchOK' /\ PromptsOK'
  BY <1>1, Untouched DEF vars, recall, pasting
<1>3. FlagsOK'
  BY <1>1 DEF vars, pasting, IInv, FlagsOK
<1>4. ViewOK'
  <2>1. prompt \in Prompts
    BY <1>1 DEF IInv, PromptsOK
  <2>2. position \in Nat
    BY LenProperties DEF IInv, LineOK, Lines
  <2> QED BY <1>1, <2>1, <2>2 DEF ViewOK, IInv, LineOK, Lines, Chars
<1> QED BY <1>2, <1>3, <1>4 DEF IInv

LEMMA ImportViewStep ==
  ASSUME IInv, ImportView
  PROVE  IInv'
<1> DEFINE pos == Least({view.position, Len(view.command)})
<1>1. /\ view.command \in Lines /\ view.position \in Nat /\ view.prompt \in Prompts
      /\ prompt' = view.prompt /\ asked' = (IF search.on THEN None ELSE view.prompt)
      /\ SetLine(view.command, pos)
      /\ view' = view
  BY DEF ImportView, IInv, ViewOK
<1>2. pos \in 0..Len(view.command)
  <2>1. Len(view.command) \in Nat
    BY <1>1, LenProperties DEF Lines
  <2>2. pos = IF view.position <= Len(view.command) THEN view.position ELSE Len(view.command)
    <3>1. view.position \in Int /\ Len(view.command) \in Int
      BY <1>1, <2>1
    <3> QED BY <3>1, OfTwo
  <2> HIDE DEF pos
  <2> QED BY <1>1, <2>1, <2>2
<1> HIDE DEF pos
<1>3. LineOK' /\ TextsOK' /\ HistoryOK' /\ SearchOK' /\ FlagsOK'
  BY <1>1, <1>2, SetLineOK
<1>4. ViewOK'
  BY <1>1, Untouched
<1>5. PromptsOK'
  BY <1>1 DEF SetLine, PromptsOK
<1> QED BY <1>3, <1>4, <1>5 DEF IInv

LEMMA InitIInv == ScreenInit => IInv
<1> SUFFICES ASSUME ScreenInit PROVE IInv
  OBVIOUS
<1>1. <<>> \in Lines /\ <<>> \in Seq(Lines) /\ <<>> \in Seq(Chars) /\ Len(<<>>) = 0
      /\ HistorySize \in Nat /\ MaxPastes \in Nat
  BY EmptySeq, CommandLineAssumption DEF Lines
<1>2. LineOK /\ TextsOK
  BY <1>1 DEF ScreenInit, Init, LineOK, TextsOK
<1>3. HistoryOK
  BY <1>1 DEF ScreenInit, Init, HistoryOK, HistoryOf
<1>4. SearchOK /\ PromptsOK /\ ViewOK
  BY <1>1 DEF ScreenInit, Init, SearchOK, NoSearch, PromptsOK, ViewOK
<1>5. FlagsOK
  <2>1. 0 \in 0..MaxPastes
    BY <1>1
  <2> QED BY <2>1 DEF ScreenInit, Init, FlagsOK
<1> QED BY <1>2, <1>3, <1>4, <1>5 DEF IInv

LEMMA NextIInv == IInv /\ [ScreenNext]_screenVars => IInv'
<1> SUFFICES ASSUME IInv, [ScreenNext]_screenVars PROVE IInv'
  OBVIOUS
<1>1. CASE UNCHANGED vars /\ UNCHANGED view
  <2>1. LineOK' /\ TextsOK' /\ HistoryOK' /\ SearchOK' /\ PromptsOK' /\ ViewOK'
    BY <1>1, Untouched DEF vars, recall, pasting
  <2>2. FlagsOK'
    BY <1>1 DEF vars, pasting, IInv, FlagsOK
  <2> QED BY <2>1, <2>2 DEF IInv
<1>2. CASE EnterPrints
  BY <1>2, EnterStep DEF EnterPrints
<1>3. CASE KeyPressed
  BY <1>3, KeysStep DEF KeyPressed
<1>4. CASE Printed \/ Resized \/ UNCHANGED screenVars
  BY <1>1, <1>4 DEF Printed, Resized, screenVars
<1>5. CASE Clear
  BY <1>5, ClearStep
<1>6. CASE ExportView
  BY <1>6, ExportViewStep
<1>7. CASE ImportView
  BY <1>7, ImportViewStep
<1> QED BY <1>2, <1>3, <1>4, <1>5, <1>6, <1>7 DEF ScreenNext

(* Whatever keys are pressed and whatever the terminal calls meanwhile, the *)
(* command line keeps its invariant (terminal.js:933-1343, 1398-1760).     *)
LEMMA Invariance == ScreenSpec => []IInv
BY InitIInv, NextIInv, PTL DEF ScreenSpec

(* The position stays within the command, although most keys change it      *)
(* without asking `position` to limit it, every history within its size,   *)
(* and every variable keeps its type (terminal.js:785-925, 1398-1760).     *)
THEOREM TypeCorrect == ScreenSpec => []TypeOK
<1>1. IInv => TypeOK
  BY DEF IInv, LineOK, TextsOK, HistoryOK, SearchOK, PromptsOK, FlagsOK, TypeOK
<1> QED BY <1>1, Invariance, PTL

(* However a search ends, the prompt is the one that was asked for last:   *)
(* meanwhile it is the backup that has it (terminal.js:1012-1017,          *)
(* 1331-1343, 1444-1463).                                                  *)
THEOREM PromptsComeBack == ScreenSpec => []PromptComesBack
<1>1. IInv => PromptComesBack
  BY DEF IInv, PromptsOK, PromptComesBack
<1> QED BY <1>1, Invariance, PTL

-----------------------------------------------------------------------------
(* What a kill key takes out.                                              *)

LEMMA KilledFitsIn ==
  ASSUME LineOK, NEW a \in 0..Len(command), NEW b \in a..Len(command), Killed(a, b)
  PROVE  command = Left(command', position') \o kill_text' \o From(command', position')
<1> DEFINE u == Left(command, a) \o From(command, b)
<1>1. command \in Seq(Chars) /\ Len(command) \in Nat /\ b \in 0..Len(command)
  BY LenProperties DEF LineOK, Lines
<1>2. Left(u, a) = Left(command, a) /\ From(u, a) = From(command, b)
  BY <1>1, Joined
<1>3. command' = u /\ position' = a /\ kill_text' = SubSeq(command, a + 1, b)
  BY DEF Killed, Cut
<1>4. command = Left(command, a) \o SubSeq(command, a + 1, b) \o From(command, b)
  BY <1>1, PutBack
<1> HIDE DEF u
<1> QED BY <1>2, <1>3, <1>4

(* Only the three kill keys put something aside. *)
LEMMA OnlyKillKeysKill ==
  ASSUME ScreenNext, kill_text' # kill_text
  PROVE  KillWord \/ KillToEnd \/ KillToStart
<1>1. ~Enter
  BY DEF Enter
<1>2. /\ \A c : ~Type(c) /\ ~TypeAlt(c)
      /\ ~ShiftEnter /\ ~Backspace /\ ~CtrlH /\ ~Delete /\ ~AltD
  BY DEF Type, TypeAlt, ShiftEnter, Backspace, CtrlH, Delete, AltD
<1>3. /\ \A key : ~Up(key) /\ ~Down(key) /\ ~Move(key) /\ ~Release(key)
      /\ ~CtrlR /\ ~CtrlG /\ ~Escape /\ ~Shift
  BY DEF Up, Down, Move, Release, CtrlR, CtrlG, Escape, Shift
<1>4. /\ ~Yank /\ ~PasteTimer /\ \A text : ~Paste(text)
      /\ \A method : ~Called(method)
  BY DEF Yank, PasteTimer, Paste, Called
<1>5. ~EnterPrints /\ ~Printed /\ ~Resized /\ ~Clear /\ ~ExportView /\ ~ImportView
  BY <1>1 DEF EnterPrints, Printed, Resized, Clear, ExportView, ImportView, SetLine, vars
<1>6. Keys
  BY <1>5 DEF ScreenNext, KeyPressed
<1> QED BY <1>2, <1>3, <1>4, <1>6 DEF Keys, SetPrompt, SetName, Purge, EnableHistory, Enable

(* What a kill key puts aside is exactly what it takes out at the cursor,  *)
(* so that CTRL+Y puts the command together again (terminal.js:1524-1573,  *)
(* 1626-1654).                                                             *)
THEOREM KillsTakeOut == ScreenSpec => KillTakesOut
<1> DEFINE Takes == kill_text' \notin {kill_text, None} =>
              command = Left(command', position') \o kill_text' \o From(command', position')
<1>1. IInv /\ [ScreenNext]_screenVars => [Takes]_vars
  <2> SUFFICES ASSUME IInv, [ScreenNext]_screenVars, kill_text' \notin {kill_text, None}
               PROVE  command = Left(command', position') \o kill_text' \o From(command', position')
    OBVIOUS
  <2>1. ScreenNext
    BY DEF screenVars, vars
  <2>2. KillWord \/ KillToEnd \/ KillToStart
    BY <2>1, OnlyKillKeysKill
  <2>3. \E a \in 0..Len(command) : \E b \in a..Len(command) : Killed(a, b)
    BY <2>2, KillKeysCut
  <2> QED BY <2>3, KilledFitsIn DEF IInv
<1>2. KillTakesOut <=> [][Takes]_vars
  BY DEF KillTakesOut
<1> QED BY <1>1, <1>2, Invariance, PTL DEF ScreenSpec

-----------------------------------------------------------------------------
(* Loops.                                                                  *)

LEMMA Reaches ==
  ASSUME NEW n \in Nat, NEW S, 0 \in S, \A i \in 1..n : i - 1 \in S => i \in S
  PROVE  \A i \in 0..n : i \in S
<1> DEFINE B == {i \in 0..n : i \notin S}
<1> SUFFICES ASSUME B # {} PROVE FALSE
  OBVIOUS
<1>1. PICK m \in B : \A i \in B : m <= i
  <2>1. B \in SUBSET Nat
    OBVIOUS
  <2> HIDE DEF B
  <2> QED BY <2>1, LeastNatural
<1>2. m \in 1..n /\ m - 1 \in 0..n
  BY <1>1
<1>3. m - 1 \in S
  BY <1>1, <1>2
<1> QED BY <1>1, <1>2, <1>3

\* The steps of a loop of n turns over states S; f has its state after each.
Steps(S, n) == [S \X (1..n) -> S]

IsLoop(f, S, start, n, step) ==
  f \in [0..n -> S] /\ f[0] = start /\ \A i \in 1..n : f[i] = step[<<f[i - 1], i>>]

(* Every loop has its states. *)
LEMMA LoopExists ==
  ASSUME NEW S, NEW start \in S, NEW n \in Nat, NEW step \in Steps(S, n)
  PROVE  \E f : IsLoop(f, S, start, n, step)
<1>1. step \in [S \X (1..n) -> S]
  BY DEF Steps
<1> DEFINE After(f, m) == /\ f \in [0..m -> S]
                          /\ \A i \in 0..m : f[i] = IF i = 0 THEN start ELSE step[<<f[i - 1], i>>]
           Done == {m \in 0..n : \E f : After(f, m)}
<1>2. 0 \in Done
  <2>1. After([i \in 0..0 |-> start], 0)
    OBVIOUS
  <2> HIDE DEF After
  <2> QED BY <2>1
<1>3. ASSUME NEW m \in 1..n, m - 1 \in Done PROVE m \in Done
  <2>1. PICK f : After(f, m - 1)
    BY <1>3
  <2> DEFINE next == step[<<f[m - 1], m>>]
             g == [i \in 0..m |-> IF i < m THEN f[i] ELSE next]
  <2>2. f[m - 1] \in S /\ next \in S
    BY <1>1, <2>1
  <2>3. \A i \in 0..m : i < m => i \in 0..(m - 1)
    OBVIOUS
  <2>4. g \in [0..m -> S]
    <3> HIDE DEF next
    <3> QED BY <2>1, <2>2, <2>3
  <2>5. ASSUME NEW i \in 0..m PROVE g[i] = IF i = 0 THEN start ELSE step[<<g[i - 1], i>>]
    <3>1. CASE i = m
      <4>1. i # 0 /\ i - 1 \in 0..m /\ i - 1 < m
        BY <3>1
      <4> QED BY <3>1, <4>1
    <3>2. CASE i < m
      <4>1. i \in 0..(m - 1) /\ g[i] = f[i]
        BY <3>2
      <4>2. i # 0 => g[i - 1] = f[i - 1]
        BY <3>2
      <4> HIDE DEF g
      <4> QED BY <2>1, <4>1, <4>2
    <3> QED BY <3>1, <3>2
  <2>6. After(g, m)
    <3> HIDE DEF g
    <3> QED BY <2>4, <2>5
  <2> HIDE DEF After
  <2> QED BY <2>6
<1>4. n \in Done
  <2> HIDE DEF Done
  <2> QED BY <1>2, <1>3, Reaches
<1>5. PICK f : After(f, n)
  BY <1>4
<1>6. 0 \in 0..n /\ \A i \in 1..n : i \in 0..n /\ i # 0
  OBVIOUS
<1> QED BY <1>5, <1>6 DEF IsLoop

-----------------------------------------------------------------------------
(* What the output is made of.                                             *)

PrintedTexts == Seq(Nat) \ {<<>>}
LineRecords == [text : PrintedTexts, same : BOOLEAN]
Divs == [of : Nat, rows : Seq(Int)]

Displays ==
  [window : Windows, visible : BOOLEAN, outputLimit : Limits,
   num_chars : Nat, num_rows : Nat,
   lines : Seq(LineRecords), output_buffer : Seq(Divs), output : Seq(Divs),
   scroll_bars : BOOLEAN, old_size : Windows \cup {Nothing},
   timer : Seq(Windows \cup {Nothing}), due : SUBSET Nat]

(* The rows up to a div can be counted. *)
LEMMA RowsUpToIs ==
  ASSUME NEW divs \in Seq(Divs)
  PROVE  \A k \in 0..Len(divs) : RowsUpTo(divs, k) \in Nat
<1> DEFINE n == Len(divs)
           step == [p \in Nat \X (1..n) |-> p[1] + Len(divs[p[2]].rows)]
           F(f) == [i \in 0..n |-> IF i = 0 THEN 0 ELSE f[i - 1] + Len(divs[i].rows)]
           count == CHOOSE f : f = F(f)
<1>1. n \in Nat /\ \A i \in 1..n : Len(divs[i].rows) \in Nat
  <2>1. n \in Nat /\ \A i \in 1..n : divs[i] \in Divs
    BY LenProperties, ElementOfSeq
  <2>2. \A d \in Divs : Len(d.rows) \in Nat
    BY LenProperties DEF Divs
  <2> QED BY <2>1, <2>2
<1>2. step \in Steps(Nat, n)
  BY <1>1 DEF Steps
<1>3. \E f : IsLoop(f, Nat, 0, n, step)
  <2> HIDE DEF step, n
  <2> QED BY <1>1, <1>2, LoopExists
<1>4. PICK f : /\ f \in [0..n -> Nat]
               /\ f[0] = 0 /\ \A i \in 1..n : f[i] = step[<<f[i - 1], i>>]
  BY <1>3 DEF IsLoop
<1>5. f = F(f)
  <2>1. ASSUME NEW i \in 1..n PROVE step[<<f[i - 1], i>>] = f[i - 1] + Len(divs[i].rows)
    <3>1. i - 1 \in 0..n
      BY <1>1
    <3>2. f[i - 1] \in Nat
      BY <1>4, <3>1
    <3> HIDE DEF n
    <3> QED BY <3>2
  <2>2. \A i \in 0..n : f[i] = IF i = 0 THEN 0 ELSE f[i - 1] + Len(divs[i].rows)
    <3>1. \A i \in 0..n : i = 0 \/ i \in 1..n
      BY <1>1
    <3> HIDE DEF step, n
    <3> QED BY <1>4, <2>1, <3>1
  <2> HIDE DEF step, n
  <2> QED BY <1>4, <2>2
<1>6. count = F(count)
  <2> HIDE DEF F
  <2> QED BY <1>5
<1>7. \A k \in 0..n : RowsUpTo(divs, k) = count[k]
  BY DEF RowsUpTo
<1> HIDE DEF count
<1> DEFINE S == {i \in 0..n : count[i] \in Nat}
<1>8. 0 \in S
  BY <1>1, <1>6
<1>9. ASSUME NEW i \in 1..n, i - 1 \in S PROVE i \in S
  <2>1. count[i] = count[i - 1] + Len(divs[i].rows)
    BY <1>1, <1>6
  <2> HIDE DEF n
  <2> QED BY <1>1, <1>9, <2>1
<1>10. \A i \in 0..n : i \in S
  <2> HIDE DEF S, n
  <2> QED BY <1>1, <1>8, <1>9, Reaches
<1> QED BY <1>7, <1>10
(* The rows of a text one after the other are a sequence of rows. *)
LEMMA FlattenSeqIs ==
  ASSUME NEW seqs \in Seq(Seq(Int)), seqs # <<>>
  PROVE  Rows!FlattenSeq(seqs) \in Seq(Int)
<1> DEFINE n == Len(seqs) - 1
           step == [p \in Seq(Int) \X (1..n) |-> p[1] \o seqs[p[2] + 1]]
           F(f) == [i \in 1..Len(seqs) |-> IF i = 1 THEN seqs[i] ELSE f[i - 1] \o seqs[i]]
           flatten == CHOOSE f : f = F(f)
<1>1. /\ Len(seqs) \in Nat /\ Len(seqs) # 0 /\ n \in Nat
      /\ \A i \in 1..Len(seqs) : seqs[i] \in Seq(Int)
  <2>1. Len(seqs) \in Nat \ {0}
    BY EmptySeq
  <2>2. \A i \in 1..Len(seqs) : seqs[i] \in Seq(Int)
    BY ElementOfSeq
  <2> QED BY <2>1, <2>2
<1>2. step \in Steps(Seq(Int), n)
  <2>1. ASSUME NEW p \in Seq(Int) \X (1..n) PROVE p[1] \o seqs[p[2] + 1] \in Seq(Int)
    <3>1. p[1] \in Seq(Int) /\ p[2] + 1 \in 1..Len(seqs)
      BY <1>1
    <3>2. seqs[p[2] + 1] \in Seq(Int)
      BY <1>1, <3>1
    <3> QED BY <3>1, <3>2, ConcatProperties
  <2> HIDE DEF n
  <2> QED BY <2>1 DEF Steps
<1>3. \E f : IsLoop(f, Seq(Int), seqs[1], n, step)
  <2>1. seqs[1] \in Seq(Int)
    BY <1>1
  <2> HIDE DEF step, n
  <2> QED BY <1>1, <1>2, <2>1, LoopExists
<1>4. PICK f : /\ f \in [0..n -> Seq(Int)]
               /\ f[0] = seqs[1] /\ \A i \in 1..n : f[i] = step[<<f[i - 1], i>>]
  BY <1>3 DEF IsLoop
<1> DEFINE g == [i \in 1..Len(seqs) |-> f[i - 1]]
<1>5. g = F(g)
  <2>1. ASSUME NEW i \in 1..n PROVE f[i] = f[i - 1] \o seqs[i + 1]
    <3>1. i - 1 \in 0..n
      BY <1>1
    <3>2. f[i - 1] \in Seq(Int)
      BY <1>4, <3>1
    <3> HIDE DEF n
    <3> QED BY <1>4, <3>2
  <2>2. ASSUME NEW i \in 1..Len(seqs) PROVE g[i] = IF i = 1 THEN seqs[i] ELSE g[i - 1] \o seqs[i]
    <3>1. CASE i = 1
      <4> HIDE DEF step, n
      <4> QED BY <1>4, <3>1
    <3>2. CASE i # 1
      <4>1. /\ i - 1 \in 1..n /\ i - 1 \in 1..Len(seqs) /\ (i - 1) + 1 = i
        BY <1>1, <3>2
      <4>2. f[i - 1] = f[(i - 1) - 1] \o seqs[(i - 1) + 1]
        BY <2>1, <4>1
      <4> HIDE DEF step, n
      <4> QED BY <3>2, <4>1, <4>2
    <3> QED BY <3>1, <3>2
  <2> HIDE DEF step, n
  <2> QED BY <2>2
<1>6. flatten = F(flatten)
  <2> HIDE DEF F, g
  <2> QED BY <1>5
<1>7. Rows!FlattenSeq(seqs) = flatten[Len(seqs)]
  BY <1>1 DEF Rows!FlattenSeq
<1> HIDE DEF flatten
<1> DEFINE S == {i \in 0..n : flatten[i + 1] \in Seq(Int)}
<1>8. 0 \in S
  <2>1. 1 \in 1..Len(seqs) /\ 0 + 1 = 1
    BY <1>1
  <2>2. flatten[1] = seqs[1]
    BY <1>6, <2>1
  <2> QED BY <1>1, <2>1, <2>2
<1>9. ASSUME NEW i \in 1..n, i - 1 \in S PROVE i \in S
  <2>1. i + 1 \in 1..Len(seqs) /\ i + 1 # 1 /\ (i + 1) - 1 = i /\ (i - 1) + 1 = i /\ i \in 0..n
    BY <1>1
  <2>2. flatten[i + 1] = flatten[i] \o seqs[i + 1]
    BY <1>6, <2>1
  <2>3. flatten[i] \in Seq(Int) /\ seqs[i + 1] \in Seq(Int)
    BY <1>1, <1>9, <2>1
  <2>4. flatten[i + 1] \in Seq(Int)
    BY <2>2, <2>3, ConcatProperties
  <2> QED BY <2>1, <2>4
<1>10. \A i \in 0..n : i \in S
  <2> HIDE DEF S, n
  <2> QED BY <1>1, <1>8, <1>9, Reaches
<1>11. n \in 0..n /\ n + 1 = Len(seqs)
  BY <1>1
<1> QED
  <2> HIDE DEF n
  <2> QED BY <1>7, <1>10, <1>11

(* A text has rows, for any width. *)
LEMMA SplitIs ==
  ASSUME NEW text \in PrintedTexts, NEW width \in Nat
  PROVE  split_equal(text, width) \in Seq(Int)
<1>1. text \in Seq(Nat) /\ text # <<>> /\ DOMAIN text = 1..Len(text)
      /\ Len(text) \in Nat \ {0} /\ \A i \in 1..Len(text) : text[i] \in Nat
  BY LenProperties, EmptySeq, ElementOfSeq DEF PrintedTexts
<1>2. CASE width = Undefined
  <2>1. text \in Seq(Int)
    BY <1>1, SeqMonotonic
  <2> QED BY <1>2, <2>1 DEF split_equal
<1>3. CASE width # Undefined
  <2> DEFINE split(len) ==
               IF len = 0 THEN <<0>>
               ELSE [r \in 1..((len + width - 1) \div width) |->
                       IF r * width <= len THEN width ELSE len - (r - 1) * width]
             seqs == [i \in DOMAIN text |-> split(text[i])]
  <2>1. ASSUME NEW len \in Nat PROVE split(len) \in Seq(Int)
    <3>1. CASE len = 0
      BY <3>1
    <3>2. CASE len # 0
      <4> DEFINE m == (len + width - 1) \div width
      <4>1. m \in Nat
        <5>1. width \in Nat \ {0} /\ len + width - 1 \in Nat
          BY <1>3, <3>2 DEF Undefined
        <5> QED BY <5>1
      <4>2. ASSUME NEW r \in 1..m
            PROVE  (IF r * width <= len THEN width ELSE len - (r - 1) * width) \in Int
        <5> HIDE DEF m
        <5> QED BY <4>1
      <4> HIDE DEF m
      <4>3. [r \in 1..m |-> IF r * width <= len THEN width ELSE len - (r - 1) * width] \in [1..m -> Int]
        BY <4>2
      <4> QED BY <3>2, <4>1, <4>3 DEF m
    <3> QED BY <3>1, <3>2
  <2>2. seqs \in Seq(Seq(Int)) /\ Len(seqs) = Len(text)
    <3>1. \A i \in 1..Len(text) : split(text[i]) \in Seq(Int)
      BY <1>1, <2>1
    <3> HIDE DEF split
    <3> QED BY <1>1, <3>1
  <2>3. seqs # <<>>
    <3> HIDE DEF seqs
    <3> QED BY <1>1, <2>2
  <2>4. split_equal(text, width) = Rows!FlattenSeq(seqs)
    BY <1>3 DEF split_equal
  <2> HIDE DEF seqs
  <2> QED BY <2>2, <2>3, <2>4, FlattenSeqIs
<1> QED BY <1>2, <1>3

(* What outputLimit leaves are the last divs, the first of them maybe cut. *)
IsEndOf(u, divs) ==
  /\ u \in Seq(Divs)
  /\ \E b \in 0..Len(divs) :
       /\ Len(u) = Len(divs) - b
       /\ \A k \in 1..Len(u) : /\ u[k].of = divs[b + k].of
                               /\ k > 1 => u[k] = divs[b + k]

LEMMA WithoutRowsIs ==
  ASSUME NEW divs \in Seq(Divs), NEW n \in Int
  PROVE  IsEndOf(WithoutRows(divs, n), divs)
<1> DEFINE left == {k \in DOMAIN divs : RowsUpTo(divs, k) > n}
           first == CHOOSE k \in left : \A j \in left : k <= j
           gone == n - RowsUpTo(divs, first - 1)
           cut == IF gone <= 0 THEN divs[first]
                  ELSE [divs[first] EXCEPT !.rows = SubSeq(@, gone + 1, Len(@))]
           rest == SubSeq(divs, first + 1, Len(divs))
<1>1. /\ Len(divs) \in Nat /\ DOMAIN divs = 1..Len(divs)
      /\ \A i \in 1..Len(divs) : divs[i] \in Divs
  BY LenProperties, ElementOfSeq
<1>2. WithoutRows(divs, n) = IF left = {} THEN <<>> ELSE <<cut>> \o rest
  BY DEF WithoutRows
<1>3. CASE left = {}
  <2>1. WithoutRows(divs, n) = <<>> /\ <<>> \in Seq(Divs) /\ Len(<<>>) = 0
    BY <1>2, <1>3, EmptySeq
  <2>2. Len(divs) \in 0..Len(divs) /\ Len(divs) - Len(divs) = 0
    BY <1>1
  <2> QED BY <2>1, <2>2 DEF IsEndOf
<1>4. CASE left # {}
  <2>1. first \in 1..Len(divs)
    <3>1. left \in SUBSET Nat /\ left \subseteq 1..Len(divs)
      BY <1>1
    <3>2. \E k \in left : \A j \in left : k <= j
      <4> HIDE DEF left
      <4> QED BY <1>4, <3>1, LeastNatural
    <3>3. first \in left
      <4> HIDE DEF left
      <4> QED BY <3>2
    <3> HIDE DEF left, first
    <3> QED BY <3>1, <3>3
  <2> HIDE DEF left, first
  <2>2. gone \in Int
    <3>1. first - 1 \in 0..Len(divs)
      BY <1>1, <2>1
    <3>2. RowsUpTo(divs, first - 1) \in Nat
      BY <3>1, RowsUpToIs
    <3> QED BY <3>2
  <2> HIDE DEF gone
  <2>3. cut \in Divs /\ cut.of = divs[first].of
    <3>1. divs[first] \in Divs
      BY <1>1, <2>1
    <3>2. CASE gone <= 0
      BY <3>1, <3>2
    <3>3. CASE ~(gone <= 0)
      <4> DEFINE all == divs[first].rows
                 some == SubSeq(all, gone + 1, Len(all))
      <4>1. all \in Seq(Int) /\ Len(all) \in Nat /\ \A i \in 1..Len(all) : all[i] \in Int
        BY <3>1, LenProperties, ElementOfSeq DEF Divs
      <4>2. gone + 1 \in Int /\ \A i \in (gone + 1)..Len(all) : all[i] \in Int
        BY <2>2, <3>3, <4>1
      <4>3. some \in Seq(Int)
        <5> HIDE DEF all
        <5>1. Len(all) \in Int
          BY <4>1
        <5> QED BY <4>2, <5>1, SubSeqProperties
      <4>4. cut = [divs[first] EXCEPT !.rows = some]
        BY <3>3
      <4> HIDE DEF cut, some
      <4> QED BY <3>1, <4>3, <4>4 DEF Divs
    <3> QED BY <3>2, <3>3
  <2> HIDE DEF cut
  <2>4. /\ rest \in Seq(Divs) /\ Len(rest) = Len(divs) - first
        /\ \A i \in 1..(Len(divs) - first) : rest[i] = divs[first + i]
    <3>1. /\ first + 1 \in Int /\ Len(divs) \in Int
          /\ \A i \in (first + 1)..Len(divs) : divs[i] \in Divs
      BY <1>1, <2>1
    <3>2. /\ rest \in Seq(Divs)
          /\ Len(rest) = IF first + 1 <= Len(divs) THEN Len(divs) - (first + 1) + 1 ELSE 0
          /\ \A i \in 1..(Len(divs) - (first + 1) + 1) : rest[i] = divs[first + 1 + i - 1]
      BY <3>1, SubSeqProperties
    <3> HIDE DEF rest
    <3>3. Len(rest) = Len(divs) - first
      <4>1. /\ first + 1 <= Len(divs) => Len(divs) - (first + 1) + 1 = Len(divs) - first
            /\ ~(first + 1 <= Len(divs)) => 0 = Len(divs) - first
        <5>1. \A l \in Nat : \A f \in 1..l :
                /\ f + 1 <= l => l - (f + 1) + 1 = l - f
                /\ ~(f + 1 <= l) => 0 = l - f
          OBVIOUS
        <5> QED BY <1>1, <2>1, <5>1, Zenon
      <4> QED BY <3>2, <4>1
    <3>4. ASSUME NEW i \in 1..(Len(divs) - first) PROVE rest[i] = divs[first + i]
      <4>1. i \in 1..(Len(divs) - (first + 1) + 1) /\ first + 1 + i - 1 = first + i
        BY <1>1, <2>1
      <4> QED BY <3>2, <4>1
    <3> QED BY <3>2, <3>3, <3>4
  <2> HIDE DEF rest
  <2> DEFINE u == <<cut>> \o rest
             b == first - 1
  <2>5. /\ <<cut>> \in Seq(Divs) /\ Len(<<cut>>) = 1 /\ <<cut>>[1] = cut
    BY <2>3
  <2>6. /\ u \in Seq(Divs) /\ Len(u) = 1 + Len(rest)
        /\ \A k \in 1..(1 + Len(rest)) : u[k] = IF k <= 1 THEN <<cut>>[k] ELSE rest[k - 1]
    BY <2>4, <2>5, ConcatProperties
  <2> HIDE DEF u
  <2>7. b \in 0..Len(divs) /\ Len(u) = Len(divs) - b
    BY <1>1, <2>1, <2>4, <2>6
  <2>8. ASSUME NEW k \in 1..Len(u)
        PROVE  u[k].of = divs[b + k].of /\ (k > 1 => u[k] = divs[b + k])
    <3>1. CASE k = 1
      <4>1. u[k] = cut /\ b + k = first
        BY <2>1, <2>5, <2>6, <3>1
      <4> QED BY <2>3, <3>1, <4>1
    <3>2. CASE k # 1
      <4>1. k - 1 \in 1..(Len(divs) - first) /\ first + (k - 1) = b + k /\ ~(k <= 1)
            /\ k \in 1..(1 + Len(rest))
        BY <1>1, <2>1, <2>4, <2>6, <3>2
      <4>2. u[k] = rest[k - 1]
        BY <2>6, <4>1
      <4> HIDE DEF b
      <4> QED BY <2>4, <4>1, <4>2
    <3> QED BY <3>1, <3>2
  <2>9. WithoutRows(divs, n) = u
    BY <1>2, <1>4 DEF u
  <2> HIDE DEF b
  <2> QED BY <2>6, <2>7, <2>8, <2>9 DEF IsEndOf
<1> QED BY <1>3, <1>4

-----------------------------------------------------------------------------
(* The invariant of the output.                                            *)

\* Div d is above div e: its line is an earlier one, if e has a line.
Above(d, e) == e.of # 0 => d.of < e.of
InOrder(q) == \A j, k \in 1..Len(q) : j < k => Above(q[j], q[k])

Shows(t, i) ==
  t.lines[i].same /\ t.lines[i].text # Empty =>
    \E k \in 1..Len(t.output) : t.output[k] = Whole(t, i)

\* The divs on the page and in the buffer are of lines there are, in order and
\* whole but for the first on the page.
Placed(t) ==
  /\ \A k \in 1..Len(t.output) : t.output[k].of <= Len(t.lines)
  /\ \A k \in 1..Len(t.output_buffer) : t.output_buffer[k].of <= Len(t.lines)
  /\ InOrder(t.output) /\ InOrder(t.output_buffer)
  /\ \A j \in 1..Len(t.output), k \in 1..Len(t.output_buffer) :
       Above(t.output[j], t.output_buffer[k])
  /\ \A k \in 1..Len(t.output) : k > 1 => Right(t, t.output[k])
  /\ \A k \in 1..Len(t.output_buffer) : Right(t, t.output_buffer[k])

\* Without a limit all lines that are due are on the page.
NoneMissing(t) ==
  /\ t.due \subseteq 1..Len(t.lines)
  /\ Unlimited(t) => \A i \in t.due : Shows(t, i)

Orderly(t) == Placed(t) /\ NoneMissing(t)

\* What the rows of a line and the limit depend on.
SameLines(s, t) ==
  /\ s.lines = t.lines /\ s.num_chars = t.num_chars
  /\ s.num_rows = t.num_rows /\ s.outputLimit = t.outputLimit

(* The same lines have the same rows. *)
LEMMA SameRows ==
  ASSUME NEW s, NEW t, SameLines(s, t)
  PROVE  /\ Unlimited(s) <=> Unlimited(t)
         /\ Limit(s) = Limit(t)
         /\ \A i : Whole(s, i) = Whole(t, i)
         /\ \A d : Right(s, d) <=> Right(t, d)
         /\ s.output = t.output => \A i : Shows(s, i) <=> Shows(t, i)
<1>1. (Unlimited(s) <=> Unlimited(t)) /\ Limit(s) = Limit(t)
  BY DEF SameLines, Unlimited, Limit
<1>2. \A i : Whole(s, i) = Whole(t, i)
  BY DEF SameLines, Whole
<1>3. \A d : Right(s, d) <=> Right(t, d)
  BY <1>2 DEF SameLines, Right
<1>4. ASSUME s.output = t.output, NEW i PROVE Shows(s, i) <=> Shows(t, i)
  BY <1>2, <1>4 DEF SameLines, Shows
<1> QED BY <1>1, <1>2, <1>3, <1>4

LEMMA DisplayTypes ==
  ASSUME NEW t \in Displays
  PROVE  /\ t.window \in Windows /\ t.visible \in BOOLEAN /\ t.outputLimit \in Int
         /\ t.num_chars \in Nat /\ t.num_rows \in Nat
         /\ t.lines \in Seq(LineRecords) /\ Len(t.lines) \in Nat
         /\ DOMAIN t.lines = 1..Len(t.lines)
         /\ \A i \in 1..Len(t.lines) : t.lines[i] \in LineRecords
         /\ t.output \in Seq(Divs) /\ Len(t.output) \in Nat
         /\ DOMAIN t.output = 1..Len(t.output)
         /\ \A i \in 1..Len(t.output) : t.output[i] \in Divs
         /\ t.output_buffer \in Seq(Divs) /\ Len(t.output_buffer) \in Nat
         /\ DOMAIN t.output_buffer = 1..Len(t.output_buffer)
         /\ \A i \in 1..Len(t.output_buffer) : t.output_buffer[i] \in Divs
         /\ t.due \in SUBSET Nat /\ Limit(t) \in Int
<1>1. /\ t.window \in Windows /\ t.visible \in BOOLEAN /\ t.outputLimit \in Int
      /\ t.num_chars \in Nat /\ t.num_rows \in Nat
      /\ t.lines \in Seq(LineRecords) /\ t.output \in Seq(Divs) /\ t.output_buffer \in Seq(Divs)
      /\ t.due \in SUBSET Nat
  BY TerminalOutputAssumption DEF Displays
<1>2. Limit(t) \in Int
  BY <1>1 DEF Limit
<1>3. /\ Len(t.lines) \in Nat /\ DOMAIN t.lines = 1..Len(t.lines)
      /\ Len(t.output) \in Nat /\ DOMAIN t.output = 1..Len(t.output)
      /\ Len(t.output_buffer) \in Nat /\ DOMAIN t.output_buffer = 1..Len(t.output_buffer)
  BY <1>1, LenProperties
<1>4. /\ \A i \in 1..Len(t.lines) : t.lines[i] \in LineRecords
      /\ \A i \in 1..Len(t.output) : t.output[i] \in Divs
      /\ \A i \in 1..Len(t.output_buffer) : t.output_buffer[i] \in Divs
  BY <1>1, ElementOfSeq
<1> QED BY <1>1, <1>2, <1>3, <1>4

(* outputLimit keeps the order and the wholeness. *)
LEMMA LimitedOK ==
  ASSUME NEW t \in Displays, Placed(t)
  PROVE  /\ Limited(t) \in Displays /\ Placed(Limited(t)) /\ SameLines(Limited(t), t)
         /\ Limited(t).output_buffer = t.output_buffer /\ Limited(t).due = t.due
         /\ Unlimited(t) => Limited(t) = t
<1> DEFINE s == Limited(t)
           rows == RowCount(t.output)
           max == Len(t.lines) - Limit(t) + 1
           w == WithoutRows(t.output, IF max < 0 THEN rows + max ELSE max)
<1>1. CASE Unlimited(t) \/ rows <= Limit(t)
  <2>1. Limited(t) = t
    BY <1>1 DEF Limited
  <2> QED BY <2>1 DEF SameLines
<1>2. CASE ~(Unlimited(t) \/ rows <= Limit(t))
  <2>1. s = [t EXCEPT !.output = w]
    BY <1>2 DEF Limited
  <2>2. IsEndOf(w, t.output)
    <3>1. rows \in Nat
      <4>1. Len(t.output) \in 0..Len(t.output)
        BY DisplayTypes
      <4> QED BY <4>1, RowsUpToIs, DisplayTypes DEF RowCount
    <3> HIDE DEF rows
    <3>2. (IF max < 0 THEN rows + max ELSE max) \in Int
      BY <3>1, DisplayTypes
    <3> HIDE DEF max
    <3> QED BY <3>2, WithoutRowsIs, DisplayTypes
  <2> HIDE DEF w, s
  <2>3. w \in Seq(Divs)
    BY <2>2 DEF IsEndOf
  <2>4. /\ s \in Displays /\ SameLines(s, t) /\ s.output = w
        /\ s.output_buffer = t.output_buffer /\ s.due = t.due
    BY <2>1, <2>3 DEF Displays, SameLines
  <2>5. PICK b \in 0..Len(t.output) :
          /\ Len(w) = Len(t.output) - b
          /\ \A k \in 1..Len(w) : w[k].of = t.output[b + k].of /\ (k > 1 => w[k] = t.output[b + k])
    BY <2>2 DEF IsEndOf
  <2>6. \A k \in 1..Len(w) : b + k \in 1..Len(t.output) /\ (k > 1 => b + k > 1)
    <3>1. Len(t.output) \in Nat
      BY DisplayTypes
    <3> QED BY <2>5, <3>1
  <2>7. \A j, k \in 1..Len(w) : j < k => b + j < b + k
    OBVIOUS
  <2>8. Placed(s)
    <3>2. /\ \A k \in 1..Len(s.output) : s.output[k].of <= Len(s.lines)
          /\ \A k \in 1..Len(s.output_buffer) : s.output_buffer[k].of <= Len(s.lines)
      BY <2>4, <2>5, <2>6 DEF Placed, SameLines
    <3>3. InOrder(s.output) /\ InOrder(s.output_buffer)
      BY <2>4, <2>5, <2>6, <2>7 DEF Placed, InOrder, Above
    <3>4. \A j \in 1..Len(s.output), k \in 1..Len(s.output_buffer) :
            Above(s.output[j], s.output_buffer[k])
      BY <2>4, <2>5, <2>6 DEF Placed, Above
    <3>5. /\ \A k \in 1..Len(s.output) : k > 1 => Right(s, s.output[k])
          /\ \A k \in 1..Len(s.output_buffer) : Right(s, s.output_buffer[k])
      <4>1. \A d : Right(s, d) <=> Right(t, d)
        BY <2>4, SameRows
      <4> QED BY <2>4, <2>5, <2>6, <4>1 DEF Placed
    <3> QED BY <3>2, <3>3, <3>4, <3>5 DEF Placed
  <2> QED BY <1>2, <2>4, <2>8 DEF s
<1> QED BY <1>1, <1>2

(* flush moves the buffer to the page. *)
LEMMA FlushOK ==
  ASSUME NEW t \in Displays, Placed(t)
  PROVE  /\ flush(t) \in Displays /\ Placed(flush(t)) /\ SameLines(flush(t), t)
         /\ NoneMissing(t) => NoneMissing(flush(t))
         /\ flush(t).output_buffer = <<>>
         /\ Unlimited(t) => flush(t).output = t.output \o t.output_buffer
<1> DEFINE all == t.output \o t.output_buffer
           due == (t.due \cup {t.output_buffer[k].of : k \in DOMAIN t.output_buffer}) \ {0}
           s == [t EXCEPT !.output = all, !.output_buffer = <<>>, !.due = due]
           n == Len(t.output)
           m == Len(t.output_buffer)
<1>1. flush(t) = Limited(s)
  BY DEF flush
<1>2. /\ all \in Seq(Divs) /\ Len(all) = n + m
      /\ \A i \in 1..(n + m) : all[i] = IF i <= n THEN t.output[i] ELSE t.output_buffer[i - n]
  BY DisplayTypes, ConcatProperties
<1>3. n \in Nat /\ m \in Nat /\ DOMAIN t.output_buffer = 1..m
  BY DisplayTypes
<1>4. due \in SUBSET Nat /\ <<>> \in Seq(Divs) /\ Len(<<>>) = 0
  <2>1. \A k \in 1..m : t.output_buffer[k].of \in Nat
    BY DisplayTypes DEF Divs
  <2> QED BY <1>3, <2>1, DisplayTypes, EmptySeq
<1> DEFINE o == all
<1> HIDE DEF o
<1>5. /\ s \in Displays /\ SameLines(s, t) /\ s.output = all /\ s.output_buffer = <<>>
      /\ s.due = due
  <2> HIDE DEF all, due
  <2> QED BY <1>2, <1>4 DEF Displays, SameLines
<1> HIDE DEF s, all
<1>6. \A i \in 1..(n + m) :
        \/ i \in 1..n /\ all[i] = t.output[i]
        \/ ~(i \in 1..n) /\ i - n \in 1..m /\ all[i] = t.output_buffer[i - n]
  <2>1. \A i \in 1..(n + m) : (i <= n => i \in 1..n) /\ (~(i <= n) => ~(i \in 1..n) /\ i - n \in 1..m)
    <3> HIDE DEF n, m
    <3> QED BY <1>3
  <2> HIDE DEF n, m
  <2> QED BY <1>2, <2>1
<1>7. \A k \in 1..m : n + k \in 1..(n + m) /\ all[n + k] = t.output_buffer[k]
  <2>1. ASSUME NEW k \in 1..m PROVE n + k \in 1..(n + m) /\ ~(n + k <= n) /\ (n + k) - n = k
    <3> HIDE DEF n, m
    <3> QED BY <1>3
  <2> HIDE DEF n, m
  <2> QED BY <1>2, <2>1
<1>8. \A k \in 1..n : k \in 1..(n + m) /\ all[k] = t.output[k]
  <2>1. \A k \in 1..n : k \in 1..(n + m) /\ k <= n
    <3> HIDE DEF n, m
    <3> QED BY <1>3
  <2> HIDE DEF n, m
  <2> QED BY <1>2, <2>1
<1>9. Placed(s)
  <2>1. /\ \A k \in 1..Len(s.output) : s.output[k].of <= Len(s.lines)
        /\ \A k \in 1..Len(s.output_buffer) : s.output_buffer[k].of <= Len(s.lines)
    <3>1. \A k \in 1..(n + m) : all[k].of <= Len(t.lines)
      BY <1>6 DEF Placed
    <3> HIDE DEF n, m
    <3> QED BY <1>2, <1>4, <1>5, <3>1 DEF SameLines
  <2>2. InOrder(s.output)
    <3> SUFFICES ASSUME NEW j \in 1..(n + m), NEW k \in 1..(n + m), j < k
                 PROVE  Above(all[j], all[k])
      BY <1>2, <1>5 DEF InOrder
    <3>1. CASE j \in 1..n /\ k \in 1..n
      BY <1>8, <3>1 DEF Placed, InOrder
    <3>2. CASE j \in 1..n /\ ~(k \in 1..n)
      BY <1>6, <3>2 DEF Placed
    <3>3. CASE ~(j \in 1..n) /\ ~(k \in 1..n)
      <4>1. j - n \in 1..m /\ k - n \in 1..m /\ j - n < k - n
        <5> HIDE DEF n, m
        <5> QED BY <1>3, <3>3
      <4> QED BY <1>6, <3>3, <4>1 DEF Placed, InOrder
    <3>4. ~(~(j \in 1..n) /\ k \in 1..n)
      BY <1>3
    <3> QED BY <3>1, <3>2, <3>3, <3>4
  <2>3. InOrder(s.output_buffer)
        /\ \A j \in 1..Len(s.output), k \in 1..Len(s.output_buffer) :
             Above(s.output[j], s.output_buffer[k])
    BY <1>4, <1>5 DEF InOrder
  <2>4. /\ \A k \in 1..Len(s.output) : k > 1 => Right(s, s.output[k])
        /\ \A k \in 1..Len(s.output_buffer) : Right(s, s.output_buffer[k])
    <3>1. \A d : Right(s, d) <=> Right(t, d)
      BY <1>5, SameRows
    <3>2. \A k \in 1..(n + m) : k > 1 => Right(t, all[k])
      BY <1>6 DEF Placed
    <3> HIDE DEF n, m
    <3> QED BY <1>2, <1>4, <1>5, <3>1, <3>2
  <2> QED BY <2>1, <2>2, <2>3, <2>4 DEF Placed
<1>10. ASSUME NoneMissing(t) PROVE NoneMissing(s)
  <2>1. s.due \subseteq 1..Len(s.lines)
    <3>1. ASSUME NEW i \in due PROVE i \in 1..Len(t.lines)
      <4>1. CASE i \in t.due
        BY <1>10, <4>1 DEF NoneMissing
      <4>2. CASE i \notin t.due
        <5>1. PICK k \in 1..m : i = t.output_buffer[k].of
          BY <1>3, <3>1, <4>2
        <5>2. i \in Nat /\ i # 0 /\ i <= Len(t.lines) /\ Len(t.lines) \in Nat
          BY <1>4, <3>1, <5>1, DisplayTypes DEF Placed
        <5> QED BY <5>2
      <4> QED BY <4>1, <4>2
    <3> QED BY <1>5, <3>1 DEF SameLines
  <2>2. ASSUME Unlimited(s), NEW i \in s.due PROVE Shows(s, i)
    <3>1. Unlimited(t) /\ i \in due /\ Whole(s, i) = Whole(t, i)
      BY <1>5, <2>2, SameRows
    <3>2. CASE i \in t.due
      <4>1. Shows(t, i)
        BY <1>10, <3>1, <3>2 DEF NoneMissing
      <4> QED BY <1>2, <1>5, <1>8, <3>1, <4>1 DEF Shows, SameLines
    <3>3. CASE i \notin t.due
      <4>1. PICK k \in 1..m : i = t.output_buffer[k].of /\ i # 0
        BY <1>3, <3>1, <3>3
      <4>2. t.lines[i].same => t.output_buffer[k] = Whole(t, i)
        BY <4>1 DEF Placed, Right
      <4>3. n + k \in 1..Len(s.output) /\ s.output[n + k] = t.output_buffer[k]
        BY <1>2, <1>5, <1>7
      <4> QED BY <1>5, <3>1, <4>2, <4>3 DEF Shows, SameLines
    <3> QED BY <3>2, <3>3
  <2> QED BY <2>1, <2>2 DEF NoneMissing
<1>11. /\ Limited(s) \in Displays /\ Placed(Limited(s)) /\ SameLines(Limited(s), s)
       /\ Limited(s).output_buffer = s.output_buffer /\ Limited(s).due = s.due
       /\ Unlimited(s) => Limited(s) = s
  BY <1>5, <1>9, LimitedOK
<1>12. /\ Unlimited(s) <=> Unlimited(t)
       /\ Unlimited(Limited(s)) <=> Unlimited(s)
  BY <1>5, <1>11, SameRows
<1>13. NoneMissing(s) => NoneMissing(Limited(s))
  BY <1>11, <1>12 DEF NoneMissing, SameLines
<1> QED BY <1>1, <1>5, <1>10, <1>11, <1>12, <1>13 DEF SameLines, all

(* A line that is not empty is put at the end of the buffer. *)
LEMMA ProcessLineIs ==
  ASSUME NEW t \in Displays, NEW i \in Nat, NEW text \in PrintedTexts
  PROVE  LET s == process_line(t, i, text)
             d == [of |-> i, rows |-> split_equal(text, t.num_chars)]
         IN /\ s \in Displays /\ SameLines(s, t) /\ s.output = t.output /\ s.due = t.due
            /\ d \in Divs
            /\ s.output_buffer = IF text = Empty THEN t.output_buffer
                                 ELSE Append(t.output_buffer, d)
<1> DEFINE d == [of |-> i, rows |-> split_equal(text, t.num_chars)]
           b == Append(t.output_buffer, d)
<1>1. d \in Divs
  BY SplitIs, DisplayTypes DEF Divs
<1> HIDE DEF d
<1>2. b \in Seq(Divs)
  BY <1>1, AppendProperties, DisplayTypes
<1>3. process_line(t, i, text) = IF text = Empty THEN t ELSE [t EXCEPT !.output_buffer = b]
  BY DEF process_line, d
<1>4. CASE text = Empty
  <2>1. process_line(t, i, text) = t
    BY <1>3, <1>4
  <2> QED BY <1>1, <1>4, <2>1 DEF SameLines, d
<1>5. CASE text # Empty
  <2>1. process_line(t, i, text) = [t EXCEPT !.output_buffer = b]
    BY <1>3, <1>5
  <2> DEFINE s == process_line(t, i, text)
  <2>2. s \in Displays /\ SameLines(s, t) /\ s.output = t.output /\ s.due = t.due
        /\ s.output_buffer = b
    <3> HIDE DEF b
    <3> QED BY <1>2, <2>1 DEF Displays, SameLines
  <2> HIDE DEF s
  <2> QED BY <1>1, <1>5, <2>2 DEF s, d
<1> QED BY <1>4, <1>5

\* The divs of the lines from number `first` to number `last`, all whole.
IsDrawn(q, t, first, last) ==
  /\ \A k \in 1..Len(q) : q[k].of \in first..last /\ q[k] = Whole(t, q[k].of)
  /\ InOrder(q)
  /\ \A i \in first..last : t.lines[i].text # Empty => \E k \in 1..Len(q) : q[k] = Whole(t, i)

(* One more line is drawn. *)
LEMMA DrawnOneMore ==
  ASSUME NEW t, NEW q \in Seq(Divs), NEW first \in Nat, NEW last \in Nat, first > 0,
         first <= last + 1, IsDrawn(q, t, first, last), Whole(t, last + 1) \in Divs
  PROVE  IsDrawn(IF t.lines[last + 1].text = Empty THEN q ELSE Append(q, Whole(t, last + 1)),
                 t, first, last + 1)
<1> DEFINE n == Len(q)
           d == Whole(t, last + 1)
<1>1. n \in Nat /\ d.of = last + 1
  BY LenProperties DEF Whole
<1>2. \A i \in first..(last + 1) : i \in first..last \/ i = last + 1
  OBVIOUS
<1>3. \A i \in first..last : i \in first..(last + 1) /\ i < last + 1
  OBVIOUS
<1>4. last + 1 \in first..(last + 1)
  OBVIOUS
<1>5. CASE t.lines[last + 1].text = Empty
  BY <1>2, <1>3, <1>5 DEF IsDrawn
<1>6. CASE t.lines[last + 1].text # Empty
  <2> DEFINE r == Append(q, d)
  <2>1. Len(r) = n + 1 /\ r[n + 1] = d /\ \A i \in 1..n : r[i] = q[i]
    BY AppendProperties
  <2>2. /\ \A k \in 1..(n + 1) : k \in 1..n \/ k = n + 1
        /\ \A k \in 1..n : k \in 1..(n + 1) /\ ~(n + 1 < k)
        /\ n + 1 \in 1..(n + 1) /\ ~(n + 1 < n + 1)
    <3> HIDE DEF n
    <3> QED BY <1>1
  <2> HIDE DEF r, n, d
  <2>3. ASSUME NEW k \in 1..Len(r) PROVE r[k].of \in first..(last + 1) /\ r[k] = Whole(t, r[k].of)
    <3>1. CASE k \in 1..n
      BY <1>3, <2>1, <2>2, <3>1 DEF IsDrawn, n
    <3>2. CASE k = n + 1
      BY <1>1, <1>4, <2>1, <3>2 DEF d
    <3> QED BY <2>1, <2>2, <3>1, <3>2
  <2>4. ASSUME NEW j \in 1..Len(r), NEW k \in 1..Len(r), j < k PROVE Above(r[j], r[k])
    <3>1. CASE k \in 1..n
      <4>1. j \in 1..n
        BY <1>1, <2>1, <2>4, <3>1
      <4> QED BY <2>1, <2>4, <3>1, <4>1 DEF IsDrawn, InOrder, n
    <3>2. CASE k = n + 1
      <4>1. j \in 1..n
        BY <1>1, <2>1, <2>4, <3>2
      <4>2. r[j].of \in first..last
        BY <2>1, <4>1 DEF IsDrawn, n
      <4> QED BY <1>1, <1>3, <2>1, <3>2, <4>2 DEF Above
    <3> QED BY <2>1, <2>2, <3>1, <3>2
  <2>5. ASSUME NEW i \in first..(last + 1), t.lines[i].text # Empty
        PROVE  \E k \in 1..Len(r) : r[k] = Whole(t, i)
    <3>1. CASE i \in first..last
      <4>1. PICK k \in 1..n : q[k] = Whole(t, i)
        BY <2>5, <3>1 DEF IsDrawn, n
      <4> QED BY <2>1, <2>2, <4>1
    <3>2. CASE i = last + 1
      BY <2>1, <2>2, <3>2 DEF d
    <3> QED BY <1>2, <3>1, <3>2
  <2>6. IsDrawn(r, t, first, last + 1)
    BY <2>3, <2>4, <2>5 DEF IsDrawn, InOrder
  <2> QED BY <1>6, <2>6 DEF r, d
<1> QED BY <1>5, <1>6

(* The loop of redraw draws all lines from the first to show. *)
LEMMA ProcessedIs ==
  ASSUME NEW t \in Displays, t.output_buffer = <<>>, NEW first \in 1..(Len(t.lines) + 1)
  PROVE  LET s == Processed(t, first)
         IN /\ s \in Displays /\ SameLines(s, t) /\ s.output = t.output /\ s.due = t.due
            /\ IsDrawn(s.output_buffer, t, first, Len(t.lines))
<1> DEFINE n == Len(t.lines) - first + 1
           num(k) == first + k - 1
           step == [p \in Displays \X (1..n) |->
                      process_line(p[1], num(p[2]), t.lines[num(p[2])].text)]
           F(f) == [k \in 0..n |->
                      IF k = 0 THEN t
                      ELSE process_line(f[k - 1], first + k - 1, t.lines[first + k - 1].text)]
           after == CHOOSE f : f = F(f)
<1>1. Len(t.lines) \in Nat /\ n \in Nat /\ first \in Nat /\ first > 0
  <2>1. Len(t.lines) \in Nat
    BY DisplayTypes
  <2>2. \A l \in Nat : \A f \in 1..(l + 1) : l - f + 1 \in Nat /\ f \in Nat /\ f > 0
    OBVIOUS
  <2> QED BY <2>1, <2>2, Zenon
<1>2. \A k \in 1..n : num(k) \in 1..Len(t.lines) /\ num(k) \in Nat
  <2>1. \A l \in Nat : \A f \in 1..(l + 1) : \A k \in 1..(l - f + 1) :
          f + k - 1 \in 1..l /\ f + k - 1 \in Nat
    OBVIOUS
  <2> QED BY <1>1, <2>1, Zenon
<1>3. \A k \in 1..n : t.lines[num(k)].text \in PrintedTexts
  <2>1. \A i \in 1..Len(t.lines) : t.lines[i].text \in PrintedTexts
    BY DisplayTypes DEF LineRecords
  <2> HIDE DEF num, n
  <2> QED BY <1>2, <2>1
<1>4. step \in Steps(Displays, n)
  <2>1. ASSUME NEW p \in Displays \X (1..n)
        PROVE  process_line(p[1], num(p[2]), t.lines[num(p[2])].text) \in Displays
    <3>1. p[1] \in Displays /\ p[2] \in 1..n
      OBVIOUS
    <3>2. num(p[2]) \in Nat /\ t.lines[num(p[2])].text \in PrintedTexts
      <4> HIDE DEF num, n
      <4> QED BY <1>2, <1>3, <3>1
    <3> HIDE DEF num, n
    <3> QED BY <3>1, <3>2, ProcessLineIs
  <2> HIDE DEF num, n
  <2> QED BY <2>1 DEF Steps
<1>5. \E f : IsLoop(f, Displays, t, n, step)
  <2> HIDE DEF step, n
  <2> QED BY <1>1, <1>4, LoopExists
<1>6. PICK f : /\ f \in [0..n -> Displays]
               /\ f[0] = t /\ \A k \in 1..n : f[k] = step[<<f[k - 1], k>>]
  BY <1>5 DEF IsLoop
<1>7. f = F(f)
  <2>1. ASSUME NEW k \in 1..n
        PROVE  step[<<f[k - 1], k>>] = process_line(f[k - 1], num(k), t.lines[num(k)].text)
    <3>1. k - 1 \in 0..n
      <4> HIDE DEF n
      <4> QED BY <1>1
    <3>2. f[k - 1] \in Displays
      BY <1>6, <3>1
    <3> HIDE DEF n, num
    <3> QED BY <3>2
  <2>2. \A k \in 0..n : f[k] = IF k = 0 THEN t
                               ELSE process_line(f[k - 1], num(k), t.lines[num(k)].text)
    <3>1. \A k \in 0..n : k = 0 \/ k \in 1..n
      <4> HIDE DEF n
      <4> QED BY <1>1
    <3> HIDE DEF step, n, num
    <3> QED BY <1>6, <2>1, <3>1
  <2>3. F(f) = [k \in 0..n |-> IF k = 0 THEN t
                               ELSE process_line(f[k - 1], num(k), t.lines[num(k)].text)]
    OBVIOUS
  <2> HIDE DEF step, n, F, num
  <2> QED BY <1>6, <2>2, <2>3
<1>8. after = F(after)
  <2> HIDE DEF F
  <2> QED BY <1>7
<1>9. Processed(t, first) = after[n]
  BY DEF Processed
<1> HIDE DEF after
<1>10. after[0] = t
       /\ \A k \in 1..n : after[k] = process_line(after[k - 1], num(k), t.lines[num(k)].text)
  <2>1. 0 \in 0..n /\ \A k \in 1..n : k \in 0..n /\ k # 0
    <3> HIDE DEF n
    <3> QED BY <1>1
  <2> HIDE DEF n
  <2> QED BY <1>8, <2>1
<1> HIDE DEF step, F
<1> DEFINE Done(k) == LET u == after[k]
                      IN /\ u \in Displays /\ SameLines(u, t) /\ u.output = t.output
                         /\ u.due = t.due
                         /\ IsDrawn(u.output_buffer, t, first, num(k))
           S == {k \in 0..n : Done(k)}
<1>11. 0 \in S
  <2>1. 0 \in 0..n /\ num(0) = first - 1 /\ first..(first - 1) = {}
    <3> HIDE DEF n
    <3> QED BY <1>1
  <2>2. IsDrawn(<<>>, t, first, first - 1)
    BY <2>1, EmptySeq DEF IsDrawn, InOrder
  <2> HIDE DEF n, num
  <2> QED BY <1>10, <2>1, <2>2 DEF SameLines
<1>12. ASSUME NEW k \in 1..n, k - 1 \in S PROVE k \in S
  <2> DEFINE u == after[k - 1]
             s == after[k]
             text == t.lines[num(k)].text
             d == [of |-> num(k), rows |-> split_equal(text, u.num_chars)]
  <2>1. /\ u \in Displays /\ SameLines(u, t) /\ u.output = t.output /\ u.due = t.due
        /\ IsDrawn(u.output_buffer, t, first, num(k - 1))
    BY <1>12
  <2>2. num(k) \in Nat /\ text \in PrintedTexts
    <3> HIDE DEF num, n
    <3> QED BY <1>2, <1>3
  <2>3. s = process_line(u, num(k), text)
    BY <1>10
  <2> HIDE DEF u, s, text
  <2>4. /\ s \in Displays /\ SameLines(s, u) /\ s.output = u.output /\ s.due = u.due
        /\ d \in Divs
        /\ s.output_buffer = IF text = Empty THEN u.output_buffer ELSE Append(u.output_buffer, d)
    <3> HIDE DEF num
    <3> QED BY <2>1, <2>2, <2>3, ProcessLineIs
  <2>5. d = Whole(t, num(k))
    BY <2>1 DEF Whole, SameLines, text
  <2>6. num(k - 1) \in Nat /\ num(k - 1) + 1 = num(k) /\ first <= num(k - 1) + 1
    <3>1. \A a \in Nat : \A b \in 1..n : a > 0 =>
            a + (b - 1) - 1 \in Nat /\ (a + (b - 1) - 1) + 1 = a + b - 1 /\ a <= (a + (b - 1) - 1) + 1
      <4> HIDE DEF n
      <4> QED BY <1>1
    <3> QED BY <1>1, <3>1, Zenon
  <2>7. IsDrawn(s.output_buffer, t, first, num(k))
    <3>1. u.output_buffer \in Seq(Divs)
      BY <2>1, DisplayTypes
    <3> HIDE DEF num, d
    <3>2. Whole(t, num(k - 1) + 1) \in Divs
      BY <2>4, <2>5, <2>6
    <3>3. IsDrawn(IF t.lines[num(k - 1) + 1].text = Empty THEN u.output_buffer
                  ELSE Append(u.output_buffer, Whole(t, num(k - 1) + 1)),
                  t, first, num(k - 1) + 1)
      BY <1>1, <2>1, <2>6, <3>1, <3>2, DrawnOneMore
    <3> QED BY <2>4, <2>5, <2>6, <3>3 DEF text
  <2>8. Done(k)
    <3> HIDE DEF num
    <3> QED BY <2>1, <2>4, <2>7 DEF SameLines, s
  <2>9. k \in 0..n
    <3> HIDE DEF n
    <3> QED BY <1>1
  <2> HIDE DEF Done
  <2> QED BY <2>8, <2>9
<1>13. n \in S
  <2>1. n \in 0..n
    <3> HIDE DEF n
    <3> QED BY <1>1
  <2> HIDE DEF S, n
  <2> QED BY <1>1, <1>11, <1>12, <2>1, Reaches
<1>14. num(n) = Len(t.lines)
  <2>1. \A l, k \in Int : k + (l - k + 1) - 1 = l
    OBVIOUS
  <2>2. Len(t.lines) \in Int /\ first \in Int
    BY <1>1
  <2> QED BY <2>1, <2>2, Zenon
<1>15. Done(n)
  BY <1>13
<1> HIDE DEF num, n
<1> QED BY <1>9, <1>14, <1>15

-----------------------------------------------------------------------------
(* The methods.                                                            *)

LEMMA FirstToShowIs ==
  ASSUME NEW t \in Displays
  PROVE  /\ FirstToShow(t) \in 1..(Len(t.lines) + 1)
         /\ Unlimited(t) => FirstToShow(t) = 1
<1> DEFINE size == Len(t.lines)
           limit == Limit(t)
<1>1. size \in Nat /\ limit \in Int /\ (~Unlimited(t) => limit >= 0)
  <2>1. size \in Nat /\ limit \in Int
    BY DisplayTypes
  <2>2. t.outputLimit \in Int /\ t.num_rows \in Nat
    BY DisplayTypes
  <2> HIDE DEF size
  <2> QED BY <2>1, <2>2 DEF Unlimited, Limit
<1>2. FirstToShow(t) = IF Unlimited(t) THEN 1
                       ELSE IF size - limit - 1 >= 0 THEN (size - limit - 1) + 1
                       ELSE IF size + (size - limit - 1) > 0 THEN size + (size - limit - 1) + 1
                       ELSE 1
  BY DEF FirstToShow
<1> HIDE DEF size, limit
<1>3. /\ (IF Unlimited(t) THEN 1
          ELSE IF size - limit - 1 >= 0 THEN (size - limit - 1) + 1
          ELSE IF size + (size - limit - 1) > 0 THEN size + (size - limit - 1) + 1
          ELSE 1) \in 1..(size + 1)
  BY <1>1
<1> QED BY <1>2, <1>3 DEF size

(* A record of displays whose other fields change. *)
LEMMA OrderlyIsSame ==
  ASSUME NEW s, NEW t, Orderly(t), SameLines(s, t), s.due = t.due, s.output = t.output,
         s.output_buffer = t.output_buffer
  PROVE  Orderly(s)
<1>1. /\ Unlimited(s) <=> Unlimited(t)
      /\ \A d : Right(s, d) <=> Right(t, d)
      /\ \A i : Shows(s, i) <=> Shows(t, i)
  BY SameRows
<1> QED BY <1>1 DEF Orderly, Placed, NoneMissing, SameLines

(* redraw prints all lines, whatever was on the page or in the buffer. *)
LEMMA RedrawOK ==
  ASSUME NEW t \in Displays
  PROVE  redraw(t) \in Displays /\ Orderly(redraw(t))
<1> DEFINE empty == [t EXCEPT !.output = <<>>, !.output_buffer = <<>>]
           bare == [empty EXCEPT !.due = {}]
           first == FirstToShow(t)
           p == Processed(empty, first)
           f == flush(p)
           all == DOMAIN t.lines
<1>1. redraw(t) = [f EXCEPT !.due = all]
  BY DEF redraw
<1>2. /\ Len(t.lines) \in Nat /\ all = 1..Len(t.lines) /\ all \in SUBSET Nat
      /\ <<>> \in Seq(Divs) /\ Len(<<>>) = 0
  BY DisplayTypes, EmptySeq
<1>3. empty \in Displays /\ SameLines(empty, t) /\ empty.output = <<>> /\ empty.output_buffer = <<>>
  BY <1>2 DEF Displays, SameLines
<1> HIDE DEF empty
<1>4. first \in 1..(Len(empty.lines) + 1) /\ (Unlimited(t) => first = 1)
  <2>1. first \in 1..(Len(t.lines) + 1) /\ (Unlimited(t) => first = 1)
    BY FirstToShowIs
  <2>2. empty.lines = t.lines
    BY <1>3 DEF SameLines
  <2> HIDE DEF first
  <2> QED BY <2>1, <2>2
<1> HIDE DEF first
<1>5. /\ p \in Displays /\ SameLines(p, empty) /\ p.output = <<>> /\ p.due = empty.due
      /\ IsDrawn(p.output_buffer, empty, first, Len(empty.lines))
  BY <1>3, <1>4, ProcessedIs
<1> HIDE DEF p
<1>6. SameLines(p, t)
  BY <1>3, <1>5 DEF SameLines
<1>7. IsDrawn(p.output_buffer, t, first, Len(t.lines))
  <2>1. \A i : Whole(empty, i) = Whole(t, i)
    BY <1>3, SameRows
  <2> QED BY <1>3, <1>5, <2>1 DEF IsDrawn, SameLines
<1>8. \A k \in 1..Len(p.output_buffer) :
        /\ p.output_buffer[k].of <= Len(t.lines)
        /\ p.output_buffer[k] = Whole(t, p.output_buffer[k].of)
  <2>1. first \in Nat /\ Len(t.lines) \in Nat
    BY <1>2, <1>3, <1>4 DEF SameLines
  <2>2. \A i \in first..Len(t.lines) : i <= Len(t.lines)
    BY <2>1
  <2> QED BY <1>7, <2>2 DEF IsDrawn
<1>9. Placed(p)
  <2>1. \A k \in 1..Len(p.output_buffer) : p.output_buffer[k].of <= Len(p.lines)
    BY <1>6, <1>8 DEF SameLines
  <2>2. InOrder(p.output_buffer)
    BY <1>7 DEF IsDrawn
  <2>3. \A k \in 1..Len(p.output_buffer) : Right(p, p.output_buffer[k])
    <3>1. \A i : Whole(p, i) = Whole(t, i)
      BY <1>6, SameRows
    <3> QED BY <1>8, <3>1 DEF Right
  <2>4. 1..Len(p.output) = {}
    BY <1>2, <1>5
  <2> QED BY <2>1, <2>2, <2>3, <2>4 DEF Placed, InOrder
<1>10. /\ f \in Displays /\ Placed(f) /\ SameLines(f, p)
       /\ Unlimited(p) => f.output = p.output \o p.output_buffer
  BY <1>5, <1>9, FlushOK
<1> HIDE DEF f
<1> DEFINE r == [f EXCEPT !.due = all]
<1>11. /\ r \in Displays /\ SameLines(r, t) /\ r.due = all /\ r.output = f.output
       /\ r.lines = f.lines /\ r.output_buffer = f.output_buffer /\ SameLines(r, f)
  <2> HIDE DEF all
  <2> QED BY <1>2, <1>6, <1>10 DEF Displays, SameLines
<1> HIDE DEF r
<1>12. Placed(r)
  <2>1. \A d : Right(r, d) <=> Right(f, d)
    BY <1>11, SameRows
  <2> QED BY <1>10, <1>11, <2>1 DEF Placed
<1>13. NoneMissing(r)
  <2>1. r.due \subseteq 1..Len(r.lines)
    BY <1>2, <1>11 DEF SameLines
  <2>2. ASSUME Unlimited(r), NEW i \in r.due PROVE Shows(r, i)
    <3>1. Unlimited(p) /\ Unlimited(t) /\ Whole(r, i) = Whole(t, i)
      BY <1>6, <1>11, <2>2, SameRows
    <3>2. r.output = p.output_buffer
      <4>1. p.output_buffer \in Seq(Divs)
        BY <1>5, DisplayTypes
      <4>2. <<>> \o p.output_buffer = p.output_buffer
        BY <4>1, ConcatEmptySeq
      <4> QED BY <1>5, <1>10, <1>11, <3>1, <4>2
    <3>3. i \in first..Len(t.lines)
      BY <1>2, <1>4, <1>11, <2>2, <3>1
    <3> QED BY <1>7, <1>11, <3>1, <3>2, <3>3 DEF Shows, IsDrawn, SameLines
  <2> QED BY <2>1, <2>2 DEF NoneMissing
<1> QED BY <1>1, <1>11, <1>12, <1>13 DEF Orderly, r

(* The size, the visibility, the timer and what the terminal remembers of   *)
(* them say nothing about the lines.                                        *)
LEMMA SizeChanges ==
  ASSUME NEW t \in Displays, Orderly(t)
  PROVE  /\ \A w \in Windows : LET s == [t EXCEPT !.window = w] IN s \in Displays /\ Orderly(s)
         /\ \A w \in Windows : LET s == [t EXCEPT !.old_size = w] IN s \in Displays /\ Orderly(s)
         /\ \A v \in BOOLEAN : LET s == [t EXCEPT !.visible = v] IN s \in Displays /\ Orderly(s)
         /\ \A b \in BOOLEAN : LET s == [t EXCEPT !.scroll_bars = b] IN s \in Displays /\ Orderly(s)
         /\ \A q \in Seq(Windows \cup {Nothing}) :
              LET s == [t EXCEPT !.timer = q] IN s \in Displays /\ Orderly(s)
<1> DEFINE Same(s) == /\ SameLines(s, t) /\ s.due = t.due /\ s.output = t.output
                      /\ s.output_buffer = t.output_buffer
<1>1. ASSUME NEW s \in Displays, Same(s) PROVE Orderly(s)
  BY <1>1, OrderlyIsSame
<1>2. ASSUME NEW w \in Windows
      PROVE  LET s == [t EXCEPT !.window = w] IN s \in Displays /\ Same(s)
  BY DEF Displays, SameLines
<1>3. ASSUME NEW w \in Windows
      PROVE  LET s == [t EXCEPT !.old_size = w] IN s \in Displays /\ Same(s)
  BY DEF Displays, SameLines
<1>4. ASSUME NEW v \in BOOLEAN
      PROVE  LET s == [t EXCEPT !.visible = v] IN s \in Displays /\ Same(s)
  BY DEF Displays, SameLines
<1>5. ASSUME NEW b \in BOOLEAN
      PROVE  LET s == [t EXCEPT !.scroll_bars = b] IN s \in Displays /\ Same(s)
  BY DEF Displays, SameLines
<1>6. ASSUME NEW q \in Seq(Windows \cup {Nothing})
      PROVE  LET s == [t EXCEPT !.timer = q] IN s \in Displays /\ Same(s)
  BY DEF Displays, SameLines
<1> HIDE DEF Same
<1> QED BY <1>1, <1>2, <1>3, <1>4, <1>5, <1>6

LEMMA ScrollbarsAre ==
  ASSUME NEW t \in Displays
  PROVE  have_scrollbars(t) \in BOOLEAN /\ get_num_chars(t) \in Nat
<1>1. have_scrollbars(t) \in BOOLEAN
  BY DEF have_scrollbars
<1>2. t.window.width \in Nat \ {0, 1}
  BY DisplayTypes, TerminalOutputAssumption
<1> QED BY <1>1, <1>2 DEF get_num_chars

(* A resize waits for the terminal to be shown, or redraws it if needed. *)
LEMMA ResizeOK ==
  ASSUME NEW t \in Displays, Orderly(t), NEW size \in Windows \cup {Nothing}
  PROVE  resize(t, size) \in Displays /\ Orderly(resize(t, size))
<1> DEFINE sized == IF size = Nothing THEN t ELSE [t EXCEPT !.window = size]
           chars == get_num_chars(sized)
           rows == sized.window.height
           anew == [sized EXCEPT !.num_chars = chars, !.num_rows = rows]
           done == [redraw(anew) EXCEPT !.old_size = sized.window]
           timed == [t EXCEPT !.timer = <<size>>]
<1>1. resize(t, size) = IF ~t.visible THEN timed
                        ELSE IF chars = t.num_chars /\ rows = t.num_rows THEN sized ELSE done
  BY DEF resize
<1>2. timed \in Displays /\ Orderly(timed)
  <2>1. <<size>> \in Seq(Windows \cup {Nothing})
    OBVIOUS
  <2> QED BY <2>1, SizeChanges
<1>3. sized \in Displays /\ Orderly(sized)
  BY SizeChanges
<1> HIDE DEF sized
<1>4. chars \in Nat /\ rows \in Nat /\ sized.window \in Windows
  <2>1. sized.window \in Windows
    BY <1>3, DisplayTypes
  <2> QED BY <1>3, <2>1, ScrollbarsAre, TerminalOutputAssumption
<1> HIDE DEF chars, rows
<1>5. anew \in Displays
  BY <1>3, <1>4 DEF Displays
<1> HIDE DEF anew
<1>6. redraw(anew) \in Displays /\ Orderly(redraw(anew))
  BY <1>5, RedrawOK
<1>7. done \in Displays /\ Orderly(done)
  BY <1>4, <1>6, SizeChanges
<1> HIDE DEF done, timed
<1> QED BY <1>1, <1>2, <1>3, <1>7

LEMMA ScrollbarShownOK ==
  ASSUME NEW t \in Displays, Orderly(t)
  PROVE  on_scrollbar_show_resize(t) \in Displays /\ Orderly(on_scrollbar_show_resize(t))
<1> DEFINE r == resize(t, Nothing)
           s == [r EXCEPT !.scroll_bars = have_scrollbars(r)]
<1>1. on_scrollbar_show_resize(t) = IF t.scroll_bars = have_scrollbars(t) THEN t ELSE s
  BY DEF on_scrollbar_show_resize
<1>2. r \in Displays /\ Orderly(r)
  BY ResizeOK
<1> HIDE DEF r
<1>3. s \in Displays /\ Orderly(s)
  BY <1>2, ScrollbarsAre, SizeChanges
<1> HIDE DEF s
<1> QED BY <1>1, <1>3

(* A line is printed: its divs go to the end of the buffer and its text to  *)
(* the end of the lines.                                                    *)
LEMMA PushedOK ==
  ASSUME NEW t \in Displays, Orderly(t), NEW shown \in PrintedTexts, NEW text \in PrintedTexts
  PROVE  LET p == process_line(t, Len(t.lines) + 1, shown)
             s == [p EXCEPT !.lines = Append(@, [text |-> text, same |-> shown = text])]
         IN s \in Displays /\ Orderly(s)
<1> DEFINE n == Len(t.lines)
           p == process_line(t, n + 1, shown)
           anew == [text |-> text, same |-> shown = text]
           more == Append(p.lines, anew)
           s == [p EXCEPT !.lines = more]
           d == [of |-> n + 1, rows |-> split_equal(shown, t.num_chars)]
           b == t.output_buffer
<1>1. n \in Nat /\ t.lines \in Seq(LineRecords) /\ b \in Seq(Divs) /\ Len(b) \in Nat
  BY DisplayTypes
<1>2. /\ p \in Displays /\ SameLines(p, t) /\ p.output = t.output /\ p.due = t.due
      /\ d \in Divs
      /\ p.output_buffer = IF shown = Empty THEN b ELSE Append(b, d)
  <2>1. n + 1 \in Nat
    BY <1>1
  <2> QED BY <2>1, ProcessLineIs
<1> HIDE DEF p
<1>3. anew \in LineRecords
  BY DEF LineRecords
<1>4. /\ more \in Seq(LineRecords) /\ Len(more) = n + 1 /\ more[n + 1] = anew
      /\ \A i \in 1..n : more[i] = t.lines[i]
  BY <1>1, <1>2, <1>3, AppendProperties DEF SameLines
<1> HIDE DEF more
<1>5. /\ s \in Displays /\ s.lines = more /\ s.num_chars = t.num_chars
      /\ s.num_rows = t.num_rows /\ s.outputLimit = t.outputLimit
      /\ s.output = t.output /\ s.due = t.due /\ s.output_buffer = p.output_buffer
  BY <1>2, <1>4 DEF Displays, SameLines
<1> HIDE DEF s
<1>6. \A i \in 1..n : Whole(s, i) = Whole(t, i) /\ (Shows(t, i) => Shows(s, i))
  BY <1>4, <1>5 DEF Whole, Shows
<1>7. /\ \A k \in 1..Len(t.output) : t.output[k].of <= n /\ t.output[k].of \in Nat
      /\ \A k \in 1..Len(b) : b[k].of <= n /\ b[k].of \in Nat
  <2>1. /\ \A k \in 1..Len(t.output) : t.output[k].of \in Nat
        /\ \A k \in 1..Len(b) : b[k].of \in Nat
    BY DisplayTypes DEF Divs
  <2> QED BY <2>1 DEF Orderly, Placed
<1>8. \A e \in Divs : e.of <= n /\ Right(t, e) => Right(s, e)
  <2>1. \A e \in Divs : e.of <= n /\ e.of # 0 => e.of \in 1..n
    BY <1>1 DEF Divs
  <2> HIDE DEF n
  <2> QED BY <1>4, <1>5, <1>6, <2>1 DEF Right
<1>9. Right(s, d)
  <2>1. d.of = n + 1 /\ s.lines[n + 1] = anew
    BY <1>4, <1>5
  <2>2. anew.text = text /\ (anew.same => shown = text)
    OBVIOUS
  <2>3. anew.same => d = [of |-> n + 1, rows |-> split_equal(anew.text, t.num_chars)]
    BY <2>2
  <2> HIDE DEF n, anew, d
  <2> QED BY <1>5, <2>1, <2>3 DEF Right, Whole
<1> DEFINE q == s.output_buffer
           m == Len(b)
<1>10. \A k \in 1..Len(q) : \/ k \in 1..m /\ q[k] = b[k]
                            \/ q[k] = d /\ k = m + 1
  <2>1. CASE shown = Empty
    BY <1>2, <1>5, <2>1
  <2>2. CASE shown # Empty
    <3>1. q = Append(b, d)
      BY <1>2, <1>5, <2>2
    <3> HIDE DEF q
    <3>2. Len(q) = m + 1 /\ q[m + 1] = d /\ \A i \in 1..m : q[i] = b[i]
      BY <1>1, <1>2, <3>1, AppendProperties
    <3> HIDE DEF m, b, d
    <3>3. \A k \in 1..(m + 1) : k \in 1..m \/ k = m + 1
      BY <1>1 DEF m
    <3> QED BY <3>2, <3>3
  <2> QED BY <2>1, <2>2
<1> HIDE DEF q
<1>11. Placed(s)
  <2>1. \A k \in 1..Len(s.output) : s.output[k].of <= Len(s.lines)
    <3>1. \A i \in Nat : i <= n => i <= n + 1
      <4> HIDE DEF n
      <4> QED BY <1>1
    <3> HIDE DEF n
    <3> QED BY <1>4, <1>5, <1>7, <3>1
  <2>2. \A k \in 1..Len(q) : q[k].of <= Len(s.lines)
    <3>1. \A i \in Nat : i <= n => i <= n + 1
      <4> HIDE DEF n
      <4> QED BY <1>1
    <3>2. d.of <= n + 1
      <4> HIDE DEF n
      <4> QED BY <1>1
    <3> HIDE DEF n, d, b
    <3> QED BY <1>4, <1>5, <1>7, <1>10, <3>1, <3>2
  <2>3. InOrder(s.output)
    BY <1>5 DEF Orderly, Placed
  <2>4. InOrder(q)
    <3> SUFFICES ASSUME NEW j \in 1..Len(q), NEW k \in 1..Len(q), j < k
                 PROVE  Above(q[j], q[k])
      BY DEF InOrder
    <3>1. CASE k \in 1..m
      <4>1. j \in 1..m /\ q[j] = b[j] /\ q[k] = b[k]
        <5>1. j # m + 1 /\ k # m + 1
          BY <1>1, <3>1
        <5> QED BY <1>10, <5>1
      <4> QED BY <3>1, <4>1 DEF Orderly, Placed, InOrder
    <3>2. CASE k = m + 1
      <4>1. j # m + 1
        BY <1>1, <3>2
      <4>2. j \in 1..m /\ q[j] = b[j] /\ q[k] = d
        <5>1. ~(k \in 1..m)
          BY <1>1, <3>2
        <5> QED BY <1>10, <4>1, <5>1
      <4>3. b[j].of \in Nat /\ b[j].of <= n /\ d.of = n + 1
        BY <1>7, <4>2
      <4>4. b[j].of < n + 1
        <5> HIDE DEF n, b
        <5> QED BY <1>1, <4>3
      <4> QED BY <4>2, <4>3, <4>4 DEF Above
    <3> QED BY <1>10, <3>1, <3>2
  <2>5. \A j \in 1..Len(s.output), k \in 1..Len(q) : Above(s.output[j], q[k])
    <3>1. ASSUME NEW j \in 1..Len(t.output) PROVE t.output[j].of < n + 1
      <4>1. t.output[j].of \in Nat /\ t.output[j].of <= n
        BY <1>7
      <4> HIDE DEF n
      <4> QED BY <1>1, <4>1
    <3>2. d.of = n + 1
      OBVIOUS
    <3>3. \A j \in 1..Len(t.output), k \in 1..m : Above(t.output[j], b[k])
      BY DEF Orderly, Placed
    <3> HIDE DEF n, d, b, m
    <3> QED BY <1>5, <1>10, <3>1, <3>2, <3>3 DEF Above
  <2>6. \A k \in 1..Len(s.output) : k > 1 => Right(s, s.output[k])
    <3>1. \A k \in 1..Len(t.output) : t.output[k] \in Divs /\ (k > 1 => Right(t, t.output[k]))
      BY DisplayTypes DEF Orderly, Placed
    <3> HIDE DEF n
    <3> QED BY <1>5, <1>7, <1>8, <3>1
  <2>7. \A k \in 1..Len(q) : Right(s, q[k])
    <3>1. \A k \in 1..m : b[k] \in Divs /\ Right(t, b[k])
      BY DisplayTypes DEF Orderly, Placed
    <3> HIDE DEF n, m, b, d
    <3> QED BY <1>7, <1>8, <1>9, <1>10, <3>1 DEF m
  <2> QED BY <2>1, <2>2, <2>3, <2>4, <2>5, <2>6, <2>7 DEF Placed, q
<1>12. NoneMissing(s)
  <2>1. \A i \in 1..n : i \in 1..(n + 1)
    <3> HIDE DEF n
    <3> QED BY <1>1
  <2>2. t.due \subseteq 1..n /\ (Unlimited(t) => \A i \in t.due : Shows(t, i))
    BY DEF Orderly, NoneMissing
  <2>3. Unlimited(s) <=> Unlimited(t)
    BY <1>5 DEF Unlimited
  <2> HIDE DEF n
  <2> QED BY <1>4, <1>5, <1>6, <2>1, <2>2, <2>3 DEF NoneMissing
<1>13. s = [p EXCEPT !.lines = Append(@, anew)]
  BY DEF s, more
<1> QED BY <1>5, <1>11, <1>12, <1>13 DEF Orderly, p

Options == {Normal, Waiting}

LEMMA KeptOK ==
  ASSUME NEW t \in Displays, Orderly(t), NEW shown \in PrintedTexts, NEW text \in PrintedTexts,
         NEW options \in Options
  PROVE  Kept(t, shown, text, options) \in Displays /\ Orderly(Kept(t, shown, text, options))
<1> DEFINE p == process_line(t, Len(t.lines) + 1, shown)
           s == [p EXCEPT !.lines = Append(@, [text |-> text, same |-> shown = text])]
           f == IF options.flush THEN flush(s) ELSE s
<1>1. s \in Displays /\ Orderly(s)
  BY PushedOK
<1>2. Kept(t, shown, text, options) = on_scrollbar_show_resize(f)
  BY DEF Kept
<1> HIDE DEF s
<1>3. f \in Displays /\ Orderly(f)
  BY <1>1, FlushOK DEF Orderly
<1> HIDE DEF f
<1> QED BY <1>2, <1>3, ScrollbarShownOK

(* echo forgets what waits in the buffer. *)
LEMMA BufferForgotten ==
  ASSUME NEW t \in Displays, Orderly(t)
  PROVE  LET s == [t EXCEPT !.output_buffer = <<>>] IN s \in Displays /\ Orderly(s)
<1> DEFINE s == [t EXCEPT !.output_buffer = <<>>]
<1>1. <<>> \in Seq(Divs) /\ 1..Len(<<>>) = {}
  BY EmptySeq
<1>2. /\ s \in Displays /\ SameLines(s, t) /\ s.due = t.due /\ s.output = t.output
      /\ s.output_buffer = <<>>
  BY <1>1 DEF Displays, SameLines
<1> HIDE DEF s
<1>3. /\ Unlimited(s) <=> Unlimited(t)
      /\ \A d : Right(s, d) <=> Right(t, d)
      /\ \A i : Shows(s, i) <=> Shows(t, i)
  BY <1>2, SameRows
<1>4. Placed(s)
  BY <1>1, <1>2, <1>3 DEF Orderly, Placed, InOrder, SameLines
<1>5. NoneMissing(s)
  BY <1>2, <1>3 DEF Orderly, NoneMissing, SameLines
<1> QED BY <1>2, <1>4, <1>5 DEF Orderly, s

LEMMA EchoOK ==
  ASSUME NEW t \in Displays, Orderly(t), NEW text \in PrintedTexts, NEW options \in Options
  PROVE  echo(t, text, options) \in Displays /\ Orderly(echo(t, text, options))
BY BufferForgotten, KeptOK DEF echo

LEMMA EchoCallingOK ==
  ASSUME NEW t \in Displays, Orderly(t), NEW text \in PrintedTexts,
         NEW answer \in PrintedTexts \cup {Nothing}
  PROVE  echoCalling(t, text, answer) \in Displays /\ Orderly(echoCalling(t, text, answer))
<1> DEFINE fresh == [t EXCEPT !.output_buffer = <<>>]
           called == IF answer = Nothing THEN fresh ELSE echo(fresh, answer, Normal)
           longer == [text EXCEPT ![1] = @ + CallLen]
<1>1. fresh \in Displays /\ Orderly(fresh)
  BY BufferForgotten
<1>2. echoCalling(t, text, answer) = Kept(called, text, longer, Normal)
  BY DEF echoCalling
<1>3. Normal \in Options
  BY DEF Options
<1> HIDE DEF fresh
<1>4. called \in Displays /\ Orderly(called)
  BY <1>1, <1>3, EchoOK
<1>5. longer \in PrintedTexts
  <2>1. text \in Seq(Nat) /\ Len(text) \in Nat \ {0}
    BY EmptySeq DEF PrintedTexts
  <2>2. 1 \in 1..Len(text)
    BY <2>1
  <2>3. text[1] + CallLen \in Nat
    <3>1. text[1] \in Nat
      BY <2>1, <2>2, ElementOfSeq
    <3> QED BY <3>1, TerminalOutputAssumption
  <2>4. longer \in Seq(Nat) /\ Len(longer) = Len(text)
    BY <2>1, <2>2, <2>3, ExceptSeq
  <2> HIDE DEF longer
  <2>5. longer # <<>>
    BY <2>1, <2>4
  <2> QED BY <2>4, <2>5 DEF PrintedTexts
<1> HIDE DEF called, longer
<1> QED BY <1>2, <1>3, <1>4, <1>5, KeptOK

LEMMA ErrorOK ==
  ASSUME NEW t \in Displays, Orderly(t), NEW text \in PrintedTexts
  PROVE  error(t, text) \in Displays /\ Orderly(error(t, text))
BY EchoOK DEF error, Options

LEMMA ExceptionOK ==
  ASSUME NEW t \in Displays, Orderly(t), NEW text \in PrintedTexts, NEW stack \in PrintedTexts
  PROVE  exception(t, text, stack) \in Displays /\ Orderly(exception(t, text, stack))
<1>1. error(t, text) \in Displays /\ Orderly(error(t, text)) /\ Normal \in Options
  BY ErrorOK DEF Options
<1> QED BY <1>1, EchoOK DEF exception

LEMMA UpdateOK ==
  ASSUME NEW t \in Displays, Orderly(t), NEW n, NEW text \in PrintedTexts
  PROVE  update(t, n, text) \in Displays /\ Orderly(update(t, n, text))
<1> DEFINE i == IF n < 0 THEN Len(t.lines) + n + 1 ELSE n + 1
           anew == [text |-> text, same |-> TRUE]
           changed == [t EXCEPT !.lines[i] = anew]
<1>1. update(t, n, text) = IF i \notin DOMAIN t.lines THEN error(t, <<1>>) ELSE redraw(changed)
  BY DEF update
<1>2. <<1>> \in PrintedTexts /\ anew \in LineRecords
  BY DEF PrintedTexts, LineRecords
<1> HIDE DEF i, anew
<1>3. CASE i \notin DOMAIN t.lines
  BY <1>1, <1>2, <1>3, ErrorOK
<1>4. CASE i \in DOMAIN t.lines
  <2> DEFINE more == [t.lines EXCEPT ![i] = anew]
  <2>1. i \in 1..Len(t.lines) /\ t.lines \in Seq(LineRecords)
    BY <1>4, DisplayTypes
  <2>2. changed = [t EXCEPT !.lines = more]
    BY DEF Displays
  <2>3. more \in Seq(LineRecords)
    BY <1>2, <2>1, ExceptSeq
  <2> HIDE DEF more
  <2>4. [t EXCEPT !.lines = more] \in Displays
    BY <2>3 DEF Displays
  <2>5. changed \in Displays
    BY <2>2, <2>4
  <2> HIDE DEF changed
  <2> QED BY <1>1, <1>4, <2>5, RedrawOK
<1> QED BY <1>3, <1>4

LEMMA ClearedOK ==
  ASSUME NEW t \in Displays, Orderly(t)
  PROVE  cleared(t) \in Displays /\ Orderly(cleared(t))
<1> DEFINE s == cleared(t)
           b == t.output_buffer
           bare(k) == [b[k] EXCEPT !.of = 0]
           nameless == [k \in DOMAIN b |-> bare(k)]
<1>1. s = [t EXCEPT !.output = <<>>, !.lines = <<>>, !.due = {}, !.output_buffer = nameless]
  BY DEF cleared
<1>2. /\ DOMAIN b = 1..Len(b) /\ Len(b) \in Nat /\ \A k \in 1..Len(b) : b[k] \in Divs
      /\ <<>> \in Seq(Divs) /\ <<>> \in Seq(LineRecords) /\ Len(<<>>) = 0 /\ 1..0 = {}
  BY DisplayTypes, EmptySeq
<1>3. \A k \in 1..Len(b) : bare(k) \in Divs /\ bare(k).of = 0
  BY <1>2 DEF Divs
<1> HIDE DEF bare
<1>4. /\ nameless \in [1..Len(b) -> Divs] /\ DOMAIN nameless = 1..Len(b)
      /\ \A k \in 1..Len(b) : nameless[k] = bare(k)
  BY <1>2, <1>3
<1> HIDE DEF nameless
<1>5. nameless \in Seq(Divs) /\ Len(nameless) = Len(b)
  BY <1>2, <1>4
<1> HIDE DEF s, b
<1>6. /\ s \in Displays /\ s.output = <<>> /\ s.lines = <<>> /\ s.due = {}
      /\ s.output_buffer = nameless
  BY <1>1, <1>2, <1>5 DEF Displays
<1>7. \A k \in 1..Len(nameless) : nameless[k].of = 0
  BY <1>3, <1>4, <1>5
<1>8. Placed(s)
  BY <1>2, <1>6, <1>7 DEF Placed, InOrder, Above, Right
<1>9. NoneMissing(s)
  BY <1>6 DEF NoneMissing
<1> QED BY <1>6, <1>8, <1>9 DEF Orderly, s

-----------------------------------------------------------------------------
(* The actions.                                                            *)

OutputOK ==
  /\ screen \in Displays /\ Orderly(screen)
  /\ promised \subseteq Texts
  /\ view # None => view.lines \in Seq(LineRecords)

LEMMA TextsAre ==
  /\ Texts \subseteq PrintedTexts
  /\ Normal \in Options /\ Waiting \in Options
BY TerminalOutputAssumption DEF PrintedTexts, Options

LEMMA InitOutput == ScreenInit => OutputOK
<1> SUFFICES ASSUME ScreenInit PROVE OutputOK
  OBVIOUS
<1>1. PICK size \in Windows, shown \in BOOLEAN, limit \in Limits :
        screen = Screens(size, shown, limit)
  BY DEF ScreenInit, OutputInit
<1>2. size.width \in Nat /\ size.height \in Nat /\ Undefined \in Nat
  BY TerminalOutputAssumption DEF Undefined
<1>3. /\ <<>> \in Seq(Divs) /\ <<>> \in Seq(LineRecords)
      /\ <<>> \in Seq(Windows \cup {Nothing}) /\ Len(<<>>) = 0
  BY EmptySeq
<1>4. screen \in Displays
  BY <1>1, <1>2, <1>3 DEF Screens, Displays
<1>5. /\ screen.output = <<>> /\ screen.output_buffer = <<>>
      /\ screen.lines = <<>> /\ screen.due = {}
  BY <1>1 DEF Screens
<1>6. Orderly(screen)
  BY <1>3, <1>5 DEF Orderly, Placed, NoneMissing, InOrder
<1> QED BY <1>4, <1>6 DEF OutputOK, ScreenInit, OutputInit

\* The step draws the next screen as one of the methods does.
Drawn == /\ screen' \in Displays /\ Orderly(screen')
         /\ promised' \subseteq Texts

LEMMA DrawnIs ==
  ASSUME NEW s \in Displays, Orderly(s), screen' = s, promised' \subseteq Texts
  PROVE  Drawn
BY DEF Drawn

LEMMA PrintsOutput ==
  ASSUME OutputOK, Prints
  PROVE  Drawn
<1>1. screen \in Displays /\ Orderly(screen) /\ promised \subseteq Texts
  BY DEF OutputOK
<1>2. \A text \in Texts : text \in PrintedTexts
  BY TextsAre
<1>3. ASSUME NEW text \in Texts, NEW options \in {Normal, Waiting}, Echo(text, options)
      PROVE  Drawn
  <2>1. screen' = echo(screen, text, options) /\ promised' = promised
    BY <1>3 DEF Echo
  <2>2. options \in Options
    BY DEF Options
  <2> QED BY <1>1, <1>2, <2>1, <2>2, EchoOK, DrawnIs
<1>4. ASSUME NEW text \in Texts, NEW answer \in Texts \cup {Nothing}, EchoCalling(text, answer)
      PROVE  Drawn
  <2>1. screen' = echoCalling(screen, text, answer) /\ promised' = promised
    BY <1>4 DEF EchoCalling
  <2>2. answer \in PrintedTexts \cup {Nothing}
    BY <1>2
  <2> QED BY <1>1, <1>2, <2>1, <2>2, EchoCallingOK, DrawnIs
<1>5. ASSUME NEW text \in Texts, EchoPromise(text) \/ Reject(text)
      PROVE  Drawn
  BY <1>1, <1>5, DrawnIs DEF EchoPromise, Reject
<1>6. ASSUME NEW text \in Texts, Resolve(text)
      PROVE  Drawn
  <2>1. screen' = echo(screen, text, Normal) /\ promised' \subseteq Texts
    BY <1>1, <1>6 DEF Resolve
  <2> QED BY <1>1, <1>2, <2>1, TextsAre, EchoOK, DrawnIs
<1>7. ASSUME Flush
      PROVE  Drawn
  <2>1. screen' = flush(screen) /\ promised' \subseteq Texts
    BY <1>1, <1>7 DEF Flush
  <2>2. flush(screen) \in Displays /\ Orderly(flush(screen))
    BY <1>1, FlushOK DEF Orderly
  <2> QED BY <2>1, <2>2, DrawnIs
<1>8. ASSUME NEW n \in (-MaxLines)..MaxLines, NEW text \in Texts, Update(n, text)
      PROVE  Drawn
  <2>1. screen' = update(screen, n, text) /\ promised' \subseteq Texts
    BY <1>1, <1>8 DEF Update
  <2> QED BY <1>1, <1>2, <2>1, UpdateOK, DrawnIs
<1>9. ASSUME NEW message \in Texts, NEW stack \in Texts, Exception(message, stack)
      PROVE  Drawn
  <2>1. screen' = exception(screen, message, stack) /\ promised' \subseteq Texts
    BY <1>1, <1>9 DEF Exception
  <2> QED BY <1>1, <1>2, <2>1, ExceptionOK, DrawnIs
<1> QED BY <1>3, <1>4, <1>5, <1>6, <1>7, <1>8, <1>9 DEF Prints

LEMMA ResizesOutput ==
  ASSUME OutputOK, Resizes
  PROVE  Drawn
<1>1. screen \in Displays /\ Orderly(screen) /\ promised \subseteq Texts
  BY DEF OutputOK
<1>2. ASSUME NEW size \in Windows \cup {Nothing}, Resize(size)
      PROVE  Drawn
  <2>1. screen' = resize(screen, size) /\ promised' \subseteq Texts
    BY <1>1, <1>2 DEF Resize
  <2> QED BY <1>1, <2>1, ResizeOK, DrawnIs
<1>3. ASSUME ResizeTimer
      PROVE  Drawn
  <2> DEFINE s == [screen EXCEPT !.timer = <<>>]
             size == Head(screen.timer)
  <2>1. screen' = resize(s, size) /\ promised' \subseteq Texts /\ screen.timer # <<>>
    BY <1>1, <1>3 DEF ResizeTimer
  <2>2. size \in Windows \cup {Nothing}
    <3>1. screen.timer \in Seq(Windows \cup {Nothing})
      BY <1>1 DEF Displays
    <3> QED BY <2>1, <3>1, HeadTailProperties
  <2>3. s \in Displays /\ Orderly(s)
    BY <1>1, EmptySeq, SizeChanges
  <2> HIDE DEF s, size
  <2> QED BY <2>1, <2>2, <2>3, ResizeOK, DrawnIs
<1>4. ASSUME NEW size \in Windows, WindowResizes(size)
      PROVE  Drawn
  <2> DEFINE s == [screen EXCEPT !.window = size]
  <2>1. /\ screen' = IF screen.visible /\ screen.old_size # size THEN resize(s, Nothing) ELSE s
        /\ promised' \subseteq Texts
    BY <1>1, <1>4 DEF WindowResizes
  <2>2. s \in Displays /\ Orderly(s)
    BY <1>1, SizeChanges
  <2> HIDE DEF s
  <2>3. resize(s, Nothing) \in Displays /\ Orderly(resize(s, Nothing))
    BY <2>2, ResizeOK
  <2> QED BY <2>1, <2>2, <2>3, DrawnIs
<1>5. ASSUME NEW shown \in BOOLEAN, Show(shown)
      PROVE  Drawn
  <2> DEFINE s == [screen EXCEPT !.visible = shown]
  <2>1. screen' = s /\ promised' \subseteq Texts
    BY <1>1, <1>5 DEF Show
  <2>2. s \in Displays /\ Orderly(s)
    BY <1>1, SizeChanges
  <2> HIDE DEF s
  <2> QED BY <2>1, <2>2, DrawnIs
<1>6. ASSUME KeyTimer
      PROVE  Drawn
  <2>1. screen' = on_scrollbar_show_resize(screen) /\ promised' \subseteq Texts
    BY <1>1, <1>6 DEF KeyTimer
  <2> QED BY <1>1, <2>1, ScrollbarShownOK, DrawnIs
<1> QED BY <1>2, <1>3, <1>4, <1>5, <1>6 DEF Resizes

LEMMA NextOutput == IInv /\ OutputOK /\ [ScreenNext]_screenVars => OutputOK'
<1> SUFFICES ASSUME IInv, OutputOK, [ScreenNext]_screenVars PROVE OutputOK'
  OBVIOUS
<1>1. screen \in Displays /\ Orderly(screen) /\ promised \subseteq Texts
  BY DEF OutputOK
<1>3. ASSUME Drawn, UNCHANGED view PROVE OutputOK'
  BY <1>3 DEF Drawn, OutputOK
<1>4. CASE EnterPrints
  <2> DEFINE text == <<PromptLen + Len(command)>>
  <2>1. Echo(text, Normal) \/ UNCHANGED outputVars
    BY <1>4 DEF EnterPrints
  <2>2. UNCHANGED view
    BY <1>4 DEF EnterPrints
  <2>3. text \in PrintedTexts
    <3>1. Len(command) \in Nat
      BY LenProperties DEF IInv, LineOK, Lines
    <3> QED BY <3>1, CommandLineViewAssumption DEF PrintedTexts
  <2> HIDE DEF text
  <2>4. CASE Echo(text, Normal)
    <3>1. screen' = echo(screen, text, Normal) /\ promised' = promised
      BY <2>4 DEF Echo
    <3> QED BY <1>1, <1>3, <2>2, <2>3, <3>1, TextsAre, EchoOK, DrawnIs
  <2>5. CASE UNCHANGED outputVars
    BY <1>1, <1>3, <2>2, <2>5, DrawnIs DEF outputVars
  <2> QED BY <2>1, <2>4, <2>5
<1>5. CASE KeyPressed \/ UNCHANGED screenVars
  BY <1>1, <1>3, <1>5, DrawnIs DEF KeyPressed, screenVars, outputVars
<1>6. CASE Printed
  BY <1>3, <1>6, PrintsOutput DEF Printed
<1>7. CASE Resized
  BY <1>3, <1>7, ResizesOutput DEF Resized
<1>8. CASE Clear
  <2>1. screen' = cleared(screen) /\ promised' = promised /\ view' = view
    BY <1>8 DEF Clear
  <2> QED BY <1>1, <1>3, <2>1, ClearedOK, DrawnIs
<1>9. CASE ExportView
  <2>1. screen' = screen /\ promised' = promised /\ view'.lines = screen.lines
    BY <1>9 DEF ExportView, outputVars
  <2>2. screen.lines \in Seq(LineRecords)
    BY <1>1, DisplayTypes
  <2>3. screen' \in Displays /\ Orderly(screen') /\ promised' \subseteq Texts
    BY <1>1, <2>1
  <2> QED BY <2>1, <2>2, <2>3 DEF OutputOK, LineRecords, PrintedTexts
<1>10. CASE ImportView
  <2> DEFINE s == [screen EXCEPT !.lines = view.lines]
  <2>1. screen' = redraw(s) /\ promised' = promised /\ view' = view
    BY <1>10 DEF ImportView
  <2>2. view.lines \in Seq(LineRecords)
    BY <1>10 DEF ImportView, OutputOK
  <2>3. s \in Displays
    BY <1>1, <2>2 DEF Displays
  <2> HIDE DEF s
  <2> QED BY <1>1, <1>3, <2>1, <2>3, RedrawOK, DrawnIs
<1> QED BY <1>4, <1>5, <1>6, <1>7, <1>8, <1>9, <1>10 DEF ScreenNext

(* However lines are printed, updated and flushed, the terminal is resized, *)
(* hidden, cleared or given another view, the screen shows the lines in     *)
(* their order, each once and, but for the first, whole, and without a      *)
(* limit none that is due is missing (terminal.js:3092-3164, 4317-4470).    *)
THEOREM ScreenShowsLines == ScreenSpec => []ScreenFollowsLines
<1>1. OutputOK => ScreenFollowsLines
  <2> SUFFICES ASSUME OutputOK PROVE ScreenFollowsLines
    OBVIOUS
  <2>1. /\ screen \in Displays /\ Placed(screen) /\ NoneMissing(screen)
        /\ DOMAIN screen.output = 1..Len(screen.output)
    BY DisplayTypes DEF OutputOK, Orderly
  <2> QED BY <2>1 DEF ScreenFollowsLines, Placed, NoneMissing, InOrder, Above, Shows
<1> QED BY <1>1, Invariance, InitOutput, NextOutput, PTL DEF ScreenSpec

-----------------------------------------------------------------------------
(* How many characters there are in lines.                                 *)

(* The characters in front of a line are counted line by line. *)
LEMMA BeforeIs ==
  ASSUME NEW lines \in Seq(Nat)
  PROVE  /\ Before(lines, 1) = 0
         /\ \A k \in 1..Len(lines) : Before(lines, k + 1) = Before(lines, k) + lines[k]
         /\ \A k \in 0..Len(lines) : Before(lines, k + 1) \in Nat
<1> DEFINE n == Len(lines)
           step == [p \in Nat \X (1..n) |-> p[1] + lines[p[2]]]
           F(f) == [k \in 0..n |-> IF k = 0 THEN 0 ELSE f[k - 1] + lines[k]]
           upto == CHOOSE f : f = F(f)
<1>1. n \in Nat /\ \A k \in 1..n : lines[k] \in Nat
  BY LenProperties, ElementOfSeq
<1>2. step \in Steps(Nat, n)
  BY <1>1 DEF Steps
<1>3. \E f : IsLoop(f, Nat, 0, n, step)
  <2> HIDE DEF step, n
  <2> QED BY <1>1, <1>2, LoopExists
<1>4. PICK f : /\ f \in [0..n -> Nat]
               /\ f[0] = 0 /\ \A k \in 1..n : f[k] = step[<<f[k - 1], k>>]
  BY <1>3 DEF IsLoop
<1>5. f = F(f)
  <2>1. ASSUME NEW k \in 1..n PROVE step[<<f[k - 1], k>>] = f[k - 1] + lines[k]
    <3>1. k - 1 \in 0..n
      BY <1>1
    <3>2. f[k - 1] \in Nat
      BY <1>4, <3>1
    <3> HIDE DEF n
    <3> QED BY <3>2
  <2>2. \A k \in 0..n : f[k] = IF k = 0 THEN 0 ELSE f[k - 1] + lines[k]
    <3>1. \A k \in 0..n : k = 0 \/ k \in 1..n
      BY <1>1
    <3> HIDE DEF step, n
    <3> QED BY <1>4, <2>1, <3>1
  <2> HIDE DEF step, n
  <2> QED BY <1>4, <2>2
<1>6. upto = F(upto)
  <2> HIDE DEF F
  <2> QED BY <1>5
<1>7. \A k \in Int : Before(lines, k) = upto[k - 1]
  BY DEF Before
<1> HIDE DEF upto
<1>8. upto[0] = 0 /\ \A k \in 1..n : upto[k] = upto[k - 1] + lines[k]
  BY <1>1, <1>6
<1> DEFINE S == {k \in 0..n : upto[k] \in Nat}
<1>9. ASSUME NEW k \in 1..n, k - 1 \in S PROVE k \in S
  <2> HIDE DEF n
  <2> QED BY <1>1, <1>8, <1>9
<1>10. \A k \in 0..n : k \in S
  <2>1. 0 \in S
    BY <1>1, <1>8
  <2> HIDE DEF S, n
  <2> QED BY <1>1, <1>9, <2>1, Reaches
<1> HIDE DEF n
<1>11. /\ Before(lines, 1) = upto[0]
       /\ \A k \in 0..n : Before(lines, k + 1) = upto[k]
       /\ \A k \in 1..n : Before(lines, k) = upto[k - 1]
  <2>1. /\ 1 \in Int /\ 1 - 1 = 0 /\ \A k \in 1..n : k \in Int
        /\ \A k \in 0..n : k + 1 \in Int /\ (k + 1) - 1 = k
    BY <1>1
  <2>2. Before(lines, 1) = upto[0] /\ \A k \in 1..n : Before(lines, k) = upto[k - 1]
    BY <1>7, <2>1
  <2>3. \A k \in 0..n : Before(lines, k + 1) = upto[(k + 1) - 1]
    BY <1>7, <2>1, Zenon
  <2> QED BY <2>1, <2>2, <2>3
<1>12. \A k \in 1..n : k \in 0..n
  BY <1>1
<1> QED BY <1>8, <1>10, <1>11, <1>12 DEF n

(* What counts the same line by line is the same. *)
LEMMA CountIsBefore ==
  ASSUME NEW lines \in Seq(Nat), NEW g,
         g[0] = 0, \A k \in 1..Len(lines) : g[k] = g[k - 1] + lines[k]
  PROVE  \A k \in 0..Len(lines) : Before(lines, k + 1) = g[k]
<1> DEFINE n == Len(lines)
           S == {k \in 0..n : Before(lines, k + 1) = g[k]}
<1>1. n \in Nat
  BY LenProperties
<1>2. 0 \in S
  BY <1>1, BeforeIs
<1>3. ASSUME NEW k \in 1..n, k - 1 \in S PROVE k \in S
  <2>1. k - 1 + 1 = k /\ k \in 0..n
    BY <1>1
  <2>2. Before(lines, k) = g[k - 1]
    BY <1>3, <2>1
  <2>3. Before(lines, k + 1) = Before(lines, k) + lines[k]
    BY BeforeIs
  <2>4. g[k] = g[k - 1] + lines[k]
    OBVIOUS
  <2> HIDE DEF n
  <2> QED BY <2>1, <2>2, <2>3, <2>4
<1>4. \A k \in 0..n : k \in S
  <2> HIDE DEF S, n
  <2> QED BY <1>1, <1>2, <1>3, Reaches
<1> QED BY <1>4

Total(lines) == Before(lines, Len(lines) + 1)

(* One line has its own characters, two sequences of lines have theirs. *)
LEMMA TotalOfOne ==
  ASSUME NEW len \in Nat
  PROVE  <<len>> \in Seq(Nat) /\ Total(<<len>>) = len
<1>1. <<len>> \in Seq(Nat) /\ Len(<<len>>) = 1 /\ <<len>>[1] = len
  OBVIOUS
<1>2. 1 \in 1..Len(<<len>>)
  BY <1>1
<1>3. Before(<<len>>, 1 + 1) = Before(<<len>>, 1) + <<len>>[1] /\ Before(<<len>>, 1) = 0
  BY <1>1, <1>2, BeforeIs
<1> QED BY <1>1, <1>3 DEF Total

LEMMA TotalIsNat ==
  ASSUME NEW lines \in Seq(Nat)
  PROVE  Total(lines) \in Nat
<1>1. Len(lines) \in 0..Len(lines)
  BY LenProperties
<1> QED BY <1>1, BeforeIs DEF Total

LEMMA TotalOfTwo ==
  ASSUME NEW u \in Seq(Nat), NEW v \in Seq(Nat)
  PROVE  /\ u \o v \in Seq(Nat) /\ Len(u \o v) = Len(u) + Len(v)
         /\ Total(u \o v) = Total(u) + Total(v)
<1> DEFINE w == u \o v
           m == Len(u)
           n == Len(v)
           g == [k \in 0..(m + n) |-> IF k <= m THEN Before(u, k + 1)
                                      ELSE Total(u) + Before(v, k - m + 1)]
<1>1. /\ m \in Nat /\ n \in Nat /\ w \in Seq(Nat) /\ Len(w) = m + n
      /\ \A k \in 1..(m + n) : w[k] = IF k <= m THEN u[k] ELSE v[k - m]
  BY LenProperties, ConcatProperties
<1>2. /\ Total(u) = Before(u, m + 1) /\ Total(v) = Before(v, n + 1) /\ Total(w) = Before(w, m + n + 1)
  BY <1>1 DEF Total
<1> HIDE DEF w
<1>3. /\ \A k \in 1..m : u[k] \in Nat
      /\ \A k \in 1..n : v[k] \in Nat
  BY ElementOfSeq
<1>4. /\ Before(u, 1) = 0 /\ Before(v, 1) = 0
      /\ \A k \in 1..m : Before(u, k + 1) = Before(u, k) + u[k]
      /\ \A k \in 1..n : Before(v, k + 1) = Before(v, k) + v[k]
      /\ \A k \in 0..m : Before(u, k + 1) \in Nat
      /\ \A k \in 0..n : Before(v, k + 1) \in Nat
  BY BeforeIs
<1> HIDE DEF m, n
<1>5. Total(u) \in Nat
  <2>1. m \in 0..m
    BY <1>1
  <2> QED BY <1>2, <1>4, <2>1
<1>6. g[0] = 0
  BY <1>1, <1>4
<1>7. ASSUME NEW k \in 1..(m + n) PROVE g[k] = g[k - 1] + w[k]
  <2>1. k \in 0..(m + n) /\ k - 1 \in 0..(m + n) /\ k - 1 + 1 = k
    BY <1>1
  <2>2. CASE k <= m
    <3>1. k \in 1..m /\ k - 1 <= m
      BY <1>1, <2>2
    <3>2. g[k] = Before(u, k + 1) /\ g[k - 1] = Before(u, k) /\ w[k] = u[k]
      BY <1>1, <2>1, <2>2, <3>1
    <3> QED BY <1>4, <3>1, <3>2
  <2>3. CASE ~(k <= m)
    <3>1. k - m \in 1..n /\ k - 1 - m + 1 = k - m /\ k - m \in Int
      BY <1>1, <2>3
    <3>2. g[k] = Total(u) + Before(v, k - m + 1) /\ w[k] = v[k - m]
      BY <1>1, <2>1, <2>3
    <3>3. g[k - 1] = Total(u) + Before(v, k - m)
      <4>1. CASE k - 1 <= m
        <5>1. k - 1 = m /\ k - m = 1
          BY <1>1, <2>3, <4>1
        <5>2. g[k - 1] = Before(u, m + 1)
          BY <2>1, <4>1, <5>1
        <5> QED BY <1>2, <1>4, <1>5, <5>1, <5>2
      <4>2. CASE ~(k - 1 <= m)
        BY <2>1, <3>1, <4>2
      <4> QED BY <4>1, <4>2
    <3>4. /\ Before(v, k - m + 1) = Before(v, k - m) + v[k - m]
          /\ v[k - m] \in Nat /\ Before(v, k - m + 1) \in Nat /\ Before(v, k - m) \in Nat
      <4>1. k - m - 1 \in 0..n /\ k - m \in 0..n /\ k - m - 1 + 1 = k - m
        BY <1>1, <3>1
      <4> QED BY <1>3, <1>4, <3>1, <4>1
    <3> HIDE DEF g
    <3> QED BY <1>5, <3>2, <3>3, <3>4
  <2> QED BY <2>2, <2>3
<1>8. \A k \in 0..(m + n) : Before(w, k + 1) = g[k]
  <2> HIDE DEF g
  <2>1. \A k \in 1..Len(w) : g[k] = g[k - 1] + w[k]
    BY <1>1, <1>7
  <2>2. \A k \in 0..Len(w) : Before(w, k + 1) = g[k]
    <3>1. w \in Seq(Nat)
      BY <1>1
    <3> QED BY <1>6, <2>1, <3>1, CountIsBefore, Zenon
  <2> QED BY <1>1, <2>2
<1>9. g[m + n] = Total(u) + Total(v)
  <2>1. m + n \in 0..(m + n) /\ m + n - m = n
    BY <1>1
  <2>2. CASE n = 0
    <3>1. m + n = m /\ n + 1 = 1
      BY <1>1, <2>2
    <3> QED BY <1>1, <1>2, <1>4, <1>5, <2>1, <3>1
  <2>3. CASE n # 0
    <3>1. ASSUME NEW k \in 0..(m + n), ~(k <= m), k - m = n
          PROVE  g[k] = Total(u) + Before(v, n + 1)
      <4>1. g[k] = Total(u) + Before(v, k - m + 1)
        BY <3>1
      <4> HIDE DEF g
      <4> QED BY <3>1, <4>1
    <3> HIDE DEF g
    <3>2. \E k \in 0..(m + n) : k = m + n /\ ~(k <= m) /\ k - m = n
      BY <1>1, <2>3
    <3> QED BY <1>2, <3>1, <3>2
  <2> QED BY <2>2, <2>3
<1>10. Total(w) = g[m + n]
  <2>1. m + n \in 0..(m + n)
    BY <1>1
  <2> HIDE DEF g
  <2> QED BY <1>2, <1>8, <2>1
<1> QED BY <1>1, <1>9, <1>10 DEF w, m, n

(* The last line may grow. *)
LEMMA TotalOfLonger ==
  ASSUME NEW lines \in Seq(Nat), Len(lines) # 0
  PROVE  LET longer == [lines EXCEPT ![Len(lines)] = @ + 1]
         IN longer \in Seq(Nat) /\ Len(longer) = Len(lines) /\ Total(longer) = Total(lines) + 1
<1> DEFINE n == Len(lines)
           longer == [lines EXCEPT ![n] = @ + 1]
           g == [k \in 0..n |-> IF k = n THEN Before(lines, k + 1) + 1 ELSE Before(lines, k + 1)]
<1>1. n \in Nat \ {0} /\ n \in 1..n /\ \A k \in 1..n : lines[k] \in Nat
  BY LenProperties, ElementOfSeq
<1>2. longer \in Seq(Nat) /\ Len(longer) = n
  <2>1. lines[n] + 1 \in Nat
    BY <1>1
  <2> QED BY <1>1, <2>1, ExceptSeq
<1>3. \A k \in 1..n : longer[k] = IF k = n THEN lines[k] + 1 ELSE lines[k]
  <2>1. DOMAIN lines = 1..n
    BY LenProperties
  <2> HIDE DEF n
  <2> QED BY <2>1
<1> HIDE DEF longer
<1>4. /\ Before(lines, 1) = 0
      /\ \A k \in 1..n : Before(lines, k + 1) = Before(lines, k) + lines[k]
      /\ \A k \in 0..n : Before(lines, k + 1) \in Nat
  BY BeforeIs
<1>5. Total(lines) = Before(lines, n + 1) /\ Total(longer) = Before(longer, n + 1)
  BY <1>2 DEF Total
<1> HIDE DEF n
<1>6. g[0] = 0
  BY <1>1, <1>4
<1>7. ASSUME NEW k \in 1..n PROVE g[k] = g[k - 1] + longer[k]
  <2>1. k \in 0..n /\ k - 1 \in 0..n /\ k - 1 # n /\ k - 1 + 1 = k
    BY <1>1
  <2>2. Before(lines, k - 1 + 1) \in Nat /\ g[k - 1] = Before(lines, k - 1 + 1)
    BY <1>4, <2>1
  <2>3. Before(lines, k) \in Nat /\ g[k - 1] = Before(lines, k)
    BY <2>1, <2>2
  <2>4. g[k] = IF k = n THEN Before(lines, k) + lines[k] + 1 ELSE Before(lines, k) + lines[k]
    BY <1>4, <2>1
  <2>5. lines[k] \in Nat
    BY <1>1
  <2> HIDE DEF g
  <2> QED BY <1>3, <2>3, <2>4, <2>5
<1>8. \A k \in 0..n : Before(longer, k + 1) = g[k]
  <2> HIDE DEF g
  <2> QED BY <1>2, <1>6, <1>7, CountIsBefore
<1>9. n \in 0..n /\ g[n] = Before(lines, n + 1) + 1
  BY <1>1
<1> HIDE DEF g
<1> QED BY <1>2, <1>5, <1>8, <1>9 DEF longer, n

\* Some lines, which have len characters together.
IsSplit(lines, len) == lines \in Seq(Nat) /\ Len(lines) \in Nat \ {0} /\ Total(lines) = len

LEMMA SplitOfTwo ==
  ASSUME NEW a \in Nat, NEW b \in Nat, NEW u, NEW v, IsSplit(u, a), IsSplit(v, b)
  PROVE  IsSplit(u \o v, a + b)
BY TotalOfTwo DEF IsSplit

LEMMA SplitOfOne ==
  ASSUME NEW len \in Nat
  PROVE  IsSplit(<<len>>, len)
<1>1. Len(<<len>>) = 1
  OBVIOUS
<1> QED BY <1>1, TotalOfOne DEF IsSplit

-----------------------------------------------------------------------------
(* How the command is split.                                               *)

(* str_parts cuts whole lines off and leaves the rest. *)
LEMMA StrPartsIs ==
  ASSUME num_chars \in Nat \ {0}, NEW len \in Nat
  PROVE  IsSplit(str_parts(len), len)
<1> DEFINE w == num_chars
           m == (len + w - 1) \div w
           part(i) == Least({w, len - (i - 1) * w})
           parts == [i \in 1..m |-> part(i)]
           g == [i \in 0..m |-> IF i * w <= len THEN i * w ELSE len]
<1>1. CASE len < w
  BY <1>1, SplitOfOne DEF str_parts
<1>2. CASE ~(len < w)
  <2>1. str_parts(len) = parts
    BY <1>2 DEF str_parts
  <2>2. w \in Nat \ {0} /\ len + w - 1 \in Nat /\ len >= w
    BY <1>2
  <2> HIDE DEF w
  <2>3. m \in Nat /\ m * w <= len + w - 1 /\ len + w - 1 < m * w + w
    <3>1. \A a \in Nat : LET q == a \div w
                         IN q \in Nat /\ q * w <= a /\ a < q * w + w
      BY <2>2
    <3> QED BY <2>2, <3>1
  <2> HIDE DEF m
  <2>4. m # 0 /\ m * w >= len /\ (m - 1) * w < len
    <3>1. 0 * w = 0 /\ (m - 1) * w = m * w - w /\ m * w \in Nat
      BY <2>2, <2>3
    <3> QED BY <2>2, <2>3, <3>1
  <2>5. ASSUME NEW i \in 1..m
        PROVE  /\ part(i) = IF w <= len - (i - 1) * w THEN w ELSE len - (i - 1) * w
               /\ part(i) \in Nat
               /\ i * w = (i - 1) * w + w
               /\ (i - 1) * w < len
    <3>1. (i - 1) * w \in Nat /\ len - (i - 1) * w \in Int /\ w \in Int
      BY <2>2, <2>3
    <3>2. part(i) = IF w <= len - (i - 1) * w THEN w ELSE len - (i - 1) * w
      BY <3>1, OfTwo
    <3>3. i * w = (i - 1) * w + w
      BY <2>2, <2>3
    <3>4. (i - 1) * w <= (m - 1) * w
      BY <2>2, <2>3
    <3>5. (i - 1) * w < len
      BY <2>2, <2>3, <2>4, <3>1, <3>4
    <3> HIDE DEF part
    <3> QED BY <2>2, <3>1, <3>2, <3>3, <3>5
  <2> HIDE DEF part
  <2>6. /\ parts \in Seq(Nat) /\ Len(parts) = m
        /\ \A i \in 1..m : parts[i] = part(i)
    <3>1. parts \in [1..m -> Nat] /\ \A i \in 1..m : parts[i] = part(i)
      BY <2>5
    <3> HIDE DEF parts
    <3> QED BY <2>3, <3>1
  <2> HIDE DEF parts
  <2>7. g[0] = 0
    <3>1. 0 * w = 0
      BY <2>2
    <3> QED BY <2>3, <3>1
  <2>8. ASSUME NEW i \in 1..Len(parts) PROVE g[i] = g[i - 1] + parts[i]
    <3>1. i \in 1..m /\ i \in 0..m /\ i - 1 \in 0..m
      BY <2>3, <2>6
    <3>2. /\ g[i] = IF i * w <= len THEN i * w ELSE len
          /\ g[i - 1] = IF (i - 1) * w <= len THEN (i - 1) * w ELSE len
      BY <3>1
    <3>3. (i - 1) * w \in Nat /\ i * w \in Nat
      BY <2>2, <3>1
    <3>4. \A x, y \in Nat : y = x + w /\ x < len =>
            /\ x <= len
            /\ (IF y <= len THEN y ELSE len) = x + (IF w <= len - x THEN w ELSE len - x)
      BY <2>2
    <3>5. /\ (i - 1) * w <= len
          /\ (IF i * w <= len THEN i * w ELSE len)
               = (i - 1) * w + (IF w <= len - (i - 1) * w THEN w ELSE len - (i - 1) * w)
      BY <2>5, <3>1, <3>3, <3>4, Zenon
    <3>6. /\ g[i - 1] = (i - 1) * w
          /\ parts[i] = IF w <= len - (i - 1) * w THEN w ELSE len - (i - 1) * w
      BY <2>5, <2>6, <3>1, <3>2, <3>5, Zenon
    <3> HIDE DEF g
    <3> QED BY <3>2, <3>5, <3>6, Zenon
  <2>9. Total(parts) = g[m]
    <3> HIDE DEF g
    <3>1. Len(parts) \in 0..Len(parts)
      BY <2>3, <2>6
    <3> QED BY <2>6, <2>7, <2>8, <3>1, CountIsBefore DEF Total
  <2>10. g[m] = len
    <3>1. m \in 0..m
      BY <2>3
    <3> QED BY <2>2, <2>3, <2>4, <3>1
  <2> HIDE DEF g
  <2> QED BY <2>1, <2>3, <2>4, <2>6, <2>9, <2>10 DEF IsSplit
<1> QED BY <1>1, <1>2

(* The command's own lines hold the whole command. *)
LEMMA OwnLinesIs ==
  ASSUME command \in Lines
  PROVE  IsSplit(OwnLines, Len(command))
<1> DEFINE n == Len(command)
           Splits == {lines \in Seq(Nat) : Len(lines) # 0}
           longer(lines) == [lines EXCEPT ![Len(lines)] = @ + 1]
           next(lines, i) == IF command[i] = NewLine THEN Append(longer(lines), 0) ELSE longer(lines)
           step == [p \in Splits \X (1..n) |-> next(p[1], p[2])]
           F(f) == [i \in 0..n |-> IF i = 0 THEN <<0>> ELSE next(f[i - 1], i)]
           upto == CHOOSE f : f = F(f)
<1>1. n \in Nat
  BY LenProperties DEF Lines
<1>2. ASSUME NEW lines \in Splits, NEW i
      PROVE  next(lines, i) \in Splits /\ Total(next(lines, i)) = Total(lines) + 1
  <2> DEFINE long == longer(lines)
  <2>1. /\ long \in Seq(Nat) /\ Len(long) = Len(lines) /\ Len(lines) \in Nat \ {0}
        /\ Total(long) = Total(lines) + 1 /\ Total(lines) \in Nat
    BY TotalOfLonger, TotalIsNat, LenProperties
  <2>2. next(lines, i) = IF command[i] = NewLine THEN Append(long, 0) ELSE long
    OBVIOUS
  <2> HIDE DEF long, next
  <2>3. Append(long, 0) = long \o <<0>>
    BY <2>1, AppendIsConcat
  <2>4. /\ long \o <<0>> \in Seq(Nat) /\ Len(long \o <<0>>) = Len(long) + 1
        /\ Total(long \o <<0>>) = Total(long)
    <3>1. <<0>> \in Seq(Nat) /\ Total(<<0>>) = 0 /\ Len(<<0>>) = 1
      BY TotalOfOne
    <3>2. /\ long \o <<0>> \in Seq(Nat) /\ Len(long \o <<0>>) = Len(long) + Len(<<0>>)
          /\ Total(long \o <<0>>) = Total(long) + Total(<<0>>)
      BY <2>1, <3>1, TotalOfTwo, Zenon
    <3> QED BY <2>1, <3>1, <3>2
  <2> DEFINE more == long \o <<0>>
  <2>5. more \in Splits /\ Total(more) = Total(lines) + 1
    <3> HIDE DEF more
    <3> QED BY <2>1, <2>4 DEF more
  <2>6. long \in Splits
    BY <2>1
  <2> HIDE DEF more, Splits
  <2> QED BY <2>1, <2>2, <2>3, <2>5, <2>6, Zenon DEF more
<1>3. <<0>> \in Splits /\ Total(<<0>>) = 0
  <2>1. Len(<<0>>) = 1
    OBVIOUS
  <2> QED BY <2>1, TotalOfOne
<1> HIDE DEF next
<1>4. step \in Steps(Splits, n)
  <2> HIDE DEF Splits
  <2> QED BY <1>2 DEF Steps
<1>5. \E f : IsLoop(f, Splits, <<0>>, n, step)
  <2> HIDE DEF step, n, Splits
  <2> QED BY <1>1, <1>3, <1>4, LoopExists
<1>6. PICK f : /\ f \in [0..n -> Splits]
               /\ f[0] = <<0>> /\ \A i \in 1..n : f[i] = step[<<f[i - 1], i>>]
  BY <1>5 DEF IsLoop
<1>7. f = F(f)
  <2>1. ASSUME NEW i \in 1..n PROVE step[<<f[i - 1], i>>] = next(f[i - 1], i)
    <3>1. i - 1 \in 0..n
      BY <1>1
    <3> HIDE DEF Splits, n
    <3>2. f[i - 1] \in Splits
      BY <1>6, <3>1
    <3> QED BY <3>2
  <2>2. \A i \in 0..n : f[i] = IF i = 0 THEN <<0>> ELSE next(f[i - 1], i)
    <3>1. \A i \in 0..n : i = 0 \/ i \in 1..n
      BY <1>1
    <3> HIDE DEF step, n
    <3> QED BY <1>6, <2>1, <3>1
  <2> HIDE DEF step, n, Splits
  <2> QED BY <1>6, <2>2
<1>8. upto = F(upto)
  <2> HIDE DEF F
  <2> QED BY <1>7
<1>9. OwnLines = upto[n]
  BY DEF OwnLines, next
<1> HIDE DEF upto
<1>10. upto[0] = <<0>> /\ \A i \in 1..n : upto[i] = next(upto[i - 1], i)
  BY <1>1, <1>8
<1> DEFINE S == {i \in 0..n : upto[i] \in Splits /\ Total(upto[i]) = i}
<1>11. ASSUME NEW i \in 1..n, i - 1 \in S PROVE i \in S
  <2>1. i \in 0..n /\ i - 1 + 1 = i
    BY <1>1
  <2> HIDE DEF Splits, n
  <2>2. upto[i - 1] \in Splits /\ Total(upto[i - 1]) = i - 1 /\ upto[i] = next(upto[i - 1], i)
    BY <1>10, <1>11
  <2>3. upto[i] \in Splits /\ Total(upto[i]) = i - 1 + 1
    BY <1>2, <2>2
  <2> QED BY <2>1, <2>3
<1>12. n \in S
  <2>1. 0 \in S /\ n \in 0..n
    <3> HIDE DEF Splits
    <3> QED BY <1>1, <1>3, <1>10
  <2> HIDE DEF S, n
  <2> QED BY <1>1, <1>11, <2>1, Reaches
<1> HIDE DEF n
<1> QED BY <1>9, <1>12, LenProperties DEF IsSplit, n

(* The screen lines hold what the command's own lines hold. *)
LEMMA SplitLinesIs ==
  ASSUME num_chars \in Nat \ {0}, prompt_len \in Nat, NEW len, NEW own, IsSplit(own, len)
  PROVE  IsSplit(Split(own), len)
<1> DEFINE n == Len(own) - 1
           first == Room(num_chars - prompt_len - 1)
           beside == IF own[1] > first THEN <<first>> \o str_parts(own[1] - first) ELSE <<own[1]>>
           Splits == {lines \in Seq(Nat) : Len(lines) # 0}
           next(lines, i) == lines \o str_parts(own[i + 1])
           step == [p \in Splits \X (1..n) |-> next(p[1], p[2])]
           F(f) == [i \in 0..n |-> IF i = 0 THEN beside ELSE next(f[i - 1], i)]
           upto == CHOOSE f : f = F(f)
<1>1. /\ own \in Seq(Nat) /\ n \in Nat /\ Total(own) = Before(own, n + 2)
      /\ own[1] \in Nat /\ \A i \in 1..n : own[i + 1] \in Nat
      /\ len = Total(own)
  <2>1. /\ own \in Seq(Nat) /\ Len(own) \in Nat \ {0} /\ len = Total(own)
        /\ \A i \in 1..Len(own) : own[i] \in Nat
    BY ElementOfSeq DEF IsSplit
  <2>2. n + 2 = Len(own) + 1 /\ n \in Nat /\ 1 \in 1..Len(own) /\ \A i \in 1..n : i + 1 \in 1..Len(own)
    BY <2>1
  <2> HIDE DEF n
  <2> QED BY <2>1, <2>2 DEF Total
<1>2. IsSplit(beside, own[1])
  <2>1. first \in Nat
    BY OfTwo DEF Room
  <2> HIDE DEF first
  <2>2. CASE own[1] > first
    <3>1. own[1] - first \in Nat /\ first + (own[1] - first) = own[1]
      BY <1>1, <2>1, <2>2
    <3>2. IsSplit(<<first>>, first) /\ IsSplit(str_parts(own[1] - first), own[1] - first)
      BY <2>1, <3>1, SplitOfOne, StrPartsIs
    <3>3. IsSplit(<<first>> \o str_parts(own[1] - first), first + (own[1] - first))
      BY <2>1, <3>1, <3>2, SplitOfTwo
    <3> QED BY <2>2, <3>1, <3>3
  <2>3. CASE ~(own[1] > first)
    BY <1>1, <2>3, SplitOfOne
  <2> QED BY <2>2, <2>3
<1> HIDE DEF beside
<1>3. beside \in Splits /\ Total(beside) = own[1]
  BY <1>2 DEF IsSplit
<1>4. ASSUME NEW lines \in Splits, NEW i \in 1..n
      PROVE  next(lines, i) \in Splits /\ Total(next(lines, i)) = Total(lines) + own[i + 1]
  <2>1. own[i + 1] \in Nat
    BY <1>1
  <2>2. IsSplit(lines, Total(lines)) /\ Total(lines) \in Nat
    BY TotalIsNat, LenProperties DEF IsSplit
  <2>3. IsSplit(str_parts(own[i + 1]), own[i + 1])
    BY <2>1, StrPartsIs
  <2>4. IsSplit(next(lines, i), Total(lines) + own[i + 1])
    BY <2>1, <2>2, <2>3, SplitOfTwo
  <2> HIDE DEF next
  <2> QED BY <2>4 DEF IsSplit
<1> HIDE DEF next
<1>5. step \in Steps(Splits, n)
  <2> HIDE DEF Splits, n
  <2> QED BY <1>4 DEF Steps
<1>6. \E f : IsLoop(f, Splits, beside, n, step)
  <2> HIDE DEF step, n, Splits
  <2> QED BY <1>1, <1>3, <1>5, LoopExists
<1>7. PICK f : /\ f \in [0..n -> Splits]
               /\ f[0] = beside /\ \A i \in 1..n : f[i] = step[<<f[i - 1], i>>]
  BY <1>6 DEF IsLoop
<1>8. f = F(f)
  <2>1. ASSUME NEW i \in 1..n PROVE step[<<f[i - 1], i>>] = next(f[i - 1], i)
    <3>1. i - 1 \in 0..n
      BY <1>1
    <3> HIDE DEF Splits, n
    <3>2. f[i - 1] \in Splits
      BY <1>7, <3>1
    <3> QED BY <3>2
  <2>2. \A i \in 0..n : f[i] = IF i = 0 THEN beside ELSE next(f[i - 1], i)
    <3>1. \A i \in 0..n : i = 0 \/ i \in 1..n
      BY <1>1
    <3> HIDE DEF step, n
    <3> QED BY <1>7, <2>1, <3>1
  <2> HIDE DEF step, n, Splits
  <2> QED BY <1>7, <2>2
<1>9. upto = F(upto)
  <2> HIDE DEF F
  <2> QED BY <1>8
<1>10. Split(own) = upto[n]
  BY DEF Split, beside, next
<1> HIDE DEF upto
<1>11. upto[0] = beside /\ \A i \in 1..n : upto[i] = next(upto[i - 1], i)
  <2> HIDE DEF n
  <2> QED BY <1>1, <1>9
<1> DEFINE S == {i \in 0..n : upto[i] \in Splits /\ Total(upto[i]) = Before(own, i + 2)}
<1>12. 0 \in S
  <2>1. 1 \in 1..Len(own) /\ 0 \in 0..n
    BY <1>1
  <2>2. Before(own, 1 + 1) = Before(own, 1) + own[1] /\ Before(own, 1) = 0
    BY <1>1, <2>1, BeforeIs
  <2>3. Before(own, 0 + 2) = own[1]
    BY <1>1, <2>2
  <2> HIDE DEF Splits, n
  <2> QED BY <1>3, <1>11, <2>1, <2>3
<1>13. ASSUME NEW i \in 1..n, i - 1 \in S PROVE i \in S
  <2>1. i \in 0..n /\ i - 1 + 2 = i + 1 /\ i + 1 + 1 = i + 2 /\ i + 1 \in 1..Len(own)
    BY <1>1
  <2>2. Before(own, i + 1 + 1) = Before(own, i + 1) + own[i + 1]
    BY <1>1, <2>1, BeforeIs
  <2> HIDE DEF Splits, n
  <2>3. upto[i - 1] \in Splits /\ Total(upto[i - 1]) = Before(own, i - 1 + 2)
        /\ upto[i] = next(upto[i - 1], i)
    BY <1>11, <1>13
  <2>4. upto[i] \in Splits /\ Total(upto[i]) = Total(upto[i - 1]) + own[i + 1]
    BY <1>4, <2>3
  <2> QED BY <2>1, <2>2, <2>3, <2>4
<1>14. n \in S
  <2>1. n \in 0..n
    <3> HIDE DEF n
    <3> QED BY <1>1
  <2> HIDE DEF S, n
  <2> QED BY <1>1, <1>12, <1>13, <2>1, Reaches
<1> HIDE DEF n
<1> QED BY <1>1, <1>10, <1>14, LenProperties DEF IsSplit

(* There is a screen line, and the screen lines hold the whole command. *)
LEMMA ScreenLinesIs ==
  ASSUME command \in Lines, screen \in Displays
  PROVE  IsSplit(ScreenLines, Len(command))
<1> DEFINE len == Len(command)
           beside == Room(num_chars - prompt_len)
           first == Least({len, beside})
<1>1. len \in Nat
  BY LenProperties DEF Lines
<1>2. num_chars \in Nat \ {0}
  <2>1. screen.num_chars \in Nat /\ screen.window.width \in Nat \ {0}
    BY DisplayTypes, TerminalOutputAssumption
  <2> QED BY <2>1 DEF num_chars, Undefined
<1>3. prompt_len \in Nat
  BY <1>2, CommandLineViewAssumption DEF prompt_len
<1>4. IsSplit(Split(OwnLines), len)
  BY <1>2, <1>3, OwnLinesIs, SplitLinesIs
<1>5. IsSplit(get_splited_command_line(len), len)
  <2>1. get_splited_command_line(len) = <<first>> \o str_parts(len - first)
    BY DEF get_splited_command_line
  <2>2. beside \in Nat
    <3>1. num_chars - prompt_len \in Int
      BY <1>2, <1>3
    <3> QED BY <3>1, OfTwo DEF Room
  <2> HIDE DEF beside
  <2>3. first \in Nat /\ first <= len
    <3>1. first = IF len <= beside THEN len ELSE beside
      <4>1. len \in Int /\ beside \in Int
        BY <1>1, <2>2
      <4> QED BY <4>1, OfTwo
    <3> HIDE DEF first
    <3> QED BY <1>1, <2>2, <3>1
  <2> HIDE DEF first, len
  <2>4. len - first \in Nat /\ first + (len - first) = len
    BY <1>1, <2>3
  <2>5. IsSplit(<<first>>, first) /\ IsSplit(str_parts(len - first), len - first)
    BY <1>2, <2>3, <2>4, SplitOfOne, StrPartsIs
  <2>6. IsSplit(<<first>> \o str_parts(len - first), first + (len - first))
    BY <2>3, <2>4, <2>5, SplitOfTwo
  <2> QED BY <2>1, <2>4, <2>6
<1>6. IsSplit(<<len>>, len)
  BY <1>1, SplitOfOne
<1> QED BY <1>4, <1>5, <1>6 DEF ScreenLines

-----------------------------------------------------------------------------
(* Where the cursor is drawn.                                              *)

\* The cursor is in line k at column c, with `at` characters in front of it.
IsAt(lines, k, c, at) ==
  /\ k \in 1..Len(lines) /\ c \in 0..lines[k]
  /\ Before(lines, k) + c = at

(* Through all the lines that end in front of the position. *)
LEMMA InLineIs ==
  ASSUME NEW lines \in Seq(Nat), position \in Nat, Len(lines) # 0,
         position > lines[1], position < Before(lines, Len(lines))
  PROVE  IsAt(lines, InLine(lines)[1], InLine(lines)[2], position)
<1> DEFINE last == Len(lines)
           inside == {k \in DOMAIN lines : position <= Before(lines, k) + lines[k]}
           n == Least(inside)
           column == position - Before(lines, n)
<1>1. /\ last \in Nat \ {0} /\ DOMAIN lines = 1..last
      /\ \A k \in 1..last : lines[k] \in Nat
  BY LenProperties, ElementOfSeq
<1>2. /\ Before(lines, 1) = 0
      /\ \A k \in 1..last : Before(lines, k + 1) = Before(lines, k) + lines[k]
      /\ \A k \in 0..last : Before(lines, k + 1) \in Nat
  BY BeforeIs
<1>3. \A k \in 1..last : Before(lines, k) \in Nat
  <2>1. \A k \in 1..last : k - 1 \in 0..last /\ k - 1 + 1 = k
    BY <1>1
  <2> QED BY <1>2, <2>1
<1>4. last \in inside
  <2>1. position < Before(lines, last)
    OBVIOUS
  <2> HIDE DEF last
  <2>2. last \in 1..last /\ Before(lines, last) \in Nat /\ lines[last] \in Nat
    BY <1>1, <1>3
  <2>3. position <= Before(lines, last) + lines[last]
    BY <2>1, <2>2
  <2> QED BY <1>1, <2>2, <2>3
<1> HIDE DEF last
<1>5. n \in inside /\ \A k \in inside : n <= k
  <2>1. inside \in SUBSET Nat
    BY <1>1
  <2> HIDE DEF inside
  <2> QED BY <1>4, <2>1, LeastIs
<1>6. /\ n \in 1..last /\ position <= Before(lines, n) + lines[n]
      /\ \A k \in 1..last : k < n => position > Before(lines, k) + lines[k]
  <2>1. n \in 1..last /\ position <= Before(lines, n) + lines[n]
    BY <1>1, <1>5
  <2>2. ASSUME NEW k \in 1..last, k < n PROVE position > Before(lines, k) + lines[k]
    <3>1. k \notin inside
      <4>1. ~(n <= k)
        BY <1>1, <2>1, <2>2
      <4> HIDE DEF inside
      <4> QED BY <1>5, <4>1
    <3> QED BY <1>1, <1>3, <3>1
  <2> QED BY <2>1, <2>2
<1>7. InLine(lines) = IF column = lines[n] THEN <<n + 1, 0>> ELSE <<n, column>>
  BY DEF InLine
<1> HIDE DEF n
<1>8. n # 1
  BY <1>1, <1>2, <1>6
<1>9. n # last
  <2> SUFFICES ASSUME n = last PROVE FALSE
    OBVIOUS
  <2>1. last - 1 \in 1..last /\ last - 1 < n /\ last - 1 + 1 = last
    BY <1>1, <1>6, <1>8
  <2>2. position > Before(lines, last - 1) + lines[last - 1]
    BY <1>6, <2>1
  <2>3. Before(lines, last) = Before(lines, last - 1) + lines[last - 1]
    BY <1>2, <2>1
  <2> QED BY <2>2, <2>3, <1>3, <1>1 DEF last
<1>10. column \in Nat /\ column <= lines[n] /\ Before(lines, n) + column = position
  <2>1. n - 1 \in 1..last /\ n - 1 < n /\ n - 1 + 1 = n
    BY <1>1, <1>6, <1>8
  <2>2. position > Before(lines, n - 1) + lines[n - 1]
    BY <1>6, <2>1
  <2>3. Before(lines, n) = Before(lines, n - 1) + lines[n - 1]
    BY <1>2, <2>1
  <2>4. Before(lines, n) < position /\ Before(lines, n) \in Nat /\ lines[n] \in Nat
    BY <1>1, <1>3, <1>6, <2>2, <2>3
  <2> QED BY <1>6, <2>4
<1>11. CASE column = lines[n]
  <2>1. n + 1 \in 1..last /\ InLine(lines) = <<n + 1, 0>>
    BY <1>1, <1>6, <1>7, <1>9, <1>11
  <2>2. Before(lines, n + 1) = Before(lines, n) + lines[n]
    BY <1>2, <1>6
  <2>3. lines[n + 1] \in Nat
    BY <1>1, <2>1
  <2>4. Before(lines, n + 1) + 0 = position
    BY <1>10, <1>11, <2>2
  <2> QED BY <2>1, <2>3, <2>4 DEF IsAt, last
<1>12. CASE column # lines[n]
  <2>1. InLine(lines) = <<n, column>>
    BY <1>7, <1>12
  <2>2. column \in 0..lines[n]
    BY <1>1, <1>6, <1>10
  <2> HIDE DEF column
  <2> QED BY <1>6, <1>10, <2>1, <2>2 DEF IsAt, last
<1> QED BY <1>11, <1>12

(* Wherever the position is, in a command that is split anyhow. *)
LEMMA CursorPlaceIs ==
  ASSUME position \in 0..Len(command), IsSplit(ScreenLines, Len(command))
  PROVE  IsAt(ScreenLines, CursorPlace[1], CursorPlace[2],
              IF InTheMiddleOfThree THEN position - 1 ELSE position)
<1> DEFINE lines == ScreenLines
           len == Len(command)
           last == Len(lines)
           fromLast == len - position
<1>1. /\ lines \in Seq(Nat) /\ last \in Nat \ {0} /\ len = Before(lines, last + 1)
      /\ len \in Nat /\ position \in Nat /\ position <= len
      /\ \A k \in 1..last : lines[k] \in Nat
  <2>1. lines \in Seq(Nat) /\ last \in Nat \ {0} /\ len = Before(lines, last + 1)
    BY DEF IsSplit, Total
  <2>2. len \in Nat
    BY <2>1, TotalIsNat DEF Total
  <2>3. \A k \in 1..last : lines[k] \in Nat
    BY <2>1, ElementOfSeq
  <2> HIDE DEF lines, last
  <2> QED BY <2>1, <2>2, <2>3
<1>2. /\ Before(lines, 1) = 0
      /\ \A k \in 1..last : Before(lines, k + 1) = Before(lines, k) + lines[k]
      /\ \A k \in 0..last : Before(lines, k + 1) \in Nat
  BY <1>1, BeforeIs
<1>3. InTheMiddleOfThree <=> last = 3 /\ position > lines[1] /\ fromLast > lines[3]
  BY DEF InTheMiddleOfThree
<1>4. CursorPlace = IF last = 1 THEN <<1, position>>
                    ELSE IF position < lines[1] THEN <<1, position>>
                    ELSE IF position = lines[1] THEN <<2, 0>>
                    ELSE IF fromLast <= lines[last] THEN <<last, lines[last] - fromLast>>
                    ELSE IF last = 3 THEN <<2, position - lines[1] - 1>>
                    ELSE InLine(lines)
  BY DEF CursorPlace
<1> HIDE DEF lines, last, len
<1>5. /\ 1 \in 1..last /\ last \in 1..last
      /\ lines[1] \in Nat /\ lines[last] \in Nat
      /\ last # 1 => 2 \in 1..last /\ lines[2] \in Nat
  BY <1>1
<1>6. /\ Before(lines, 2) = lines[1]
      /\ len = Before(lines, last) + lines[last]
      /\ Before(lines, last) \in Nat
  <2>1. Before(lines, 1 + 1) = Before(lines, 1) + lines[1]
    BY <1>2, <1>5
  <2>2. Before(lines, last + 1) = Before(lines, last) + lines[last]
    BY <1>2, <1>5
  <2>3. last - 1 \in 0..last /\ last - 1 + 1 = last
    BY <1>1
  <2>4. Before(lines, last) \in Nat
    BY <1>2, <2>3
  <2> QED BY <1>1, <1>2, <1>5, <2>1, <2>2, <2>4
<1>7. \A k, c : IsAt(lines, k, c, position) <=>
                 k \in 1..last /\ c \in 0..lines[k] /\ Before(lines, k) + c = position
  BY DEF IsAt, last
<1>8. CASE last = 1
  <2>1. CursorPlace = <<1, position>> /\ ~InTheMiddleOfThree
    BY <1>3, <1>4, <1>8
  <2>2. position \in 0..lines[1]
    BY <1>1, <1>2, <1>5, <1>6, <1>8
  <2>3. IsAt(lines, 1, position, position)
    BY <1>1, <1>2, <1>5, <1>7, <2>2
  <2> QED BY <2>1, <2>3 DEF lines
<1> DEFINE f == lines[1]
           l == lines[last]
           b == Before(lines, last)
<1>9. /\ f \in Nat /\ l \in Nat /\ b \in Nat /\ len \in Nat /\ position \in Nat
      /\ last \in Nat \ {0} /\ len = b + l
      /\ last = 3 => l = lines[3]
  BY <1>1, <1>5, <1>6
<1>10. CASE last # 1 /\ position < lines[1]
  <2>1. CursorPlace = <<1, position>> /\ ~InTheMiddleOfThree
    BY <1>3, <1>4, <1>9, <1>10
  <2>2. position \in 0..lines[1] /\ Before(lines, 1) + position = position
    BY <1>2, <1>9, <1>10
  <2>3. IsAt(lines, 1, position, position)
    BY <1>5, <1>7, <2>2, Zenon
  <2> QED BY <2>1, <2>3 DEF lines
<1>11. CASE last # 1 /\ position = lines[1]
  <2>1. CursorPlace = <<2, 0>> /\ ~InTheMiddleOfThree
    BY <1>3, <1>4, <1>9, <1>11
  <2>2. 0 \in 0..lines[2] /\ Before(lines, 2) + 0 = position
    BY <1>5, <1>6, <1>9, <1>11
  <2>3. IsAt(lines, 2, 0, position)
    BY <1>5, <1>7, <1>11, <2>2, Zenon
  <2> QED BY <2>1, <2>3 DEF lines
<1>12. CASE last # 1 /\ position > lines[1] /\ fromLast <= lines[last]
  <2> DEFINE c == l - fromLast
  <2>1. CursorPlace = <<last, c>> /\ ~InTheMiddleOfThree
    <3>1. ~(position < f) /\ position # f /\ fromLast <= l
      <4> HIDE DEF l
      <4> QED BY <1>9, <1>12 DEF l
    <3>2. ~(last = 3 /\ fromLast > lines[3])
      <4> HIDE DEF l, f, b
      <4> QED BY <1>9, <3>1
    <3> HIDE DEF fromLast
    <3> QED BY <1>3, <1>4, <1>12, <3>1, <3>2
  <2>2. c \in 0..l /\ b + c = position
    <3>1. fromLast <= l /\ position <= len
      BY <1>1, <1>12
    <3> HIDE DEF l, b, f
    <3> QED BY <1>9, <3>1
  <2> HIDE DEF c
  <2>3. IsAt(lines, last, c, position)
    BY <1>5, <1>7, <2>2, Zenon
  <2> QED BY <2>1, <2>3 DEF lines
<1>13. CASE last = 3 /\ position > lines[1] /\ fromLast > lines[last]
  <2> DEFINE c == position - f - 1
             s == lines[2]
  <2>1. CursorPlace = <<2, c>> /\ InTheMiddleOfThree
    <3>1. last # 1 /\ ~(position < f) /\ position # f /\ ~(fromLast <= l)
      <4>1. position > f /\ fromLast > l
        BY <1>13
      <4> HIDE DEF l, f, b
      <4> QED BY <1>9, <1>13, <4>1
    <3> HIDE DEF fromLast
    <3> QED BY <1>3, <1>4, <1>13, <3>1
  <2>2. b = f + s /\ s \in Nat /\ Before(lines, 2) = f
    <3>1. Before(lines, 2 + 1) = Before(lines, 2) + lines[2]
      BY <1>2, <1>5, <1>13
    <3> QED BY <1>5, <1>6, <1>13, <3>1
  <2>3. c \in 0..s /\ f + c = position - 1
    <3>1. position > f /\ fromLast > l
      BY <1>13
    <3> HIDE DEF l, f, b, s
    <3> QED BY <1>9, <2>2, <3>1
  <2> HIDE DEF c
  <2>4. IsAt(lines, 2, c, position - 1)
    <3>1. 2 \in 1..last /\ Before(lines, 2) + c = position - 1
      BY <1>5, <1>13, <2>2, <2>3
    <3> QED BY <2>3, <3>1 DEF IsAt, last
  <2> QED BY <2>1, <2>4 DEF lines
<1>14. CASE last # 1 /\ last # 3 /\ position > lines[1] /\ fromLast > lines[last]
  <2>1. CursorPlace = InLine(lines) /\ ~InTheMiddleOfThree
    BY <1>1, <1>3, <1>4, <1>5, <1>14
  <2>2. position < Before(lines, Len(lines))
    <3>1. position < Before(lines, last)
      BY <1>1, <1>5, <1>6, <1>14
    <3> QED BY <3>1 DEF last
  <2>3. IsAt(lines, InLine(lines)[1], InLine(lines)[2], position)
    BY <1>1, <1>14, <2>2, InLineIs DEF last
  <2> QED BY <2>1, <2>3 DEF lines
<1>15. /\ position < f \/ position = f \/ position > f
       /\ fromLast <= l \/ fromLast > l
  <2> HIDE DEF f, l, b
  <2> QED BY <1>9
<1> QED BY <1>8, <1>10, <1>11, <1>12, <1>13, <1>14, <1>15, Zenon

(* However the command and the prompt are split over the screen lines, and   *)
(* whatever the width, the screen lines hold the whole command and the      *)
(* cursor is drawn in front of the character at its position, or one too    *)
(* far to the left in the middle of three lines (terminal.js:1069-1266).    *)
THEOREM CursorIsDrawn == ScreenSpec => []CursorIsAtPosition
<1>1. IInv /\ OutputOK => CursorIsAtPosition
  <2> SUFFICES ASSUME IInv, OutputOK PROVE CursorIsAtPosition
    OBVIOUS
  <2>1. command \in Lines /\ position \in 0..Len(command) /\ screen \in Displays
    BY DEF IInv, LineOK, OutputOK
  <2>2. IsSplit(ScreenLines, Len(command))
    BY <2>1, ScreenLinesIs
  <2>3. IsAt(ScreenLines, CursorPlace[1], CursorPlace[2],
             IF InTheMiddleOfThree THEN position - 1 ELSE position)
    BY <2>1, <2>2, CursorPlaceIs
  <2>4. DOMAIN ScreenLines = 1..Len(ScreenLines)
    BY <2>2, LenProperties DEF IsSplit
  <2> QED BY <2>2, <2>3, <2>4 DEF CursorIsAtPosition, IsSplit, IsAt, Total
<1> QED BY <1>1, Invariance, InitOutput, NextOutput, PTL DEF ScreenSpec

================================================================================
