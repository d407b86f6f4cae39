-------------------------- MODULE QueryBuildProofs --------------------------
(***************************************************************************)
(* Proofs about QueryBuild and QueryError, for every query the program may *)
(* write, as parts of a QueryCursor's specification.                       *)
(***************************************************************************)
EXTENDS QueryCursor, FiniteSetTheorems, SequenceTheorems, WellFoundedInduction, TLAPS

-----------------------------------------------------------------------------
(* The steps of a pattern.                                                  *)

Preds == [name : DOMAIN LengthOf, args : Seq(Arguments)]

AnyStep == Arguments \cup [type : {"string", "done"}, value : DOMAIN LengthOf \cup {NONE}]

LEMMA LeastNumber ==
  ASSUME NEW T, T \subseteq Nat, T # {}
  PROVE  \E x \in T : \A y \in T : x <= y
<1>1. PICK x \in T : \A y \in T : ~(<<y, x>> \in OpToRel(<, Nat))
  BY NatLessThanWellFounded, WFMin
<1>2. ASSUME NEW y \in T, y < x  PROVE  FALSE
  <2>1. <<y, x>> \in Nat \X Nat /\ <<y, x>>[1] < <<y, x>>[2]
    BY <1>2
  <2>. QED  BY <1>1, <2>1 DEF OpToRel
<1>. QED  BY <1>2

LEMMA PredType ==
  ASSUME NEW p \in Preds
  PROVE  /\ p.name \in DOMAIN LengthOf /\ p.args \in Seq(Arguments) /\ Len(p.args) \in Nat
         /\ \A a \in 1..Len(p.args) :
              p.args[a] \in Arguments /\ p.args[a].type \in {"capture", "string"}
<1>1. p.name \in DOMAIN LengthOf /\ p.args \in Seq(Arguments)
  BY DEF Preds
<1>2. \A a \in Arguments : a.type \in {"capture", "string"}
  BY DEF Arguments
<1>3. \A a \in 1..Len(p.args) : p.args[a] \in Arguments
  BY <1>1
<1>. QED  BY <1>1, <1>2, <1>3

LEMMA StepsOfPredicate ==
  ASSUME NEW p \in Preds
  PROVE  /\ StepsOf(p) \in Seq(AnyStep) /\ Len(StepsOf(p)) = Len(p.args) + 2
         /\ StepsOf(p)[1].type = "string" /\ StepsOf(p)[1].value = p.name
         /\ \A a \in 1..Len(p.args) : StepsOf(p)[1 + a] = p.args[a]
         /\ StepsOf(p)[Len(p.args) + 2].type = "done"
<1>. DEFINE first == [type |-> "string", value |-> p.name]
            last == [type |-> "done", value |-> NONE]
            head == <<first>>
            tail == <<last>>
            body == p.args
<1>1. first \in AnyStep /\ last \in AnyStep
  <2>1. p.name \in DOMAIN LengthOf
    BY PredType
  <2>. QED  BY <2>1 DEF AnyStep
<1>2. body \in Seq(AnyStep)
  <2>1. body \in Seq(Arguments) /\ Arguments \subseteq AnyStep
    BY PredType DEF AnyStep
  <2>. QED  BY <2>1
<1>3. /\ head \in Seq(AnyStep) /\ Len(head) = 1 /\ head[1] = first
      /\ tail \in Seq(AnyStep) /\ Len(tail) = 1 /\ tail[1] = last
      /\ first.type = "string" /\ first.value = p.name /\ last.type = "done"
  BY <1>1
<1>4. StepsOf(p) = (head \o body) \o tail
  BY DEF StepsOf
<1>. HIDE DEF first, last, head, tail, body
<1>. DEFINE front == head \o body
<1>5. /\ front \in Seq(AnyStep) /\ Len(front) = 1 + Len(body)
      /\ \A i \in 1..1 + Len(body) : front[i] = IF i <= 1 THEN head[i] ELSE body[i - 1]
  BY <1>2, <1>3, ConcatProperties
<1>. HIDE DEF front
<1>6. /\ front \o tail \in Seq(AnyStep) /\ Len(front \o tail) = Len(front) + 1
      /\ \A i \in 1..Len(front) + 1 :
           (front \o tail)[i] = IF i <= Len(front) THEN front[i] ELSE tail[i - Len(front)]
  <2>1. /\ front \o tail \in Seq(AnyStep) /\ Len(front \o tail) = Len(front) + Len(tail)
        /\ \A i \in 1..Len(front) + Len(tail) :
             (front \o tail)[i] = IF i <= Len(front) THEN front[i] ELSE tail[i - Len(front)]
    BY <1>3, <1>5, ConcatProperties
  <2>. QED  BY <2>1, <1>3
<1>7. StepsOf(p) = front \o tail
  BY <1>4 DEF front
<1>8. Len(body) \in Nat
  BY <1>2
<1>9. /\ StepsOf(p) \in Seq(AnyStep) /\ Len(StepsOf(p)) = Len(body) + 2
      /\ \A i \in 1..Len(body) + 2 :
           StepsOf(p)[i] = IF i <= 1 + Len(body) THEN front[i] ELSE tail[i - (1 + Len(body))]
  BY <1>5, <1>6, <1>7, <1>8
<1>10. StepsOf(p)[1] = first
  <2>1. front[1] = head[1]
    BY <1>5, <1>8
  <2>2. StepsOf(p)[1] = front[1]
    BY <1>8, <1>9
  <2>. QED  BY <2>1, <2>2, <1>3
<1>11. ASSUME NEW a \in 1..Len(body)  PROVE  StepsOf(p)[1 + a] = body[a]
  <2>1. 1 + a \in 1..1 + Len(body) /\ ~(1 + a <= 1) /\ (1 + a) - 1 = a /\ 1 + a \in 1..Len(body) + 2
    BY <1>8
  <2>2. front[1 + a] = body[a]
    BY <2>1, <1>5
  <2>. QED  BY <2>1, <2>2, <1>9
<1>12. StepsOf(p)[Len(body) + 2] = last
  <2>1. /\ Len(body) + 2 \in 1..Len(body) + 2 /\ ~(Len(body) + 2 <= 1 + Len(body))
        /\ (Len(body) + 2) - (1 + Len(body)) = 1
    BY <1>8
  <2>. QED  BY <2>1, <1>3, <1>9
<1>. QED  BY <1>3, <1>9, <1>10, <1>11, <1>12 DEF body

(* The recursion has a solution on every prefix: else on a shortest one it  *)
(* has none, and the solution on the one before can be extended.            *)
LEMMA StepsRecursion ==
  ASSUME NEW preds \in Seq(Preds)
  PROVE  /\ StepsUpTo(preds)[0] = <<>>
         /\ \A n \in 1..Len(preds) :
              StepsUpTo(preds)[n] = StepsUpTo(preds)[n - 1] \o StepsOf(preds[n])
<1>. DEFINE Rec(f, n) == IF n = 0 THEN <<>> ELSE f[n - 1] \o StepsOf(preds[n])
            Solves(f, n) == f = [i \in 0..n |-> Rec(f, i)]
            Bad == {n \in Nat : ~\E f : Solves(f, n)}
<1>1. 0 \notin Bad
  <2>. DEFINE f == [i \in 0..0 |-> <<>>]
  <2>1. \A i \in 0..0 : Rec(f, i) = <<>>
    OBVIOUS
  <2>2. Solves(f, 0)
    BY <2>1
  <2>. QED  BY <2>2
<1>2. ASSUME NEW n \in Nat, n + 1 \in Bad  PROVE  n \in Bad
  <2>1. SUFFICES ASSUME NEW f, Solves(f, n)  PROVE  FALSE
    OBVIOUS
  <2>. DEFINE g == [i \in 0..(n + 1) |-> IF i = n + 1 THEN Rec(f, n + 1) ELSE f[i]]
  <2>2. \A i \in 0..n : g[i] = f[i]
    OBVIOUS
  <2>3. \A i \in 0..(n + 1) : i # 0 => g[i - 1] = f[i - 1]
    <3>1. \A i \in 0..(n + 1) : i # 0 => i - 1 \in 0..n
      OBVIOUS
    <3>. HIDE DEF g
    <3>. QED  BY <3>1, <2>2
  <2>4. \A i \in 0..(n + 1) : Rec(g, i) = Rec(f, i)
    <3>. HIDE DEF g
    <3>. QED  BY <2>3
  <2>5. \A i \in 0..n : f[i] = Rec(f, i)
    <3>. HIDE DEF Rec
    <3>. QED  BY <2>1
  <2>6. \A i \in 0..(n + 1) : g[i] = Rec(f, i)
    <3>. HIDE DEF Rec
    <3>1. \A i \in 0..(n + 1) : i = n + 1 \/ i \in 0..n
      OBVIOUS
    <3>. QED  BY <2>2, <2>5, <3>1
  <2>7. Solves(g, n + 1)
    <3>1. g = [i \in 0..(n + 1) |-> g[i]]
      OBVIOUS
    <3>. HIDE DEF Rec, g
    <3>. QED  BY <3>1, <2>4, <2>6
  <2>. HIDE DEF Solves, g
  <2>. QED  BY <2>7, <1>2
<1>3. Bad = {}
  <2>1. SUFFICES ASSUME Bad # {}  PROVE  FALSE
    OBVIOUS
  <2>2. Bad \subseteq Nat
    OBVIOUS
  <2>. HIDE DEF Bad
  <2>3. PICK x \in Bad : \A y \in Bad : x <= y
    BY <2>1, <2>2, LeastNumber
  <2>4. x \in Nat /\ x # 0 /\ x - 1 \in Nat /\ (x - 1) + 1 = x
    BY <2>2, <2>3, <1>1
  <2>5. x - 1 \in Bad
    BY <2>3, <2>4, <1>2
  <2>. QED  BY <2>3, <2>4, <2>5
<1>. DEFINE upTo == CHOOSE f : Solves(f, Len(preds))
<1>4. \E f : Solves(f, Len(preds))
  <2>1. Len(preds) \in Nat
    OBVIOUS
  <2>2. \A n \in Nat : n \notin Bad => \E f : Solves(f, n)
    OBVIOUS
  <2>. HIDE DEF Solves, Bad
  <2>. QED  BY <1>3, <2>1, <2>2
<1>5. Solves(upTo, Len(preds))
  <2>. HIDE DEF Solves
  <2>. QED  BY <1>4
<1>6. StepsUpTo(preds) = upTo
  BY DEF StepsUpTo
<1>7. \A n \in 0..Len(preds) : upTo[n] = Rec(upTo, n)
  <2>. HIDE DEF Rec, upTo
  <2>. QED  BY <1>5
<1>8. 0 \in 0..Len(preds) /\ \A n \in 1..Len(preds) : n \in 0..Len(preds) /\ n # 0
  OBVIOUS
<1>9. upTo[0] = <<>> /\ \A n \in 1..Len(preds) : upTo[n] = upTo[n - 1] \o StepsOf(preds[n])
  <2>. HIDE DEF upTo
  <2>. QED  BY <1>7, <1>8, Zenon
<1>. HIDE DEF upTo
<1>. QED  BY <1>6, <1>9

LEMMA StepsType ==
  ASSUME NEW preds \in Seq(Preds), NEW n \in 0..Len(preds)
  PROVE  StepsUpTo(preds)[n] \in Seq(AnyStep)
<1>. DEFINE f == StepsUpTo(preds)
            Bad == {x \in 0..Len(preds) : f[x] \notin Seq(AnyStep)}
<1>0. <<>> \in Seq(AnyStep)
  OBVIOUS
<1>1. ASSUME NEW x \in Bad, \A y \in Bad : x <= y  PROVE  FALSE
  <2>1. x # 0
    BY <1>0, StepsRecursion
  <2>2. x \in 1..Len(preds) /\ x - 1 \in 0..Len(preds) /\ x - 1 \notin Bad
    BY <1>1, <2>1
  <2>3. f[x - 1] \in Seq(AnyStep) /\ StepsOf(preds[x]) \in Seq(AnyStep)
    BY <2>2, StepsOfPredicate
  <2>4. f[x] = f[x - 1] \o StepsOf(preds[x])
    BY <2>2, StepsRecursion
  <2>. HIDE DEF f
  <2>5. f[x] \in Seq(AnyStep)
    BY <2>3, <2>4
  <2>. QED  BY <2>5
<1>2. Bad \subseteq Nat
  OBVIOUS
<1>3. Bad = {}
  <2>. HIDE DEF Bad
  <2>. QED  BY <1>1, <1>2, LeastNumber
<1>. QED  BY <1>3

(* What the next predicate adds.                                            *)
LEMMA StepsNext ==
  ASSUME NEW preds \in Seq(Preds), NEW n \in 1..Len(preds)
  PROVE  LET f == StepsUpTo(preds)
             p == preds[n]
         IN  /\ Len(f[n - 1]) \in Nat /\ Len(f[n]) = Len(f[n - 1]) + Len(p.args) + 2
             /\ \A i \in 1..Len(f[n - 1]) : f[n][i] = f[n - 1][i]
             /\ \A i \in 1..Len(p.args) + 2 : f[n][Len(f[n - 1]) + i] = StepsOf(p)[i]
<1>. DEFINE f == StepsUpTo(preds)
            s == f[n - 1]
            t == StepsOf(preds[n])
<1>1. preds[n] \in Preds /\ n - 1 \in 0..Len(preds)
  OBVIOUS
<1>2. s \in Seq(AnyStep) /\ t \in Seq(AnyStep) /\ f[n] = s \o t
  BY <1>1, StepsType, StepsOfPredicate, StepsRecursion
<1>3. Len(t) = Len(preds[n].args) + 2 /\ Len(preds[n].args) \in Nat
  BY <1>1, StepsOfPredicate, PredType
<1>. HIDE DEF f, s, t
<1>4. /\ Len(s \o t) = Len(s) + Len(t)
      /\ \A i \in 1..Len(s) + Len(t) : (s \o t)[i] = IF i <= Len(s) THEN s[i] ELSE t[i - Len(s)]
  BY <1>2, ConcatProperties
<1>5. Len(s) \in Nat /\ Len(t) \in Nat
  BY <1>2
<1>6. ASSUME NEW i \in 1..Len(s)  PROVE  f[n][i] = s[i]
  BY <1>2, <1>4, <1>5
<1>7. ASSUME NEW i \in 1..Len(t)  PROVE  f[n][Len(s) + i] = t[i]
  <2>1. Len(s) + i \in 1..Len(s) + Len(t) /\ ~(Len(s) + i <= Len(s)) /\ (Len(s) + i) - Len(s) = i
    BY <1>5
  <2>. QED  BY <1>2, <1>4, <2>1
<1>8. Len(f[n]) = Len(s) + Len(preds[n].args) + 2
  BY <1>2, <1>3, <1>4, <1>5
<1>. QED  BY <1>3, <1>5, <1>6, <1>7, <1>8 DEF f, s, t

(* The steps of a prefix stay where they are.                               *)
LEMMA StepsPrefix ==
  ASSUME NEW preds \in Seq(Preds), NEW n \in 0..Len(preds)
  PROVE  /\ Len(StepsUpTo(preds)[n]) <= Len(Steps(preds))
         /\ \A i \in 1..Len(StepsUpTo(preds)[n]) : Steps(preds)[i] = StepsUpTo(preds)[n][i]
<1>. DEFINE f == StepsUpTo(preds)
            Fine(m) == /\ Len(f[n]) <= Len(f[m])
                       /\ \A i \in 1..Len(f[n]) : f[m][i] = f[n][i]
            Bad == {m \in 0..Len(preds) : m >= n /\ ~Fine(m)}
<1>1. Len(f[n]) \in Nat
  BY StepsType
<1>2. Fine(n)
  BY <1>1
<1>3. ASSUME NEW x \in Bad, \A y \in Bad : x <= y  PROVE  FALSE
  <2>1. x # n /\ x \in 0..Len(preds) /\ x >= n /\ ~Fine(x)
    BY <1>2
  <2>2. x \in 1..Len(preds) /\ x - 1 \in 0..Len(preds) /\ x - 1 >= n
    BY <2>1
  <2>3. Fine(x - 1)
    <3>1. x - 1 \notin Bad
      BY <1>3, <2>2
    <3>. QED  BY <2>2, <3>1
  <2>4. /\ Len(f[x - 1]) \in Nat /\ Len(f[x]) >= Len(f[x - 1])
        /\ \A i \in 1..Len(f[x - 1]) : f[x][i] = f[x - 1][i]
    <3>1. preds[x] \in Preds
      BY <2>2
    <3>2. Len(preds[x].args) \in Nat
      BY <3>1, PredType
    <3>3. /\ Len(f[x - 1]) \in Nat /\ Len(f[x]) = Len(f[x - 1]) + Len(preds[x].args) + 2
          /\ \A i \in 1..Len(f[x - 1]) : f[x][i] = f[x - 1][i]
      BY <2>2, StepsNext
    <3>. HIDE DEF f
    <3>. DEFINE old == Len(f[x - 1])
                new == Len(f[x])
                more == Len(preds[x].args)
    <3>4. old \in Nat /\ more \in Nat /\ new = old + more + 2
      BY <3>2, <3>3
    <3>. HIDE DEF old, new, more
    <3>5. new >= old
      BY <3>4
    <3>. QED  BY <3>3, <3>5 DEF old, new
  <2>. HIDE DEF f
  <2>5. Len(f[n]) <= Len(f[x])
    <3>1. Len(f[x]) \in Nat
      BY <2>1, StepsType DEF f
    <3>. QED  BY <1>1, <2>3, <2>4, <3>1
  <2>6. ASSUME NEW i \in 1..Len(f[n])  PROVE  f[x][i] = f[n][i]
    <3>1. i \in 1..Len(f[x - 1])
      BY <1>1, <2>3, <2>4
    <3>. QED  BY <2>3, <2>4, <3>1
  <2>. QED  BY <2>1, <2>5, <2>6
<1>4. Bad \subseteq Nat
  OBVIOUS
<1>5. Bad = {}
  <2>. HIDE DEF Bad
  <2>. QED  BY <1>3, <1>4, LeastNumber
<1>6. Len(preds) \in 0..Len(preds) /\ Len(preds) >= n
  OBVIOUS
<1>7. Fine(Len(preds))
  <2>. HIDE DEF Fine
  <2>. QED  BY <1>5, <1>6
<1>. QED  BY <1>7 DEF Steps

(* The steps of a predicate, seen from its name: its arguments follow, and  *)
(* the first step of type Done is its own.                                  *)
LEMMA AtPredicate ==
  ASSUME NEW preds \in Seq(Preds), NEW n \in 1..Len(preds)
  PROVE  LET s == Steps(preds)
             b == Len(StepsUpTo(preds)[n - 1])
             p == preds[n]
             a == Len(p.args)
         IN  /\ b \in Nat /\ Len(s) \in Nat /\ a \in Nat /\ p \in Preds
             /\ Len(StepsUpTo(preds)[n]) = b + a + 2 /\ b + a + 2 <= Len(s)
             /\ s[b + 1].value = p.name
             /\ \A i \in 1..a : s[b + 1 + i] = p.args[i]
             /\ s[b + a + 2].type = "done"
             /\ SelectInSubSeq(s, b + 1, Len(s), LAMBDA t : t.type = "done") = b + a + 2
<1>. DEFINE s == Steps(preds)
            f == StepsUpTo(preds)
            b == Len(f[n - 1])
            p == preds[n]
            a == Len(p.args)
            e == Len(f[n])
<1>1. p \in Preds /\ a \in Nat /\ n \in 0..Len(preds) /\ n - 1 \in 0..Len(preds)
  <2>1. p \in Preds
    OBVIOUS
  <2>. QED  BY <2>1, PredType
<1>2. /\ b \in Nat /\ e = b + a + 2
      /\ \A i \in 1..a + 2 : f[n][b + i] = StepsOf(p)[i]
  BY StepsNext
<1>3. Len(s) \in Nat
  <2>1. Len(preds) \in 0..Len(preds)
    OBVIOUS
  <2>2. s \in Seq(AnyStep)
    BY <2>1, StepsType DEF Steps
  <2>. HIDE DEF s
  <2>. QED  BY <2>2
<1>4. e <= Len(s) /\ \A i \in 1..e : s[i] = f[n][i]
  BY <1>1, StepsPrefix
<1>5. /\ StepsOf(p)[1].type = "string" /\ StepsOf(p)[1].value = p.name
      /\ \A i \in 1..a : StepsOf(p)[1 + i] = p.args[i]
      /\ StepsOf(p)[a + 2].type = "done"
  BY <1>1, StepsOfPredicate
<1>6. \A i \in 1..a : p.args[i].type # "done"
  BY <1>1, PredType
<1>. HIDE DEF s, f, b, p, a, e
<1>7. \A i \in 1..a + 2 : s[b + i] = StepsOf(p)[i]
  <2>1. \A i \in 1..a + 2 : b + i \in 1..e
    BY <1>1, <1>2
  <2>. QED  BY <1>2, <1>4, <2>1
<1>8. s[b + 1] = StepsOf(p)[1]
  BY <1>1, <1>7
<1>9. \A i \in 1..a : s[b + 1 + i] = p.args[i]
  <2>1. ASSUME NEW i \in 1..a  PROVE  1 + i \in 1..a + 2 /\ b + (1 + i) = b + 1 + i
    BY <1>1, <1>2
  <2>. QED  BY <1>5, <1>7, <2>1
<1>10. s[b + a + 2].type = "done"
  <2>1. a + 2 \in 1..a + 2 /\ b + (a + 2) = b + a + 2
    BY <1>1, <1>2
  <2>. QED  BY <1>5, <1>7, <2>1
<1>. DEFINE Dones == {i \in b + 1..Len(s) : s[i].type = "done"}
<1>11. b + a + 2 \in Dones
  <2>1. b + a + 2 \in b + 1..Len(s)
    BY <1>1, <1>2, <1>3, <1>4
  <2>. QED  BY <1>10, <2>1
<1>12. ASSUME NEW i \in Dones  PROVE  b + a + 2 <= i
  <2>1. SUFFICES ASSUME i < b + a + 2  PROVE  FALSE
    BY <1>1, <1>2, <1>3
  <2>2. i \in Int /\ b + 1 <= i /\ s[i].type = "done"
    BY <1>2, <1>3
  <2>3. CASE i = b + 1
    BY <1>5, <1>8, <2>2, <2>3
  <2>4. CASE i # b + 1
    <3>1. i - b - 1 \in 1..a /\ b + 1 + (i - b - 1) = i
      BY <1>1, <1>2, <2>1, <2>2, <2>4
    <3>2. s[i] = p.args[i - b - 1]
      BY <1>9, <3>1
    <3>. QED  BY <1>6, <2>2, <3>1, <3>2
  <2>. QED  BY <2>3, <2>4
<1>13. Min(Dones) = b + a + 2
  <2>1. Dones \subseteq Int
    BY <1>2, <1>3
  <2>. HIDE DEF Dones
  <2>2. \A x, y \in Int : x <= y /\ y <= x => x = y
    OBVIOUS
  <2>3. \A x \in Dones : (\A y \in Dones : x =< y) => x = b + a + 2
    BY <1>11, <1>12, <2>1, <2>2
  <2>. QED  BY <1>11, <1>12, <2>3 DEF Min
<1>14. SelectInSubSeq(s, b + 1, Len(s), LAMBDA t : t.type = "done") = b + a + 2
  BY <1>11, <1>13 DEF SelectInSubSeq
<1>. QED
  BY <1>1, <1>2, <1>3, <1>4, <1>5, <1>8, <1>9, <1>10, <1>14 DEF s, f, b, p, a, e

-----------------------------------------------------------------------------
(* Which predicate of a key is the last.                                    *)

OfKey(p, names, key) == p.name \in names /\ p.args[1].value = key

LEMMA LastIs ==
  ASSUME NEW s \in Seq(Preds), NEW names, NEW key, NEW n \in 1..Len(s),
         OfKey(s[n], names, key), \A i \in 1..Len(s) : OfKey(s[i], names, key) => i <= n
  PROVE  LastOf(s, names, key) = n
<1>. DEFINE I == {i \in 1..Len(s) : s[i].name \in names /\ s[i].args[1].value = key}
<1>1. n \in I /\ \A i \in I : n >= i
  BY DEF OfKey
<1>2. I \subseteq Int
  OBVIOUS
<1>. HIDE DEF I
<1>3. \A x, y \in Int : x >= y /\ y >= x => x = y
  OBVIOUS
<1>4. \A x \in I : (\A y \in I : x >= y) => x = n
  BY <1>1, <1>2, <1>3
<1>5. Max(I) = n
  BY <1>1, <1>4 DEF Max
<1>6. LastOf(s, names, key) = IF I # {} THEN Max(I) ELSE 0
  BY DEF LastOf, SelectLastInSeq, I
<1>. QED  BY <1>1, <1>5, <1>6

LEMMA LastExists ==
  ASSUME NEW s \in Seq(Preds), NEW names, NEW key \in Keys(s, names)
  PROVE  \E n \in 1..Len(s) :
           /\ OfKey(s[n], names, key)
           /\ \A i \in 1..Len(s) : OfKey(s[i], names, key) => i <= n
<1>. DEFINE Dist == {d \in Nat : \E i \in 1..Len(s) : d = Len(s) - i /\ OfKey(s[i], names, key)}
<1>1. Len(s) \in Nat /\ DOMAIN s = 1..Len(s)
  OBVIOUS
<1>2. PICK n \in 1..Len(s) : OfKey(s[n], names, key)
  BY <1>1 DEF Keys, ToSet, OfKey
<1>3. Len(s) - n \in Dist
  BY <1>1, <1>2
<1>4. Dist \subseteq Nat
  OBVIOUS
<1>. DEFINE small(d) == \A y \in Dist : d <= y
<1>5. PICK d \in Dist : small(d)
  <2>. HIDE DEF Dist
  <2>. QED  BY <1>3, <1>4, LeastNumber
<1>6. PICK i \in 1..Len(s) : d = Len(s) - i /\ OfKey(s[i], names, key)
  OBVIOUS
<1>7. ASSUME NEW l \in 1..Len(s), OfKey(s[l], names, key)  PROVE  l <= i
  <2>1. Len(s) - l \in Dist
    <3>1. Len(s) - l \in Nat
      <4>1. \A m \in Nat : \A x \in 1..m : m - x \in Nat
        OBVIOUS
      <4>2. Len(s) \in Nat /\ l \in 1..Len(s)
        BY <1>1
      <4>. QED  BY <4>1, <4>2
    <3>2. \E x \in 1..Len(s) : Len(s) - l = Len(s) - x /\ OfKey(s[x], names, key)
      BY <1>7
    <3>. QED  BY <3>1, <3>2
  <2>2. d <= Len(s) - l
    BY <1>5, <2>1
  <2>. QED  BY <1>1, <1>6, <2>2
<1>. QED  BY <1>6, <1>7

(* What one predicate more changes.                                         *)
LEMMA LastGrows ==
  ASSUME NEW old \in Seq(Preds), NEW new \in Seq(Preds), NEW n \in Nat \ {0}, NEW names,
         Len(old) = n - 1, Len(new) = n, \A i \in 1..n - 1 : new[i] = old[i]
  PROVE  LET v == new[n].args[1].value
         IN  /\ \A key \in Keys(old, names) :
                  /\ key # v \/ new[n].name \notin names =>
                       LastOf(new, names, key) = LastOf(old, names, key)
                  /\ LastOf(old, names, key) \in 1..n - 1
             /\ new[n].name \notin names => Keys(new, names) = Keys(old, names)
             /\ new[n].name \in names =>
                  Keys(new, names) = Keys(old, names) \cup {v} /\ LastOf(new, names, v) = n
<1>. DEFINE v == new[n].args[1].value
<1>1. DOMAIN old = 1..n - 1 /\ DOMAIN new = 1..n
  OBVIOUS
<1>2. \A i \in 1..n : i = n \/ i \in 1..n - 1
  OBVIOUS
<1>3. ASSUME NEW key \in Keys(old, names)
      PROVE  /\ key # v \/ new[n].name \notin names =>
                  LastOf(new, names, key) = LastOf(old, names, key)
             /\ LastOf(old, names, key) \in 1..n - 1
  <2>1. PICK i \in 1..Len(old) :
          OfKey(old[i], names, key)
          /\ \A l \in 1..Len(old) : OfKey(old[l], names, key) => l <= i
    BY LastExists
  <2>2. LastOf(old, names, key) = i
    BY <2>1, LastIs
  <2>3. ASSUME key # v \/ new[n].name \notin names
        PROVE  LastOf(new, names, key) = i
    <3>1. ~OfKey(new[n], names, key)
      BY <2>3 DEF OfKey
    <3>2. i \in 1..Len(new) /\ i \in 1..n - 1 /\ OfKey(new[i], names, key)
      BY <2>1
    <3>3. ASSUME NEW l \in 1..Len(new), OfKey(new[l], names, key)  PROVE  l <= i
      <4>1. l \in 1..n - 1
        BY <1>2, <3>1, <3>3
      <4>. QED  BY <2>1, <3>3, <4>1
    <3>. QED  BY <3>2, <3>3, LastIs
  <2>. QED  BY <2>2, <2>3
<1>4. \A names2 : Keys(new, names2) = {new[i].args[1].value : i \in {i \in 1..n : new[i].name \in names2}}
  BY <1>1 DEF Keys, ToSet
<1>5. \A names2 : Keys(old, names2) = {old[i].args[1].value : i \in {i \in 1..n - 1 : old[i].name \in names2}}
  BY <1>1 DEF Keys, ToSet
<1>. DEFINE keyOf(s, i) == s[i].args[1].value
<1>6. new[n].name \notin names => Keys(new, names) = Keys(old, names)
  <2>1. SUFFICES ASSUME new[n].name \notin names  PROVE  Keys(new, names) = Keys(old, names)
    OBVIOUS
  <2>. DEFINE I == {i \in 1..n - 1 : old[i].name \in names}
  <2>2. {i \in 1..n : new[i].name \in names} = I
    BY <1>2, <2>1
  <2>3. \A i \in I : keyOf(new, i) = keyOf(old, i)
    OBVIOUS
  <2>4. Keys(new, names) = {keyOf(new, i) : i \in I} /\ Keys(old, names) = {keyOf(old, i) : i \in I}
    <3>1. Keys(new, names) = {keyOf(new, i) : i \in {i \in 1..n : new[i].name \in names}}
      BY <1>4
    <3>. QED  BY <1>5, <2>2, <3>1
  <2>. HIDE DEF I, keyOf
  <2>. QED  BY <2>3, <2>4
<1>7. ASSUME new[n].name \in names
      PROVE  Keys(new, names) = Keys(old, names) \cup {v} /\ LastOf(new, names, v) = n
  <2>1. {i \in 1..n : new[i].name \in names} = {i \in 1..n - 1 : old[i].name \in names} \cup {n}
    BY <1>2, <1>7
  <2>2. \A i \in {i \in 1..n - 1 : old[i].name \in names} : new[i].args[1].value = old[i].args[1].value
    OBVIOUS
  <2>3. Keys(new, names) = Keys(old, names) \cup {v}
    BY <1>4, <1>5, <2>1, <2>2
  <2>4. n \in 1..Len(new) /\ OfKey(new[n], names, v) /\ \A i \in 1..Len(new) : i <= n
    BY <1>7 DEF OfKey
  <2>. QED  BY <2>3, <2>4, LastIs
<1>. QED  BY <1>3, <1>6, <1>7

-----------------------------------------------------------------------------
(* The walk over the predicates.                                            *)

(* No predicate has a name that only begins a built-in one.                 *)
WholeNames ==
  \A q \in Queries : \A i \in DOMAIN q : \A n \in DOMAIN q[i] :
    \A pair \in PrefixOf : pair[1] # q[i][n].name

SettingsOf(preds) ==
  [key \in Keys(preds, {"set!"}) |-> ValueOf(preds[LastOf(preds, {"set!"}, key)])]

Is == {"is?", "is-not?"}

(* What is kept of is? and is-not?: the value, and whether the key, not the *)
(* name, is three letters long.                                             *)
Stated(pred) == <<ValueOf(pred), LengthOf[pred.args[1].value] = 3>>

AssertionsOf(preds) == [key \in Keys(preds, Is) |-> Stated(preds[LastOf(preds, Is, key)])]

Accepted(preds) == \A n \in DOMAIN preds : WellFormed(preds[n])

(* The object that the walk makes of a well-formed predicate: of one that   *)
(* compares texts, or of one whose name is not built in.                    *)
ObjectOf(p, pred) ==
  /\ p.capture = pred.args[1].value /\ p.positive \in BOOLEAN
  /\ \/ /\ p.kind = "eq capture" /\ pred.name \in EqNames /\ pred.args[2].type = "capture"
        /\ p.other = pred.args[2].value
        /\ (p.positive <=> pred.name \in {"eq?", "any-eq?"})
        /\ p.any \in BOOLEAN /\ (p.any <=> pred.name \in AnyNames)
     \/ /\ p.kind = "eq string" /\ pred.name \in EqNames /\ pred.args[2].type = "string"
        /\ p.string = pred.args[2].value
        /\ (p.positive <=> pred.name \in {"eq?", "any-eq?"})
        /\ p.any \in BOOLEAN /\ (p.any <=> pred.name \in AnyNames)
     \/ /\ p.kind = "match" /\ pred.name \in MatchNames
        /\ p.pattern = pred.args[2].value
        /\ (p.positive <=> pred.name \in {"match?", "any-match?"})
        /\ p.any \in BOOLEAN /\ (p.any <=> pred.name \in AnyNames)
     \/ /\ p.kind = "any-of" /\ pred.name \in AnyOfNames
        /\ p.values = [i \in 1..Len(pred.args)-1 |-> pred.args[i + 1].value]
        /\ (p.positive <=> pred.name = "any-of?")

BuiltIn == EqNames \cup MatchNames \cup AnyOfNames \cup Is \cup {"set!"}

GenericOf(p, pred) ==
  /\ p.kind = "generic" /\ pred.name \notin BuiltIn
  /\ p.predicate = pred.name /\ p.arguments = pred.args

MadeOf(p, pred) == ObjectOf(p, pred) \/ GenericOf(p, pred)

(* There is an object for each of these predicates that is not a property.  *)
ObjectsOf(objects, preds) ==
  /\ \E S : objects \in Seq(S)
  /\ \A o \in 1..Len(objects) : \E n \in 1..Len(preds) : MadeOf(objects[o], preds[n])
  /\ \A n \in 1..Len(preds) : preds[n].name \notin Is \cup {"set!"} =>
       \E o \in 1..Len(objects) : MadeOf(objects[o], preds[n])

(* These lists hold what these predicates state, if names are whole.        *)
ListsOf(lists, preds) ==
  /\ DOMAIN lists = {"predicates", "settings", "assertions"}
  /\ WholeNames =>
       /\ ObjectsOf(lists.predicates, preds)
       /\ lists.settings = SettingsOf(preds)
       /\ lists.assertions = AssertionsOf(preds)
       /\ Accepted(preds)

(* The walk is between two predicates of its pattern: those before are read.*)
Between(preds, m) ==
  /\ j = Len(StepsUpTo(preds)[m]) /\ step = j + 1
  /\ ListsOf(current, SubSeq(preds, 1, m))

Place ==
  IF Len(stored) < Len(query)
  THEN LET preds == query[Len(stored) + 1] IN \E m \in 0..Len(preds) : Between(preds, m)
  ELSE current = NewLists /\ step = 1 /\ j = 0

WalkInv ==
  built # "failed" =>
    /\ query \in Queries /\ built \in {"reading", "built", "rejected"}
    /\ \E S : stored \in Seq(S)
    /\ Len(stored) <= Len(query)
    /\ \A i \in 1..Len(stored) : ListsOf(stored[i], query[i])
    /\ Place
    /\ built = "built" => Len(stored) = Len(query)
    /\ built = "rejected" /\ WholeNames => \E i \in DOMAIN query : ~Accepted(query[i])

LEMMA WellFormedCases ==
  ASSUME NEW p \in Preds
  PROVE  LET a == Len(p.args)
         IN  WellFormed(p) <=>
               /\ p.name \in EqNames => a = 2 /\ p.args[1].type = "capture"
               /\ p.name \in MatchNames =>
                    /\ a = 2 /\ p.args[1].type = "capture" /\ p.args[2].type = "string"
                    /\ p.args[2].value \notin BadPatterns
               /\ p.name \in AnyOfNames =>
                    a >= 2 /\ p.args[1].type = "capture" /\ \A i \in 2..a : p.args[i].type = "string"
               /\ p.name \in Is \cup {"set!"} =>
                    a \in {1, 2} /\ \A i \in 1..a : p.args[i].type = "string"
<1>. DEFINE args == p.args
            a == Len(args)
            capture1 == args # <<>> /\ Head(args).type = "capture"
<1>1. args \in Seq(Arguments) /\ a \in Nat
  BY PredType
<1>. HIDE DEF args
<1>2. a >= 1 => (capture1 <=> args[1].type = "capture")
  BY <1>1
<1>3. a = 0 => ~capture1
  BY <1>1
<1>4. Strings(args) <=> \A i \in 1..a : args[i].type = "string"
  BY <1>1 DEF Strings
<1>5. a >= 1 => (Strings(Tail(args)) <=> \A i \in 2..a : args[i].type = "string")
  <2>1. SUFFICES ASSUME a >= 1
                 PROVE  Strings(Tail(args)) <=> \A i \in 2..a : args[i].type = "string"
    OBVIOUS
  <2>2. /\ Tail(args) \in Seq(Arguments) /\ Len(Tail(args)) = a - 1
        /\ \A i \in 1..a - 1 : Tail(args)[i] = args[i + 1]
    BY <1>1, <2>1, HeadTailProperties
  <2>3. Strings(Tail(args)) <=> \A i \in 1..a - 1 : args[i + 1].type = "string"
    <3>1. DOMAIN Tail(args) = 1..a - 1
      BY <1>1, <2>1, <2>2
    <3>2. Strings(Tail(args)) <=> \A i \in 1..a - 1 : Tail(args)[i].type = "string"
      BY <3>1 DEF Strings
    <3>. QED  BY <2>2, <3>2
  <2>4. \A i \in 2..a : i - 1 \in 1..a - 1 /\ (i - 1) + 1 = i
    BY <1>1
  <2>5. \A i \in 1..a - 1 : i + 1 \in 2..a
    BY <1>1
  <2>. QED  BY <2>3, <2>4, <2>5
<1>11. /\ p.name \in EqNames => p.name \notin MatchNames \cup AnyOfNames \cup Is \cup {"set!"}
       /\ p.name \in MatchNames => p.name \notin AnyOfNames \cup Is \cup {"set!"}
       /\ p.name \in AnyOfNames => p.name \notin Is \cup {"set!"}
  BY DEF EqNames, MatchNames, AnyOfNames, Is
<1>6. p.name \in EqNames => (WellFormed(p) <=> a = 2 /\ args[1].type = "capture")
  <2>1. p.name \in EqNames => (WellFormed(p) <=> a = 2 /\ capture1)
    <3>1. SUFFICES ASSUME p.name \in EqNames  PROVE  WellFormed(p) <=> a = 2 /\ capture1
      OBVIOUS
    <3>2. WellFormed(p) = (a = 2 /\ capture1)
      BY <3>1, <1>11 DEF WellFormed, Is, args
    <3>. QED  BY <3>2
  <2>. HIDE DEF capture1
  <2>. QED  BY <1>1, <1>2, <2>1
<1>7. p.name \in MatchNames =>
        (WellFormed(p) <=> /\ a = 2 /\ args[1].type = "capture" /\ args[2].type = "string"
                           /\ args[2].value \notin BadPatterns)
  <2>1. p.name \in MatchNames =>
          (WellFormed(p) <=> /\ a = 2 /\ capture1 /\ Strings(Tail(args))
                             /\ args[2].value \notin BadPatterns)
    <3>1. SUFFICES ASSUME p.name \in MatchNames
                   PROVE  WellFormed(p) <=> /\ a = 2 /\ capture1 /\ Strings(Tail(args))
                                            /\ args[2].value \notin BadPatterns
      OBVIOUS
    <3>2. WellFormed(p) = (/\ a = 2 /\ capture1 /\ Strings(Tail(args))
                           /\ args[2].value \notin BadPatterns)
      BY <3>1, <1>11 DEF WellFormed, Is, args
    <3>. QED  BY <3>2
  <2>. HIDE DEF capture1
  <2>2. a = 2 => (Strings(Tail(args)) <=> args[2].type = "string")
    BY <1>1, <1>5
  <2>. QED  BY <1>1, <1>2, <2>1, <2>2
<1>8. p.name \in AnyOfNames =>
        (WellFormed(p) <=> a >= 2 /\ args[1].type = "capture" /\ \A i \in 2..a : args[i].type = "string")
  <2>1. p.name \in AnyOfNames => (WellFormed(p) <=> a >= 2 /\ capture1 /\ Strings(Tail(args)))
    BY DEF WellFormed, EqNames, MatchNames, AnyOfNames, args
  <2>. HIDE DEF capture1
  <2>. QED  BY <1>1, <1>2, <1>5, <2>1
<1>9. p.name \in Is \cup {"set!"} =>
        (WellFormed(p) <=> a \in {1, 2} /\ \A i \in 1..a : args[i].type = "string")
  <2>1. p.name \in Is \cup {"set!"} => (WellFormed(p) <=> a \in {1, 2} /\ Strings(args))
    BY DEF WellFormed, EqNames, MatchNames, AnyOfNames, Is, args
  <2>. QED  BY <1>4, <2>1
<1>10. ~(p.name \in EqNames \cup MatchNames \cup AnyOfNames \cup Is \cup {"set!"}) => WellFormed(p)
  BY DEF WellFormed, EqNames, MatchNames, AnyOfNames, Is, args
<1>. DEFINE okEq == a = 2 /\ args[1].type = "capture"
            okMatch == /\ a = 2 /\ args[1].type = "capture" /\ args[2].type = "string"
                       /\ args[2].value \notin BadPatterns
            okAny == a >= 2 /\ args[1].type = "capture" /\ \A i \in 2..a : args[i].type = "string"
            okProp == a \in {1, 2} /\ \A i \in 1..a : args[i].type = "string"
<1>12. WellFormed(p) <=>
         /\ p.name \in EqNames => okEq
         /\ p.name \in MatchNames => okMatch
         /\ p.name \in AnyOfNames => okAny
         /\ p.name \in Is \cup {"set!"} => okProp
  <2>. HIDE DEF okEq, okMatch, okAny, okProp
  <2>1. /\ p.name \in EqNames => (WellFormed(p) <=> okEq)
        /\ p.name \in MatchNames => (WellFormed(p) <=> okMatch)
        /\ p.name \in AnyOfNames => (WellFormed(p) <=> okAny)
        /\ p.name \in Is \cup {"set!"} => (WellFormed(p) <=> okProp)
    BY <1>6, <1>7, <1>8, <1>9 DEF okEq, okMatch, okAny, okProp
  <2>. QED  BY <1>10, <1>11, <2>1
<1>. QED  BY <1>12 DEF args

(* What a step at a name sees of its predicate.                             *)
LEMMA AtName ==
  ASSUME NEW preds \in Seq(Preds), NEW n \in 1..Len(preds),
         preds = query[Len(stored) + 1],
         j = Len(StepsUpTo(preds)[n - 1]), step = j + 1
  PROVE  LET p == preds[n]
         IN  /\ name = p.name /\ PredicateLen = Len(p.args) + 1
             /\ \A i \in 1..Len(p.args) : Arg(i) = p.args[i]
             /\ j + PredicateLen + 1 = Len(StepsUpTo(preds)[n])
             /\ step + PredicateLen + 1 = Len(StepsUpTo(preds)[n]) + 1
<1>. DEFINE s == Steps(preds)
            b == Len(StepsUpTo(preds)[n - 1])
            e == Len(StepsUpTo(preds)[n])
            p == preds[n]
            a == Len(p.args)
<1>1. /\ b \in Nat /\ a \in Nat /\ e = b + a + 2
      /\ s[b + 1].value = p.name
      /\ \A i \in 1..a : s[b + 1 + i] = p.args[i]
      /\ SelectInSubSeq(s, b + 1, Len(s), LAMBDA t : t.type = "done") = b + a + 2
  BY AtPredicate
<1>2. steps = s
  BY DEF steps
<1>3. step = b + 1
  OBVIOUS
<1>. HIDE DEF s
<1>4. PredicateLen = (b + a + 2) - (b + 1)
  BY <1>1, <1>2, <1>3 DEF PredicateLen
<1>5. name = p.name /\ \A i \in 1..a : Arg(i) = p.args[i]
  BY <1>1, <1>2, <1>3 DEF name, Arg
<1>6. j = b
  OBVIOUS
<1>. HIDE DEF b, e, a, p
<1>7. PredicateLen = a + 1
  BY <1>1, <1>4
<1>8. j + PredicateLen + 1 = e /\ step + PredicateLen + 1 = e + 1
  <2>1. b \in Nat /\ a \in Nat /\ e = b + a + 2
    BY <1>1
  <2>2. \A x, y \in Nat : x + (y + 1) + 1 = x + y + 2 /\ (x + 1) + (y + 1) + 1 = (x + y + 2) + 1
    OBVIOUS
  <2>. QED  BY <1>3, <1>6, <1>7, <2>1, <2>2
<1>. QED  BY <1>5, <1>7, <1>8 DEF b, e, a, p

LEMMA QueryType ==
  ASSUME NEW q \in Queries
  PROVE  /\ q \in Seq(Seq(Preds)) /\ Len(q) \in Nat /\ DOMAIN q = 1..Len(q)
         /\ \A i \in 1..Len(q) : q[i] \in Seq(Preds) /\ DOMAIN q[i] = 1..Len(q[i])
<1>1. q \in Seq(Seq(Preds))
  BY NamesAssumption DEF Preds
<1>2. \A i \in 1..Len(q) : q[i] \in Seq(Preds)
  BY <1>1
<1>3. \A s \in Seq(Preds) : DOMAIN s = 1..Len(s)
  OBVIOUS
<1>. QED  BY <1>1, <1>2, <1>3

LEMMA FirstPredicates ==
  ASSUME NEW preds \in Seq(Preds), NEW n \in 0..Len(preds)
  PROVE  LET s == SubSeq(preds, 1, n)
         IN  s \in Seq(Preds) /\ Len(s) = n /\ \A i \in 1..n : s[i] = preds[i]
<1>1. \A i \in 1..n : preds[i] \in Preds
  OBVIOUS
<1>2. /\ SubSeq(preds, 1, n) \in Seq(Preds)
      /\ Len(SubSeq(preds, 1, n)) = IF 1 <= n THEN n - 1 + 1 ELSE 0
      /\ \A i \in 1..n - 1 + 1 : SubSeq(preds, 1, n)[i] = preds[1 + i - 1]
  BY <1>1, SubSeqProperties
<1>3. (IF 1 <= n THEN n - 1 + 1 ELSE 0) = n /\ n - 1 + 1 = n
  OBVIOUS
<1>4. \A i \in 1..n : 1 + i - 1 = i
  OBVIOUS
<1>. QED  BY <1>2, <1>3, <1>4

LEMMA ObjectsGrow ==
  ASSUME NEW old, NEW new, NEW n \in Nat \ {0}, Len(old) = n - 1, Len(new) = n,
         \A i \in 1..n - 1 : new[i] = old[i],
         NEW objects, NEW objects2, ObjectsOf(objects, old),
         IF new[n].name \in Is \cup {"set!"} THEN objects2 = objects
         ELSE \E o : MadeOf(o, new[n]) /\ objects2 = Append(objects, o)
  PROVE  ObjectsOf(objects2, new)
<1>1. \A i \in 1..n : i = n \/ i \in 1..n - 1
  OBVIOUS
<1>2. 1..n - 1 \subseteq 1..n /\ n \in 1..n
  OBVIOUS
<1>3. /\ \A o \in 1..Len(objects) : \E i \in 1..n : MadeOf(objects[o], new[i])
      /\ \A i \in 1..n - 1 : new[i].name \notin Is \cup {"set!"} =>
           \E o \in 1..Len(objects) : MadeOf(objects[o], new[i])
  BY <1>2 DEF ObjectsOf
<1>4. CASE new[n].name \in Is \cup {"set!"}
  BY <1>1, <1>3, <1>4 DEF ObjectsOf
<1>5. CASE new[n].name \notin Is \cup {"set!"}
  <2>1. PICK o : MadeOf(o, new[n]) /\ objects2 = Append(objects, o)
    BY <1>5
  <2>2. PICK S : objects \in Seq(S)
    BY DEF ObjectsOf
  <2>. DEFINE l == Len(objects)
  <2>3. /\ objects2 \in Seq(S \cup {o}) /\ Len(objects2) = l + 1 /\ l \in Nat
        /\ \A m \in 1..l : objects2[m] = objects[m]
        /\ objects2[l + 1] = o
    <3>1. objects \in Seq(S \cup {o})
      BY <2>2
    <3>. QED  BY <2>1, <3>1, AppendProperties
  <2>4. 1..l \subseteq 1..l + 1 /\ l + 1 \in 1..l + 1 /\ \A m \in 1..l + 1 : m = l + 1 \/ m \in 1..l
    BY <2>3
  <2>5. \A m \in 1..l + 1 : \E i \in 1..n : MadeOf(objects2[m], new[i])
    BY <1>2, <1>3, <2>1, <2>3, <2>4
  <2>6. \A i \in 1..n : new[i].name \notin Is \cup {"set!"} =>
          \E m \in 1..l + 1 : MadeOf(objects2[m], new[i])
    BY <1>1, <1>3, <2>1, <2>3, <2>4
  <2>. QED  BY <2>3, <2>5, <2>6 DEF ObjectsOf
<1>. QED  BY <1>4, <1>5

(* The lists of the predicates before one, with what it states put in, are  *)
(* those of the predicates up to it.                                        *)
LEMMA ListsGrow ==
  ASSUME NEW preds \in Seq(Preds), NEW n \in 1..Len(preds), NEW lists, NEW lists2,
         WholeNames, ListsOf(lists, SubSeq(preds, 1, n - 1)), WellFormed(preds[n]),
         DOMAIN lists2 = DOMAIN lists,
         IF preds[n].name \in Is \cup {"set!"} THEN lists2.predicates = lists.predicates
         ELSE \E o : MadeOf(o, preds[n]) /\ lists2.predicates = Append(lists.predicates, o),
         lists2.settings =
           IF preds[n].name = "set!"
           THEN Put(lists.settings, preds[n].args[1].value, ValueOf(preds[n]))
           ELSE lists.settings,
         lists2.assertions =
           IF preds[n].name \in Is
           THEN Put(lists.assertions, preds[n].args[1].value, Stated(preds[n]))
           ELSE lists.assertions
  PROVE  ListsOf(lists2, SubSeq(preds, 1, n))
<1>. DEFINE old == SubSeq(preds, 1, n - 1)
            new == SubSeq(preds, 1, n)
            p == preds[n]
            v == p.args[1].value
            val == ValueOf(p)
<1>1. /\ old \in Seq(Preds) /\ Len(old) = n - 1 /\ new \in Seq(Preds) /\ Len(new) = n
      /\ \A i \in 1..n - 1 : new[i] = old[i]
      /\ new[n] = p /\ n \in Nat \ {0}
  <2>1. n - 1 \in 0..Len(preds) /\ n \in 0..Len(preds) /\ n \in 1..n /\ \A i \in 1..n - 1 : i \in 1..n
    OBVIOUS
  <2>2. old \in Seq(Preds) /\ Len(old) = n - 1 /\ \A i \in 1..n - 1 : old[i] = preds[i]
    BY <2>1, FirstPredicates
  <2>3. new \in Seq(Preds) /\ Len(new) = n /\ \A i \in 1..n : new[i] = preds[i]
    BY <2>1, FirstPredicates
  <2>. HIDE DEF old, new, p
  <2>4. \A i \in 1..n - 1 : new[i] = old[i]
    BY <2>1, <2>2, <2>3
  <2>5. new[n] = p
    BY <2>1, <2>3 DEF p
  <2>. QED  BY <2>1, <2>2, <2>3, <2>4, <2>5
<1>2. WholeNames /\ ListsOf(lists, old) /\ WellFormed(p)
  OBVIOUS
<1>3. /\ DOMAIN lists2 = DOMAIN lists
      /\ lists2.settings = IF p.name = "set!" THEN Put(lists.settings, v, val) ELSE lists.settings
      /\ lists2.assertions = IF p.name \in Is THEN Put(lists.assertions, v, Stated(p))
                             ELSE lists.assertions
  OBVIOUS
<1>4. val = ValueOf(p) /\ v = new[n].args[1].value
  BY <1>1
<1>. HIDE DEF old, new, p, v, val
<1>5. Accepted(new)
  <2>1. \A i \in 1..n - 1 : WellFormed(old[i])
    BY <1>1, <1>2 DEF ListsOf, Accepted
  <2>2. \A i \in 1..n : i = n \/ i \in 1..n - 1
    BY <1>1
  <2>3. \A i \in 1..n : WellFormed(new[i])
    BY <1>1, <1>2, <2>1, <2>2
  <2>. QED  BY <1>1, <2>3 DEF Accepted
<1>6. ASSUME NEW names
      PROVE  /\ \A key \in Keys(old, names) :
                  /\ key # v \/ p.name \notin names =>
                       LastOf(new, names, key) = LastOf(old, names, key)
                  /\ LastOf(old, names, key) \in 1..n - 1
             /\ p.name \notin names => Keys(new, names) = Keys(old, names)
             /\ p.name \in names =>
                  Keys(new, names) = Keys(old, names) \cup {v} /\ LastOf(new, names, v) = n
  <2>. DEFINE w == new[n].args[1].value
  <2>1. /\ \A key \in Keys(old, names) :
             /\ key # w \/ new[n].name \notin names =>
                  LastOf(new, names, key) = LastOf(old, names, key)
             /\ LastOf(old, names, key) \in 1..n - 1
        /\ new[n].name \notin names => Keys(new, names) = Keys(old, names)
        /\ new[n].name \in names =>
             Keys(new, names) = Keys(old, names) \cup {w} /\ LastOf(new, names, w) = n
    BY <1>1, LastGrows
  <2>2. w = v /\ new[n].name = p.name
    BY <1>1, <1>4
  <2>. HIDE DEF w
  <2>. QED  BY <2>1, <2>2
<1>7. lists2.settings = SettingsOf(new)
  <2>. DEFINE names == {"set!"}
  <2>1. lists.settings = [key \in Keys(old, names) |-> ValueOf(old[LastOf(old, names, key)])]
    BY <1>2 DEF ListsOf, SettingsOf
  <2>2. SettingsOf(new) = [key \in Keys(new, names) |-> ValueOf(new[LastOf(new, names, key)])]
    BY DEF SettingsOf
  <2>3. p.name = "set!" <=> p.name \in names
    OBVIOUS
  <2>. DEFINE said(key) == ValueOf(old[LastOf(old, names, key)])
  <2>. HIDE DEF names
  <2>4. CASE p.name \notin names
    <3>1. \A key \in Keys(old, names) :
            ValueOf(new[LastOf(new, names, key)]) = ValueOf(old[LastOf(old, names, key)])
      BY <1>1, <1>6, <2>4
    <3>2. Keys(new, names) = Keys(old, names)
      BY <1>6, <2>4
    <3>. QED  BY <1>3, <2>1, <2>2, <2>3, <2>4, <3>1, <3>2
  <2>5. CASE p.name \in names
    <3>1. \A key \in Keys(old, names) : key # v =>
            ValueOf(new[LastOf(new, names, key)]) = ValueOf(old[LastOf(old, names, key)])
      BY <1>1, <1>6
    <3>2. Keys(new, names) = Keys(old, names) \cup {v} /\ ValueOf(new[LastOf(new, names, v)]) = val
      BY <1>1, <1>4, <1>6, <2>5
    <3>3. lists2.settings =
            [key \in Keys(old, names) \cup {v} |->
              IF key = v THEN val ELSE said(key)]
      <4>1. lists.settings = [key \in Keys(old, names) |-> said(key)]
        BY <2>1
      <4>. HIDE DEF said
      <4>2. lists2.settings = Put(lists.settings, v, val)
        BY <1>3, <2>3, <2>5
      <4>. QED  BY <4>1, <4>2 DEF Put
    <3>. QED  BY <2>2, <3>1, <3>2, <3>3
  <2>. QED  BY <2>4, <2>5
<1>8. lists2.assertions = AssertionsOf(new)
  <2>. DEFINE names == Is
              say(q) == Stated(q)
  <2>1. lists.assertions = [key \in Keys(old, names) |-> say(old[LastOf(old, names, key)])]
    BY <1>2 DEF ListsOf, AssertionsOf
  <2>2. AssertionsOf(new) = [key \in Keys(new, names) |-> say(new[LastOf(new, names, key)])]
    BY DEF AssertionsOf
  <2>3. p.name \in Is <=> p.name \in names
    OBVIOUS
  <2>4. say(p) = Stated(p)
    OBVIOUS
  <2>. HIDE DEF names, say
  <2>5. CASE p.name \notin names
    <3>1. \A key \in Keys(old, names) :
            say(new[LastOf(new, names, key)]) = say(old[LastOf(old, names, key)])
      BY <1>1, <1>6, <2>5
    <3>2. Keys(new, names) = Keys(old, names)
      BY <1>6, <2>5
    <3>. QED  BY <1>3, <2>1, <2>2, <2>3, <2>5, <3>1, <3>2
  <2>6. CASE p.name \in names
    <3>1. \A key \in Keys(old, names) : key # v =>
            say(new[LastOf(new, names, key)]) = say(old[LastOf(old, names, key)])
      BY <1>1, <1>6
    <3>2. Keys(new, names) = Keys(old, names) \cup {v} /\ say(new[LastOf(new, names, v)]) = say(p)
      BY <1>1, <1>4, <1>6, <2>6
    <3>3. lists2.assertions =
            [key \in Keys(old, names) \cup {v} |->
              IF key = v THEN say(p) ELSE say(old[LastOf(old, names, key)])]
      BY <1>3, <2>1, <2>3, <2>4, <2>6 DEF Put
    <3>. QED  BY <2>2, <3>1, <3>2, <3>3
  <2>. QED  BY <2>5, <2>6
<1>9. DOMAIN lists2 = {"predicates", "settings", "assertions"}
  BY <1>2, <1>3 DEF ListsOf
<1>11. ObjectsOf(lists2.predicates, new)
  <2>1. ObjectsOf(lists.predicates, old)
    BY <1>2 DEF ListsOf
  <2>2. IF new[n].name \in Is \cup {"set!"} THEN lists2.predicates = lists.predicates
        ELSE \E o : MadeOf(o, new[n]) /\ lists2.predicates = Append(lists.predicates, o)
    BY <1>1 DEF p
  <2>. QED  BY <1>1, <2>1, <2>2, ObjectsGrow
<1>10. ListsOf(lists2, new)
  BY <1>5, <1>7, <1>8, <1>9, <1>11 DEF ListsOf
<1>. QED  BY <1>10 DEF new

(* The walk reads a predicate, and takes it for what its name says.         *)
At(preds, n) ==
  /\ Len(stored) + 1 \in DOMAIN query /\ preds = query[Len(stored) + 1]
  /\ query \in Queries /\ Between(preds, n - 1) /\ preds[n] \in Preds
  /\ WholeNames => \A b : Named(b) <=> preds[n].name = b

LEMMA ReadPlace ==
  ASSUME WalkInv, Reading
  PROVE  \E preds \in Seq(Preds) : \E n \in 1..Len(preds) : At(preds, n)
<1>. DEFINE i == Len(stored) + 1
            preds == query[i]
<1>1. query \in Queries /\ Len(stored) < Len(query) /\ j < Len(steps)
  BY DEF WalkInv, Reading
<1>2. Len(stored) \in Nat
  BY <1>1 DEF WalkInv, Reading
<1>3. i \in DOMAIN query /\ preds \in Seq(Preds) /\ DOMAIN preds = 1..Len(preds)
  <2>1. i \in 1..Len(query)
    BY <1>1, <1>2, QueryType
  <2>. QED  BY <1>1, <2>1, QueryType
<1>4. PICK m \in 0..Len(preds) : Between(preds, m)
  BY <1>1 DEF WalkInv, Place, Reading
<1>5. m # Len(preds)
  <2>1. steps = StepsUpTo(preds)[Len(preds)]
    BY DEF steps, Steps
  <2>2. j = Len(StepsUpTo(preds)[m])
    BY <1>4 DEF Between
  <2>3. Len(preds) \in Nat
    BY <1>3
  <2>4. Len(StepsUpTo(preds)[Len(preds)]) \in Nat
    BY <1>3, <2>3, StepsType
  <2>. QED  BY <1>1, <2>1, <2>2, <2>4
<1>6. Len(preds) \in Nat
  BY <1>3
<1>. DEFINE n == m + 1
<1>7. n \in 1..Len(preds) /\ n - 1 = m
  BY <1>5, <1>6
<1>8. Between(preds, n - 1)
  BY <1>4, <1>7
<1>9. name = preds[n].name
  <2>1. j = Len(StepsUpTo(preds)[n - 1]) /\ step = j + 1
    BY <1>8 DEF Between
  <2>2. preds = query[Len(stored) + 1]
    OBVIOUS
  <2>. HIDE DEF preds, n
  <2>. QED  BY <1>3, <1>7, <2>1, <2>2, AtName
<1>10. ASSUME WholeNames  PROVE  \A pair \in PrefixOf : pair[1] # preds[n].name
  <2>. HIDE DEF preds, n, i
  <2>1. \A l \in DOMAIN query[i] : \A pair \in PrefixOf : pair[1] # query[i][l].name
    BY <1>1, <1>3, <1>10 DEF WholeNames
  <2>. QED  BY <1>3, <1>7, <2>1 DEF preds
<1>11. ASSUME WholeNames, NEW b  PROVE  Named(b) <=> preds[n].name = b
  <2>. HIDE DEF preds, n, i
  <2>1. <<preds[n].name, b>> \notin PrefixOf
    BY <1>10, <1>11
  <2>. QED  BY <1>9, <2>1 DEF Named
<1>12. preds[n] \in Preds
  <2>. HIDE DEF preds, n, i
  <2>. QED  BY <1>3, <1>7
<1>13. At(preds, n)
  BY <1>1, <1>3, <1>8, <1>11, <1>12 DEF At
<1>. HIDE DEF preds, n
<1>. QED  BY <1>3, <1>7, <1>13

(* What the walk sees at a predicate.                                       *)
LEMMA Seen ==
  ASSUME NEW preds \in Seq(Preds), NEW n \in 1..Len(preds), At(preds, n)
  PROVE  LET args == preds[n].args
         IN  /\ preds[n] \in Preds /\ args \in Seq(Arguments) /\ Len(args) \in Nat
             /\ name = preds[n].name /\ PredicateLen = Len(args) + 1
             /\ \A i \in 1..Len(args) : Arg(i) = args[i]
             /\ WholeNames => \A bs : NamedIn(bs) <=> preds[n].name \in bs
<1>1. j = Len(StepsUpTo(preds)[n - 1]) /\ step = j + 1 /\ preds = query[Len(stored) + 1]
  BY DEF At, Between
<1>2. /\ name = preds[n].name /\ PredicateLen = Len(preds[n].args) + 1
      /\ \A i \in 1..Len(preds[n].args) : Arg(i) = preds[n].args[i]
  BY <1>1, AtName
<1>3. preds[n] \in Preds /\ preds[n].args \in Seq(Arguments) /\ Len(preds[n].args) \in Nat
  BY PredType DEF At
<1>4. WholeNames => \A bs : NamedIn(bs) <=> preds[n].name \in bs
  BY DEF At, NamedIn
<1>. QED  BY <1>2, <1>3, <1>4

(* What each family of names finds right is what is well formed.            *)
LEMMA Judged ==
  ASSUME WholeNames, NEW preds \in Seq(Preds), NEW n \in 1..Len(preds), At(preds, n)
  PROVE  LET p == preds[n]
         IN  /\ IsEq => p.name \notin Is \cup {"set!"} /\ (WellFormed(p) <=> EqOk)
             /\ IsMatch => p.name \notin Is \cup {"set!"} /\ (WellFormed(p) <=> MatchOk)
             /\ IsAnyOf => p.name \notin Is \cup {"set!"} /\ (WellFormed(p) <=> AnyOfOk)
             /\ IsAssertion => p.name \in Is /\ (WellFormed(p) <=> PropertyOk)
             /\ IsSetting => p.name = "set!" /\ (WellFormed(p) <=> PropertyOk)
             /\ IsGeneric => p.name \notin Is \cup {"set!"} /\ WellFormed(p)
             /\ PropertyOk => Value(1) = p.args[1].value /\ OptionalValue = ValueOf(p)
<1>. DEFINE p == preds[n]
            args == p.args
            a == Len(args)
<1>1. /\ PredicateLen = a + 1 /\ a \in Nat
      /\ \A i \in 1..a : Arg(i) = args[i]
  BY Seen
<1>2. p \in Preds /\ \A b : Named(b) <=> p.name = b
  BY DEF At
<1>. HIDE DEF p
<1>3. ASSUME NEW bs  PROVE  NamedIn(bs) <=> p.name \in bs
  BY <1>2 DEF NamedIn
<1>4. /\ p.name \in EqNames => p.name \notin MatchNames \cup AnyOfNames \cup Is \cup {"set!"}
      /\ p.name \in MatchNames => p.name \notin AnyOfNames \cup Is \cup {"set!"}
      /\ p.name \in AnyOfNames => p.name \notin Is \cup {"set!"}
  BY DEF EqNames, MatchNames, AnyOfNames, Is
<1>5. WellFormed(p) <=>
        /\ p.name \in EqNames => a = 2 /\ args[1].type = "capture"
        /\ p.name \in MatchNames =>
             /\ a = 2 /\ args[1].type = "capture" /\ args[2].type = "string"
             /\ args[2].value \notin BadPatterns
        /\ p.name \in AnyOfNames =>
             a >= 2 /\ args[1].type = "capture" /\ \A i \in 2..a : args[i].type = "string"
        /\ p.name \in Is \cup {"set!"} => a \in {1, 2} /\ \A i \in 1..a : args[i].type = "string"
  BY <1>2, WellFormedCases
<1>. HIDE DEF args
<1>13. (PredicateLen = 3 <=> a = 2) /\ (PredicateLen = 2 <=> a = 1)
  <2>. HIDE DEF a
  <2>. QED  BY <1>1
<1>6. EqOk <=> a = 2 /\ args[1].type = "capture"
  <2>1. EqOk <=> a = 2 /\ Arg(1).type = "capture"
    BY <1>13 DEF EqOk, IsCapture
  <2>2. a = 2 => Arg(1) = args[1]
    BY <1>1
  <2>. QED  BY <2>1, <2>2
<1>7. MatchOk <=> /\ a = 2 /\ args[1].type = "capture" /\ args[2].type = "string"
                  /\ args[2].value \notin BadPatterns
  <2>1. MatchOk <=> /\ a = 2 /\ Arg(1).type = "capture" /\ Arg(2).type = "string"
                    /\ Arg(2).value \notin BadPatterns
    BY <1>13 DEF MatchOk, IsCapture, IsString, Value
  <2>2. a = 2 => Arg(1) = args[1] /\ Arg(2) = args[2]
    BY <1>1
  <2>. QED  BY <2>1, <2>2
<1>8. AnyOfOk <=> a >= 2 /\ args[1].type = "capture" /\ \A i \in 2..a : args[i].type = "string"
  <2>1. PredicateLen - 1 = a /\ (PredicateLen >= 3 <=> a >= 2)
    BY <1>1
  <2>2. AnyOfOk <=> a >= 2 /\ Arg(1).type = "capture" /\ \A i \in 2..a : Arg(i).type = "string"
    BY <2>1 DEF AnyOfOk, IsCapture, IsString
  <2>3. a >= 2 => Arg(1) = args[1] /\ \A i \in 2..a : Arg(i) = args[i]
    BY <1>1
  <2>. QED  BY <2>2, <2>3
<1>9. PropertyOk <=> a \in {1, 2} /\ \A i \in 1..a : args[i].type = "string"
  <2>1. PropertyOk <=> a \in {1, 2} /\ Arg(1).type = "string" /\ (a = 2 => Arg(2).type = "string")
    BY <1>13 DEF PropertyOk, IsString
  <2>2. a \in {1, 2} => Arg(1) = args[1] /\ (a = 2 => Arg(2) = args[2])
    BY <1>1
  <2>3. a \in {1, 2} =>
          ((\A i \in 1..a : args[i].type = "string")
             <=> args[1].type = "string" /\ (a = 2 => args[2].type = "string"))
    BY <1>1
  <2>. QED  BY <2>1, <2>2, <2>3
<1>10. PropertyOk => Value(1) = args[1].value /\ OptionalValue = ValueOf(p)
  <2>1. SUFFICES ASSUME a \in {1, 2}
                 PROVE  Value(1) = args[1].value /\ OptionalValue = ValueOf(p)
    BY <1>9
  <2>2. Arg(1) = args[1] /\ (a = 2 => Arg(2) = args[2])
    BY <1>1, <2>1
  <2>3. OptionalValue = IF a = 2 THEN args[2].value ELSE NONE
    BY <1>1, <2>1, <2>2 DEF OptionalValue, Value
  <2>4. ValueOf(p) = IF a = 2 THEN args[2].value ELSE NONE
    BY DEF ValueOf, args
  <2>. QED  BY <2>2, <2>3, <2>4 DEF Value
<1>11. /\ IsEq => p.name \in EqNames
       /\ IsMatch => p.name \in MatchNames
       /\ IsAnyOf => p.name \in AnyOfNames
       /\ IsAssertion => p.name \in Is
       /\ IsSetting => p.name = "set!"
       /\ IsGeneric => p.name \notin EqNames \cup MatchNames \cup AnyOfNames \cup Is \cup {"set!"}
  <2>1. IsAssertion => p.name \in Is
    BY <1>3 DEF IsAssertion, Is
  <2>2. IsGeneric => p.name \notin EqNames \cup MatchNames \cup AnyOfNames \cup Is \cup {"set!"}
    BY <1>3 DEF IsGeneric, Is
  <2>. QED  BY <1>2, <1>3, <2>1, <2>2 DEF IsEq, IsMatch, IsAnyOf, IsSetting
<1>. HIDE DEF a
<1>. DEFINE okAny == a >= 2 /\ args[1].type = "capture" /\ \A i \in 2..a : args[i].type = "string"
            okProp == a \in {1, 2} /\ \A i \in 1..a : args[i].type = "string"
<1>12. /\ IsEq => p.name \notin Is \cup {"set!"} /\ (WellFormed(p) <=> EqOk)
       /\ IsMatch => p.name \notin Is \cup {"set!"} /\ (WellFormed(p) <=> MatchOk)
       /\ IsAnyOf => p.name \notin Is \cup {"set!"} /\ (WellFormed(p) <=> AnyOfOk)
       /\ IsAssertion => p.name \in Is /\ (WellFormed(p) <=> PropertyOk)
       /\ IsSetting => p.name = "set!" /\ (WellFormed(p) <=> PropertyOk)
       /\ IsGeneric => p.name \notin Is \cup {"set!"} /\ WellFormed(p)
  <2>1. WellFormed(p) <=>
          /\ p.name \in EqNames => EqOk
          /\ p.name \in MatchNames => MatchOk
          /\ p.name \in AnyOfNames => AnyOfOk
          /\ p.name \in Is \cup {"set!"} => PropertyOk
    <3>1. AnyOfOk <=> okAny
      BY <1>8
    <3>2. PropertyOk <=> okProp
      BY <1>9
    <3>3. WellFormed(p) <=>
            /\ p.name \in EqNames => EqOk
            /\ p.name \in MatchNames => MatchOk
            /\ p.name \in AnyOfNames => okAny
            /\ p.name \in Is \cup {"set!"} => okProp
      <4>. HIDE DEF okAny, okProp
      <4>. QED  BY <1>5, <1>6, <1>7 DEF okAny, okProp
    <3>. HIDE DEF okAny, okProp
    <3>. QED  BY <3>1, <3>2, <3>3
  <2>. QED  BY <1>4, <1>11, <2>1
<1>. QED  BY <1>10, <1>12 DEF args, p

LEMMA RejectStep ==
  ASSUME WalkInv,
         RejectEq \/ RejectMatch \/ RejectAnyOf \/ RejectAssertion \/ RejectSetting
  PROVE  WalkInv'
<1>1. Reading /\ Reject
  BY DEF RejectEq, RejectMatch, RejectAnyOf, RejectAssertion, RejectSetting,
         IsEq, IsMatch, IsAnyOf, IsAssertion, IsSetting
<1>2. PICK preds \in Seq(Preds) : \E n \in 1..Len(preds) : At(preds, n)
  BY <1>1, ReadPlace
<1>0. PICK n \in 1..Len(preds) : At(preds, n)
  BY <1>2
<1>3. WholeNames => ~WellFormed(preds[n])
  BY <1>0, Judged DEF RejectEq, RejectMatch, RejectAnyOf, RejectAssertion, RejectSetting
<1>4. WholeNames => ~Accepted(query[Len(stored) + 1])
  <2>1. n \in DOMAIN preds
    OBVIOUS
  <2>. QED  BY <1>0, <1>3, <2>1 DEF Accepted, At
<1>5. built' = "rejected" /\ built # "failed" /\ UNCHANGED <<query, stored, current, step, j>>
  BY <1>1 DEF Reject, Reading
<1>. QED  BY <1>0, <1>4, <1>5 DEF At, WalkInv, Place, Between

LEMMA KeepStep ==
  ASSUME WalkInv, Reading, NEW preds \in Seq(Preds), NEW n \in 1..Len(preds), At(preds, n),
         NEW lists, Keep(lists), ListsOf(lists, SubSeq(preds, 1, n))
  PROVE  WalkInv'
<1>1. /\ query' = query /\ stored' = stored /\ built' = built
      /\ current' = lists /\ j' = j + PredicateLen + 1 /\ step' = step + PredicateLen + 1
  BY DEF Keep
<1>2. j' = Len(StepsUpTo(preds)[n]) /\ step' = j' + 1
  <2>1. j = Len(StepsUpTo(preds)[n - 1]) /\ step = j + 1 /\ preds = query[Len(stored) + 1]
    BY DEF At, Between
  <2>2. /\ j + PredicateLen + 1 = Len(StepsUpTo(preds)[n])
        /\ step + PredicateLen + 1 = Len(StepsUpTo(preds)[n]) + 1
    BY <2>1, AtName
  <2>. QED  BY <1>1, <2>2
<1>3. Between(preds, n)'
  BY <1>1, <1>2 DEF Between
<1>4. n \in 0..Len(preds) /\ preds = query'[Len(stored') + 1] /\ Len(stored') < Len(query')
  BY <1>1 DEF At, Reading
<1>. QED  BY <1>1, <1>3, <1>4 DEF WalkInv, Place, Reading

(* Each action that adds a predicate makes the object for it.               *)
LEMMA Made ==
  ASSUME NEW preds \in Seq(Preds), NEW n \in 1..Len(preds), At(preds, n),
         AddEqCapture \/ AddEqString \/ AddMatch \/ AddAnyOf \/ AddGeneric
  PROVE  \E o : KeepPredicate(o) /\ (WholeNames => MadeOf(o, preds[n]))
<1>. DEFINE pred == preds[n]
            args == pred.args
            a == Len(args)
<1>1. /\ pred \in Preds /\ args \in Seq(Arguments) /\ a \in Nat
      /\ name = pred.name /\ PredicateLen = a + 1 /\ \A i \in 1..a : Arg(i) = args[i]
      /\ WholeNames => \A bs : NamedIn(bs) <=> pred.name \in bs
  BY Seen
<1>2. /\ pred.name \in EqNames => pred.name \notin MatchNames \cup AnyOfNames
      /\ pred.name \in MatchNames => pred.name \notin AnyOfNames
  BY DEF EqNames, MatchNames, AnyOfNames
<1>. HIDE DEF pred, args, a
<1>3. \A i \in 1..a : args[i] \in Arguments
  BY <1>1 DEF a
<1>4. \A x \in Arguments : x.type \in {"capture", "string"}
  BY DEF Arguments
<1>5. PredicateLen = 3 => a = 2 /\ Arg(1) = args[1] /\ Arg(2) = args[2]
  <2>1. PredicateLen = 3 => a = 2
    BY <1>1
  <2>. QED  BY <1>1, <2>1
<1>11. name = pred.name /\ (pred.name \in AnyNames) \in BOOLEAN
  BY <1>1
<1>6. ASSUME AddEqCapture
      PROVE  \E o : KeepPredicate(o) /\ (WholeNames => MadeOf(o, pred))
  <2>. DEFINE o == [kind |-> "eq capture", capture |-> Value(1), other |-> Value(2),
                    positive |-> NamedIn({"eq?", "any-eq?"}), any |-> name \in AnyNames]
  <2>1. IsEq /\ EqOk /\ IsCapture(2) /\ KeepPredicate(o)
    BY <1>6 DEF AddEqCapture
  <2>2. /\ o.kind = "eq capture" /\ o.capture = Value(1) /\ o.other = Value(2)
        /\ o.positive = NamedIn({"eq?", "any-eq?"}) /\ o.any = (name \in AnyNames)
    OBVIOUS
  <2>. HIDE DEF o
  <2>3. ASSUME WholeNames  PROVE  ObjectOf(o, pred)
    <3>1. /\ pred.name \in EqNames /\ PredicateLen = 3 /\ Arg(2).type = "capture"
          /\ NamedIn({"eq?", "any-eq?"}) \in BOOLEAN
          /\ NamedIn({"eq?", "any-eq?"}) <=> pred.name \in {"eq?", "any-eq?"}
      BY <1>1, <2>1, <2>3 DEF IsEq, EqOk, IsCapture, NamedIn
    <3>3. o.capture = pred.args[1].value /\ o.other = pred.args[2].value /\ pred.args[2].type = "capture"
      BY <1>5, <2>2, <3>1 DEF Value, args
    <3>4. o.positive \in BOOLEAN /\ (o.positive <=> pred.name \in {"eq?", "any-eq?"})
      BY <2>2, <3>1
    <3>5. o.any \in BOOLEAN /\ (o.any <=> pred.name \in AnyNames)
      BY <1>11, <2>2
    <3>. QED  BY <2>2, <3>1, <3>3, <3>4, <3>5 DEF ObjectOf
  <2>. QED  BY <2>1, <2>3 DEF MadeOf
<1>7. ASSUME AddEqString
      PROVE  \E o : KeepPredicate(o) /\ (WholeNames => MadeOf(o, pred))
  <2>. DEFINE o == [kind |-> "eq string", capture |-> Value(1), string |-> Value(2),
                    positive |-> NamedIn({"eq?", "any-eq?"}), any |-> name \in AnyNames]
  <2>1. IsEq /\ EqOk /\ ~IsCapture(2) /\ KeepPredicate(o)
    BY <1>7 DEF AddEqString
  <2>2. /\ o.kind = "eq string" /\ o.capture = Value(1) /\ o.string = Value(2)
        /\ o.positive = NamedIn({"eq?", "any-eq?"}) /\ o.any = (name \in AnyNames)
    OBVIOUS
  <2>. HIDE DEF o
  <2>3. ASSUME WholeNames  PROVE  ObjectOf(o, pred)
    <3>1. /\ pred.name \in EqNames /\ PredicateLen = 3 /\ Arg(2).type # "capture"
          /\ NamedIn({"eq?", "any-eq?"}) \in BOOLEAN
          /\ NamedIn({"eq?", "any-eq?"}) <=> pred.name \in {"eq?", "any-eq?"}
      BY <1>1, <2>1, <2>3 DEF IsEq, EqOk, IsCapture, NamedIn
    <3>2. args[2].type = "string"
      <4>1. 2 \in 1..a
        BY <1>5, <3>1
      <4>. QED  BY <1>3, <1>4, <1>5, <3>1, <4>1
    <3>3. o.capture = pred.args[1].value /\ o.string = pred.args[2].value /\ pred.args[2].type = "string"
      BY <1>5, <2>2, <3>1, <3>2 DEF Value, args
    <3>4. o.positive \in BOOLEAN /\ (o.positive <=> pred.name \in {"eq?", "any-eq?"})
      BY <2>2, <3>1
    <3>5. o.any \in BOOLEAN /\ (o.any <=> pred.name \in AnyNames)
      BY <1>11, <2>2
    <3>. QED  BY <2>2, <3>1, <3>3, <3>4, <3>5 DEF ObjectOf
  <2>. QED  BY <2>1, <2>3 DEF MadeOf
<1>8. ASSUME AddMatch
      PROVE  \E o : KeepPredicate(o) /\ (WholeNames => MadeOf(o, pred))
  <2>. DEFINE o == [kind |-> "match", capture |-> Value(1), pattern |-> Value(2),
                    positive |-> NamedIn({"match?", "any-match?"}), any |-> name \in AnyNames]
  <2>1. IsMatch /\ MatchOk /\ KeepPredicate(o)
    BY <1>8 DEF AddMatch
  <2>2. /\ o.kind = "match" /\ o.capture = Value(1) /\ o.pattern = Value(2)
        /\ o.positive = NamedIn({"match?", "any-match?"}) /\ o.any = (name \in AnyNames)
    OBVIOUS
  <2>. HIDE DEF o
  <2>3. ASSUME WholeNames  PROVE  ObjectOf(o, pred)
    <3>1. /\ pred.name \in MatchNames /\ PredicateLen = 3
          /\ NamedIn({"match?", "any-match?"}) \in BOOLEAN
          /\ NamedIn({"match?", "any-match?"}) <=> pred.name \in {"match?", "any-match?"}
      BY <1>1, <2>1, <2>3 DEF IsMatch, MatchOk, NamedIn
    <3>3. o.capture = pred.args[1].value /\ o.pattern = pred.args[2].value
      BY <1>5, <2>2, <3>1 DEF Value, args
    <3>4. o.positive \in BOOLEAN /\ (o.positive <=> pred.name \in {"match?", "any-match?"})
      BY <2>2, <3>1
    <3>5. o.any \in BOOLEAN /\ (o.any <=> pred.name \in AnyNames)
      BY <1>11, <2>2
    <3>. QED  BY <2>2, <3>1, <3>3, <3>4, <3>5 DEF ObjectOf
  <2>. QED  BY <2>1, <2>3 DEF MadeOf
<1>9. ASSUME AddAnyOf
      PROVE  \E o : KeepPredicate(o) /\ (WholeNames => MadeOf(o, pred))
  <2>. DEFINE values == [i \in 1..PredicateLen-2 |-> Value(i + 1)]
              o == [kind |-> "any-of", capture |-> Value(1), values |-> values,
                    positive |-> LengthOf[name] = 7]
  <2>1. IsAnyOf /\ AnyOfOk /\ KeepPredicate(o)
    BY <1>9 DEF AddAnyOf
  <2>2. /\ o.kind = "any-of" /\ o.capture = Value(1) /\ o.values = values
        /\ o.positive = (LengthOf[name] = 7)
    OBVIOUS
  <2>. HIDE DEF o
  <2>3. ASSUME WholeNames  PROVE  ObjectOf(o, pred)
    <3>1. pred.name \in AnyOfNames /\ PredicateLen >= 3
      BY <1>1, <2>1, <2>3 DEF IsAnyOf, AnyOfOk
    <3>2. a >= 2 /\ PredicateLen - 2 = a - 1
      BY <1>1, <3>1
    <3>3. Value(1) = args[1].value
      <4>1. 1 \in 1..a
        BY <1>1, <3>2
      <4>. QED  BY <1>1, <4>1 DEF Value
    <3>4. values = [i \in 1..a-1 |-> args[i + 1].value]
      <4>1. \A i \in 1..a - 1 : i + 1 \in 1..a
        BY <1>1
      <4>2. \A i \in 1..a - 1 : Value(i + 1) = args[i + 1].value
        BY <1>1, <4>1 DEF Value
      <4>. QED  BY <3>2, <4>2
    <3>5. (LengthOf[name] = 7) <=> pred.name = "any-of?"
      <4>1. pred.name \in DOMAIN LengthOf
        BY <1>1 DEF Preds
      <4>. QED  BY <1>1, <3>1, <4>1, NamesAssumption
    <3>. QED  BY <2>2, <3>1, <3>3, <3>4, <3>5 DEF ObjectOf, args, a
  <2>. QED  BY <2>1, <2>3 DEF MadeOf
<1>10. ASSUME AddGeneric
       PROVE  \E o : KeepPredicate(o) /\ (WholeNames => MadeOf(o, pred))
  <2>. DEFINE given == [i \in 1..PredicateLen-1 |-> Arg(i)]
              o == [kind |-> "generic", predicate |-> name, arguments |-> given,
                    pattern |-> Len(stored) + 1]
  <2>1. IsGeneric /\ KeepPredicate(o)
    BY <1>10 DEF AddGeneric
  <2>2. o.kind = "generic" /\ o.predicate = name /\ o.arguments = given
    OBVIOUS
  <2>. HIDE DEF o
  <2>3. ASSUME WholeNames  PROVE  GenericOf(o, pred)
    <3>1. pred.name \notin EqNames \cup MatchNames \cup AnyOfNames \cup Is \cup {"set!"}
      BY <1>1, <2>1, <2>3 DEF IsGeneric, Is
    <3>2. given = args
      <4>1. PredicateLen - 1 = a
        BY <1>1
      <4>2. given = [i \in 1..a |-> args[i]]
        BY <1>1, <4>1
      <4>3. args = [i \in 1..a |-> args[i]]
        BY <1>1 DEF a
      <4>. QED  BY <4>2, <4>3
    <3>. QED  BY <1>1, <2>2, <3>1, <3>2 DEF GenericOf, BuiltIn, args
  <2>. QED  BY <2>1, <2>3 DEF MadeOf
<1>. QED  BY <1>6, <1>7, <1>8, <1>9, <1>10 DEF pred

LEMMA AddPredicateStep ==
  ASSUME WalkInv,
         AddEqCapture \/ AddEqString \/ AddMatch \/ AddAnyOf \/ AddGeneric
  PROVE  WalkInv'
<1>1. Reading
  BY DEF AddEqCapture, AddEqString, AddMatch, AddAnyOf, AddGeneric,
         IsEq, IsMatch, IsAnyOf, IsGeneric
<1>3. PICK preds \in Seq(Preds) : \E n \in 1..Len(preds) : At(preds, n)
  BY <1>1, ReadPlace
<1>4. PICK n \in 1..Len(preds) : At(preds, n)
  BY <1>3
<1>2. PICK p : KeepPredicate(p) /\ (WholeNames => MadeOf(p, preds[n]))
  BY <1>4, Made
<1>5. WholeNames => WellFormed(preds[n]) /\ preds[n].name \notin Is \cup {"set!"}
  BY <1>4, Judged DEF AddEqCapture, AddEqString, AddMatch, AddAnyOf, AddGeneric
<1>6. PICK lists : lists = [current EXCEPT !.predicates = Append(@, p)]
  OBVIOUS
<1>7. ListsOf(current, SubSeq(preds, 1, n - 1))
  BY <1>4 DEF At, Between
<1>8. /\ DOMAIN lists = DOMAIN current /\ lists.settings = current.settings
      /\ lists.assertions = current.assertions
      /\ lists.predicates = Append(current.predicates, p)
  BY <1>6, <1>7 DEF ListsOf
<1>9. ListsOf(lists, SubSeq(preds, 1, n))
  <2>1. WholeNames => preds[n].name # "set!" /\ preds[n].name \notin Is
    BY <1>5
  <2>2. CASE WholeNames
    <3>1. IF preds[n].name \in Is \cup {"set!"} THEN lists.predicates = current.predicates
          ELSE \E o : MadeOf(o, preds[n]) /\ lists.predicates = Append(current.predicates, o)
      BY <1>2, <1>5, <1>8, <2>2
    <3>. QED  BY <1>5, <1>7, <1>8, <2>1, <2>2, <3>1, ListsGrow
  <2>3. CASE ~WholeNames
    BY <1>7, <1>8, <2>3 DEF ListsOf
  <2>. QED  BY <2>2, <2>3
<1>10. Keep(lists)
  BY <1>2, <1>6 DEF KeepPredicate
<1>. QED  BY <1>1, <1>4, <1>9, <1>10, KeepStep

LEMMA AddSettingStep ==
  ASSUME WalkInv, AddSetting
  PROVE  WalkInv'
<1>1. Reading /\ IsSetting /\ PropertyOk
  BY DEF AddSetting, IsSetting
<1>3. PICK preds \in Seq(Preds) : \E n \in 1..Len(preds) : At(preds, n)
  BY <1>1, ReadPlace
<1>4. PICK n \in 1..Len(preds) : At(preds, n)
  BY <1>3
<1>5. WholeNames =>
        /\ WellFormed(preds[n]) /\ preds[n].name = "set!"
        /\ Value(1) = preds[n].args[1].value /\ OptionalValue = ValueOf(preds[n])
  BY <1>1, <1>4, Judged
<1>6. PICK lists : lists = [current EXCEPT !.settings = Put(@, Value(1), OptionalValue)]
  OBVIOUS
<1>7. ListsOf(current, SubSeq(preds, 1, n - 1))
  BY <1>4 DEF At, Between
<1>8. /\ DOMAIN lists = DOMAIN current /\ lists.assertions = current.assertions
      /\ lists.predicates = current.predicates
      /\ WholeNames =>
           lists.settings = Put(current.settings, preds[n].args[1].value, ValueOf(preds[n]))
  BY <1>5, <1>6, <1>7 DEF ListsOf
<1>9. ListsOf(lists, SubSeq(preds, 1, n))
  <2>1. WholeNames => preds[n].name = "set!" /\ preds[n].name \notin Is
    BY <1>5 DEF Is
  <2>2. CASE WholeNames
    BY <1>5, <1>7, <1>8, <2>1, <2>2, ListsGrow
  <2>3. CASE ~WholeNames
    BY <1>7, <1>8, <2>3 DEF ListsOf
  <2>. QED  BY <2>2, <2>3
<1>10. Keep(lists)
  BY <1>6 DEF AddSetting
<1>. QED  BY <1>1, <1>4, <1>9, <1>10, KeepStep

LEMMA AddAssertionStep ==
  ASSUME WalkInv, AddAssertion
  PROVE  WalkInv'
<1>1. Reading /\ IsAssertion /\ PropertyOk
  BY DEF AddAssertion, IsAssertion
<1>3. PICK preds \in Seq(Preds) : \E n \in 1..Len(preds) : At(preds, n)
  BY <1>1, ReadPlace
<1>4. PICK n \in 1..Len(preds) : At(preds, n)
  BY <1>3
<1>. DEFINE p == preds[n]
<1>5. WholeNames =>
        /\ WellFormed(p) /\ p.name \in Is
        /\ Value(1) = p.args[1].value /\ OptionalValue = ValueOf(p)
  BY <1>1, <1>4, Judged
<1>6. PICK lists : lists = [current EXCEPT !.assertions = Put(@, Value(1), <<OptionalValue, Polarity>>)]
  OBVIOUS
<1>7. ListsOf(current, SubSeq(preds, 1, n - 1))
  BY <1>4 DEF At, Between
<1>8. /\ DOMAIN lists = DOMAIN current /\ lists.settings = current.settings
      /\ lists.predicates = current.predicates
      /\ WholeNames =>
           lists.assertions = Put(current.assertions, p.args[1].value, <<ValueOf(p), Polarity>>)
  BY <1>5, <1>6, <1>7 DEF ListsOf
<1>9. WholeNames => <<ValueOf(p), Polarity>> = Stated(p)
  BY <1>5 DEF Polarity, Stated
<1>10. ListsOf(lists, SubSeq(preds, 1, n))
  <2>1. WholeNames => p.name # "set!" /\ p.name \in Is
    BY <1>5 DEF Is
  <2>2. WholeNames =>
          lists.assertions =
            IF p.name \in Is
            THEN Put(current.assertions, p.args[1].value, Stated(p))
            ELSE current.assertions
    BY <1>8, <1>9, <2>1
  <2>3. CASE WholeNames
    BY <1>5, <1>7, <1>8, <2>1, <2>2, <2>3, ListsGrow
  <2>4. CASE ~WholeNames
    BY <1>7, <1>8, <2>4 DEF ListsOf
  <2>. QED  BY <2>3, <2>4
<1>11. Keep(lists)
  BY <1>6 DEF AddAssertion
<1>. QED  BY <1>1, <1>4, <1>10, <1>11, KeepStep

LEMMA EmptyLists ==
  ASSUME NEW preds \in Seq(Preds)
  PROVE  ListsOf(NewLists, SubSeq(preds, 1, 0)) /\ Len(StepsUpTo(preds)[0]) = 0
<1>1. SubSeq(preds, 1, 0) = <<>>
  BY SubSeqEmpty
<1>2. \A names : Keys(<<>>, names) = {}
  BY DEF Keys, ToSet
<1>3. SettingsOf(<<>>) = <<>>
  <2>1. DOMAIN SettingsOf(<<>>) = {} /\ SettingsOf(<<>>) = [x \in {} |-> SettingsOf(<<>>)[x]]
    BY <1>2 DEF SettingsOf
  <2>2. \A f, g : f = [x \in {} |-> f[x]] /\ g = [x \in {} |-> g[x]] => f = g
    OBVIOUS
  <2>3. <<>> = [x \in {} |-> <<>>[x]]
    OBVIOUS
  <2>. QED  BY <2>1, <2>2, <2>3
<1>4. AssertionsOf(<<>>) = <<>>
  <2>1. AssertionsOf(<<>>) = [x \in {} |-> AssertionsOf(<<>>)[x]]
    BY <1>2 DEF AssertionsOf
  <2>2. \A f, g : f = [x \in {} |-> f[x]] /\ g = [x \in {} |-> g[x]] => f = g
    OBVIOUS
  <2>3. <<>> = [x \in {} |-> <<>>[x]]
    OBVIOUS
  <2>. QED  BY <2>1, <2>2, <2>3
<1>5. Accepted(<<>>)
  BY DEF Accepted
<1>6. /\ DOMAIN NewLists = {"predicates", "settings", "assertions"}
      /\ NewLists.predicates = <<>> /\ NewLists.settings = <<>> /\ NewLists.assertions = <<>>
  BY DEF NewLists
<1>9. ObjectsOf(<<>>, <<>>)
  BY DEF ObjectsOf
<1>7. ListsOf(NewLists, <<>>)
  BY <1>3, <1>4, <1>5, <1>6, <1>9 DEF ListsOf
<1>8. Len(StepsUpTo(preds)[0]) = 0
  <2>1. StepsUpTo(preds)[0] = <<>>
    BY StepsRecursion
  <2>. QED  BY <2>1
<1>. QED  BY <1>1, <1>7, <1>8

(* The walk starts a pattern, or has read them all.                         *)
LEMMA PatternStarts ==
  ASSUME NEW q \in Queries, NEW i \in 0..Len(q),
         current' = NewLists, step' = 1, j' = 0, query' = q, Len(stored') = i
  PROVE  Place'
<1>1. SUFFICES ASSUME i < Len(q)
               PROVE  \E m \in 0..Len(q[i + 1]) : (Between(query[i + 1], m))'
  BY DEF Place
<1>2. i + 1 \in 1..Len(q)
  BY <1>1, QueryType
<1>3. q[i + 1] \in Seq(Preds)
  BY <1>2, QueryType
<1>4. ListsOf(NewLists, SubSeq(q[i + 1], 1, 0)) /\ Len(StepsUpTo(q[i + 1])[0]) = 0
  BY <1>3, EmptyLists
<1>5. (Between(query[i + 1], 0))'
  BY <1>4 DEF Between
<1>6. 0 \in 0..Len(q[i + 1])
  BY <1>3
<1>. QED  BY <1>5, <1>6

LEMMA StoreStep ==
  ASSUME WalkInv, StorePattern
  PROVE  WalkInv'
<1>. DEFINE i == Len(stored) + 1
            preds == query[i]
<1>1. /\ built = "reading" /\ Len(stored) < Len(query) /\ j >= Len(steps)
      /\ stored' = Append(stored, current) /\ current' = NewLists /\ step' = 1 /\ j' = 0
      /\ query' = query /\ built' = built
  BY DEF StorePattern
<1>2. PICK S : stored \in Seq(S)
  BY <1>1 DEF WalkInv
<1>3. /\ query \in Queries /\ i \in 1..Len(query) /\ preds \in Seq(Preds) /\ Len(preds) \in Nat
      /\ Len(query) \in Nat /\ Len(stored) \in Nat /\ DOMAIN query = 1..Len(query)
  <2>1. query \in Queries
    BY <1>1 DEF WalkInv
  <2>2. i \in 1..Len(query)
    BY <1>1, <1>2, <2>1, QueryType
  <2>3. preds \in Seq(Preds)
    BY <2>1, <2>2, QueryType
  <2>4. Len(preds) \in Nat
    BY <2>3
  <2>. QED  BY <1>2, <2>1, <2>2, <2>3, <2>4, QueryType
<1>4. PICK m \in 0..Len(preds) : Between(preds, m)
  BY <1>1 DEF WalkInv, Place
<1>5. m = Len(preds)
  <2>1. SUFFICES ASSUME m # Len(preds)  PROVE  FALSE
    OBVIOUS
  <2>. DEFINE n == m + 1
  <2>2. n \in 1..Len(preds) /\ n - 1 = m
    BY <1>3, <2>1
  <2>. HIDE DEF n
  <2>3. /\ Len(StepsUpTo(preds)[n - 1]) \in Nat /\ Len(preds[n].args) \in Nat /\ Len(Steps(preds)) \in Nat
        /\ Len(StepsUpTo(preds)[n - 1]) + Len(preds[n].args) + 2 <= Len(Steps(preds))
    <3>. HIDE DEF preds
    <3>. QED  BY <1>3, <2>2, AtPredicate
  <2>4. j = Len(StepsUpTo(preds)[n - 1]) /\ steps = Steps(preds)
    BY <1>4, <2>2 DEF Between, steps
  <2>. DEFINE a == Len(preds[n].args)
              l == Len(Steps(preds))
  <2>5. j \in Nat /\ a \in Nat /\ l \in Nat /\ j + a + 2 <= l /\ j >= l
    BY <1>1, <2>3, <2>4
  <2>. HIDE DEF a, l
  <2>. QED  BY <2>5
<1>6. ListsOf(current, preds)
  <2>1. SubSeq(preds, 1, Len(preds)) = preds
    BY <1>3, SubSeqFull
  <2>. QED  BY <1>4, <1>5, <2>1 DEF Between
<1>7. /\ stored' \in Seq(S \cup {current}) /\ Len(stored') = i
      /\ \A l \in 1..Len(stored) : stored'[l] = stored[l]
      /\ stored'[i] = current
  <2>1. stored \in Seq(S \cup {current})
    BY <1>2
  <2>. QED  BY <1>1, <2>1, AppendProperties
<1>8. \A l \in 1..i : ListsOf(stored'[l], query[l])
  <2>1. \A l \in 1..i : l = i \/ l \in 1..Len(stored)
    BY <1>3
  <2>2. \A l \in 1..Len(stored) : ListsOf(stored[l], query[l])
    BY <1>1 DEF WalkInv
  <2>. QED  BY <1>6, <1>7, <2>1, <2>2
<1>9. Place'
  <2>1. PICK q \in Queries : q = query
    BY <1>3
  <2>2. PICK x \in 0..Len(q) : x = i
    BY <1>3, <2>1
  <2>. HIDE DEF i
  <2>. QED  BY <1>1, <1>7, <2>1, <2>2, PatternStarts
<1>10. Len(stored') <= Len(query') /\ \A l \in 1..Len(stored') : (ListsOf(stored[l], query[l]))'
  <2>1. Len(stored') <= Len(query')
    BY <1>1, <1>3, <1>7
  <2>2. \A l \in 1..Len(stored') : (ListsOf(stored[l], query[l]))'
    BY <1>1, <1>7, <1>8 DEF ListsOf
  <2>. QED  BY <2>1, <2>2
<1>. QED  BY <1>1, <1>3, <1>7, <1>9, <1>10 DEF WalkInv

LEMMA WalkInit == Init => WalkInv
<1>1. SUFFICES ASSUME Init, built # "failed"  PROVE  WalkInv
  BY DEF WalkInv
<1>2. /\ query \in Queries /\ built = "reading" /\ stored = <<>> /\ current = NewLists
      /\ step = 1 /\ j = 0
  BY <1>1 DEF Init, BuildInit
<1>3. stored \in Seq({}) /\ Len(stored) = 0
  BY <1>2
<1>4. Len(query) \in Nat
  BY <1>2, QueryType
<1>5. Place
  <2>1. SUFFICES ASSUME 0 < Len(query)
                 PROVE  \E m \in 0..Len(query[0 + 1]) : Between(query[0 + 1], m)
    BY <1>2, <1>3 DEF Place
  <2>2. query[0 + 1] \in Seq(Preds)
    BY <1>2, <1>4, <2>1, QueryType
  <2>3. ListsOf(NewLists, SubSeq(query[0 + 1], 1, 0)) /\ Len(StepsUpTo(query[0 + 1])[0]) = 0
    BY <2>2, EmptyLists
  <2>4. Between(query[0 + 1], 0)
    BY <1>2, <2>3 DEF Between
  <2>5. 0 \in 0..Len(query[0 + 1])
    BY <2>2
  <2>. QED  BY <2>4, <2>5
<1>. QED  BY <1>2, <1>3, <1>4, <1>5 DEF WalkInv

(* What happens after the walk, or without it, leaves it as it is.          *)
LEMMA WalkRests ==
  ASSUME WalkInv, built' = built \/ (built = "reading" /\ Len(stored) = Len(query) /\ built' = "built"),
         UNCHANGED <<query, stored, current, step, j>>
  PROVE  WalkInv'
<1>1. (\A l \in 1..Len(stored) : ListsOf(stored[l], query[l]))
        => (\A l \in 1..Len(stored) : ListsOf(stored[l], query[l]))'
  BY DEF ListsOf
<1>2. Place => Place'
  <2>1. ASSUME NEW preds, NEW m  PROVE  Between(preds, m) => Between(preds, m)'
    BY DEF Between
  <2>. QED  BY <2>1 DEF Place
<1>. QED  BY <1>1, <1>2 DEF WalkInv

(* No later step changes what Query.__new__ left.                           *)
LEMMA UnbuiltSteps ==
  RejectArguments \/ Execute \/ DropResult \/ Run \/ UNCHANGED vars => UNCHANGED buildVars
<1>1. RejectArguments \/ Execute \/ DropResult => UNCHANGED buildVars
  BY DEF RejectArguments, Execute, DropResult
<1>2. Run => UNCHANGED buildVars
  BY DEF Run, NextMatch, Exhausted, Return, ProgressContinues, ProgressCancels, ProgressRaises,
         Fault, TextPredicate, TextFails, WithoutCallable, CallPredicate, PredicateAccepts,
         PredicateRefuses, PredicateUntestable, PredicateRaises, PredicateReenters,
         PredicateMovesCaptures, Collect,
         Satisfied, Unsatisfied
<1>3. UNCHANGED vars => UNCHANGED buildVars
  BY DEF vars
<1>. QED  BY <1>1, <1>2, <1>3

LEMMA WalkStep == WalkInv /\ [Next]_vars => WalkInv'
<1>1. SUFFICES ASSUME WalkInv, [Next]_vars  PROVE  WalkInv'
  OBVIOUS
<1>2. CASE RejectEq \/ RejectMatch \/ RejectAnyOf \/ RejectAssertion \/ RejectSetting
  BY <1>1, <1>2, RejectStep
<1>3. CASE AddEqCapture \/ AddEqString \/ AddMatch \/ AddAnyOf \/ AddGeneric
  BY <1>1, <1>3, AddPredicateStep
<1>4. CASE AddSetting
  BY <1>1, <1>4, AddSettingStep
<1>5. CASE AddAssertion
  BY <1>1, <1>5, AddAssertionStep
<1>6. CASE StorePattern
  BY <1>1, <1>6, StoreStep
<1>7. CASE ReturnQuery
  BY <1>1, <1>7, WalkRests DEF ReturnQuery
<1>8. CASE Report
  BY <1>1, <1>8, WalkRests DEF Report
<1>9. CASE UNCHANGED buildVars
  BY <1>1, <1>9, WalkRests DEF buildVars
<1>10. Build => BuildNext
  BY DEF Build
<1>. QED
  BY <1>1, <1>2, <1>3, <1>4, <1>5, <1>6, <1>7, <1>8, <1>9, <1>10, UnbuiltSteps
     DEF Next, BuildNext

LEMMA WalkInvariant == Spec => []WalkInv
<1>1. Init => WalkInv
  BY WalkInit
<1>2. WalkInv /\ [Next]_vars => WalkInv'
  BY WalkStep
<1>. QED  BY <1>1, <1>2, PTL DEF Spec

(* Query.__new__ rejects a query if and only if one of its predicates is    *)
(* malformed, for all queries of any length without a name that only begins *)
(* a built-in one.                                                          *)
THEOREM MalformedRejected ==
  ASSUME WholeNames
  PROVE  Spec => []RejectsMalformed
<1>1. WalkInv => RejectsMalformed
  <2>1. SUFFICES ASSUME WalkInv, built \in {"built", "rejected"}
                 PROVE  built = "rejected" <=>
                          \E i \in DOMAIN query : \E n \in DOMAIN query[i] : ~WellFormed(query[i][n])
    BY DEF RejectsMalformed
  <2>2. query \in Queries /\ DOMAIN query = 1..Len(query)
    BY <2>1, QueryType DEF WalkInv
  <2>3. CASE built = "built"
    <3>1. \A i \in 1..Len(query) : ListsOf(stored[i], query[i])
      BY <2>1, <2>3 DEF WalkInv
    <3>. QED  BY <2>2, <2>3, <3>1 DEF ListsOf, Accepted
  <2>4. CASE built = "rejected"
    BY <2>1, <2>4 DEF WalkInv, Accepted
  <2>. QED  BY <2>1, <2>3, <2>4
<1>2. Spec => []WalkInv
  BY WalkInvariant
<1>. QED  BY <1>1, <1>2, PTL

(* The settings that a Query keeps for a pattern are those its set!         *)
(* predicates state, the last one of each key, for all such queries.        *)
THEOREM SettingsAreStated ==
  ASSUME WholeNames
  PROVE  Spec => []SettingsKept
<1>1. WalkInv => SettingsKept
  <2>1. SUFFICES ASSUME WalkInv, built = "built", NEW i \in DOMAIN query
                 PROVE  stored[i].settings = SettingsOf(query[i])
    BY DEF SettingsKept, SettingsOf
  <2>2. i \in 1..Len(stored)
    BY <2>1, QueryType DEF WalkInv
  <2>. QED  BY <2>1, <2>2 DEF WalkInv, ListsOf
<1>2. Spec => []WalkInv
  BY WalkInvariant
<1>. QED  BY <1>1, <1>2, PTL

(* The assertions of a pattern are those its is? and is-not? predicates     *)
(* state, with the value of the last one of each key, for all such queries  *)
(* and keys of every length.  Which of the two names it was is not kept.    *)
THEOREM AssertionsAreStated ==
  ASSUME WholeNames
  PROVE  Spec => []AssertionsKept
<1>1. WalkInv => AssertionsKept
  <2>1. SUFFICES ASSUME WalkInv, built = "built", NEW i \in DOMAIN query
                 PROVE  [key \in DOMAIN stored[i].assertions |-> stored[i].assertions[key][1]] =
                          [key \in Keys(query[i], Is) |-> ValueOf(query[i][LastOf(query[i], Is, key)])]
    BY DEF AssertionsKept, Assertions, Is
  <2>2. i \in 1..Len(stored)
    BY <2>1, QueryType DEF WalkInv
  <2>3. stored[i].assertions = AssertionsOf(query[i])
    BY <2>1, <2>2 DEF WalkInv, ListsOf
  <2>4. \A p : Stated(p)[1] = ValueOf(p)
    BY DEF Stated
  <2>5. /\ DOMAIN AssertionsOf(query[i]) = Keys(query[i], Is)
        /\ \A key \in Keys(query[i], Is) :
             AssertionsOf(query[i])[key][1] = ValueOf(query[i][LastOf(query[i], Is, key)])
    BY <2>4 DEF AssertionsOf
  <2>. QED  BY <2>3, <2>5
<1>2. Spec => []WalkInv
  BY WalkInvariant
<1>. QED  BY <1>1, <1>2, PTL

-----------------------------------------------------------------------------
(* The position of an error.                                                *)

ScanRecord ==
  [written : Seq({"char", "newline"}), text : Seq({"char", "newline", "nul"}), uses : {0, 1, 2},
   offset : Nat, at : Nat, start : Nat, row : Nat, reported : BOOLEAN]

ScanType ==
  /\ scan \in ScanRecord
  /\ Len(scan.text) = Len(scan.written)
  /\ scan.offset <= Len(scan.text) /\ scan.at <= Len(scan.text)
  /\ scan.reported => scan.uses > 0

(* strtok() writes its NULs over newlines, and in a str that is new only    *)
(* behind itself.                                                           *)
CutAtNewlines ==
  \A i \in 1..Len(scan.text) :
    /\ scan.text[i] # scan.written[i] => scan.text[i] = "nul" /\ scan.written[i] = "newline"
    /\ scan.uses = 1 /\ i > scan.at => scan.text[i] = scan.written[i]

Regular == NoEmptyLine /\ (scan.uses = 1 \/ TrueRow <= 1)

NewlinesBefore(p) == {m \in 0..p-1 : scan.written[m + 1] = "newline"}

(* The line at hand starts a row of the source as it was written, whose     *)
(* number is counted; strtok() is at this start, or stuck at a NUL before   *)
(* it that an earlier use left there.                                       *)
AtRow ==
  /\ scan.start <= scan.offset
  /\ scan.start > 0 => scan.written[scan.start] = "newline"
  /\ IsFiniteSet(NewlinesBefore(scan.start))
  /\ scan.row = Cardinality(NewlinesBefore(scan.start))

ScanInv ==
  /\ ScanType
  /\ CutAtNewlines
  /\ Regular /\ scan.uses > 0 =>
       /\ AtRow
       /\ IF scan.reported THEN NewlinesBefore(scan.start) = Newlines
          ELSE \/ scan.at = scan.start
               \/ /\ scan.uses = 2 /\ scan.start > 0 /\ scan.at = scan.start - 1
                  /\ scan.text[scan.start] = "nul"

LEMMA SkipIs ==
  ASSUME NEW S, scan.text \in Seq(S), NEW p \in 0..Len(scan.text), NEW chars
  PROVE  /\ Skip(p, chars) \in p..Len(scan.text)
         /\ Skip(p, chars) = Len(scan.text) \/ scan.text[Skip(p, chars) + 1] \notin chars
         /\ \A m \in p..Skip(p, chars) - 1 : scan.text[m + 1] \in chars
<1>. DEFINE l == Len(scan.text)
            Ends == {n \in p..l : n = l \/ scan.text[n + 1] \notin chars}
            Fit(n) == /\ n = l \/ scan.text[n + 1] \notin chars
                      /\ \A m \in p..n-1 : scan.text[m + 1] \in chars
<1>1. l \in Nat
  OBVIOUS
<1>2. l \in Ends /\ Ends \subseteq Nat
  BY <1>1
<1>3. PICK x \in Ends : \A y \in Ends : x <= y
  <2>. HIDE DEF Ends
  <2>. QED  BY <1>2, LeastNumber
<1>4. x \in p..l /\ Fit(x)
  <2>1. ASSUME NEW m \in p..x-1, scan.text[m + 1] \notin chars  PROVE  FALSE
    <3>1. m \in p..l /\ m < x
      BY <1>1, <1>3
    <3>2. m \in Ends
      BY <2>1, <3>1
    <3>. HIDE DEF Ends
    <3>. QED  BY <1>2, <1>3, <3>1, <3>2
  <2>. QED  BY <1>3, <2>1
<1>5. Skip(p, chars) = CHOOSE n \in p..l : Fit(n)
  BY DEF Skip
<1>. HIDE DEF Fit
<1>6. Skip(p, chars) \in p..l /\ Fit(Skip(p, chars))
  BY <1>4, <1>5
<1>. QED  BY <1>6 DEF Fit

(* What strtok() finds.                                                     *)
LEMMA LineIs ==
  ASSUME ScanType
  PROVE  /\ LineStart \in scan.at..Len(scan.text) /\ LineEnd \in LineStart..Len(scan.text)
         /\ LineStart = Len(scan.text) \/ scan.text[LineStart + 1] # "newline"
         /\ \A m \in scan.at..LineStart - 1 : scan.text[m + 1] = "newline"
         /\ LineEnd = Len(scan.text) \/ scan.text[LineEnd + 1] \in {"newline", "nul"}
         /\ \A m \in LineStart..LineEnd - 1 : scan.text[m + 1] = "char"
<1>. DEFINE S == {"char", "newline", "nul"}
<1>1. scan.text \in Seq(S) /\ scan.at \in 0..Len(scan.text) /\ Len(scan.text) \in Nat
  BY DEF ScanType, ScanRecord
<1>2. /\ LineStart \in scan.at..Len(scan.text)
      /\ LineStart = Len(scan.text) \/ scan.text[LineStart + 1] \notin {"newline"}
      /\ \A m \in scan.at..LineStart - 1 : scan.text[m + 1] \in {"newline"}
  BY <1>1, SkipIs DEF LineStart
<1>3. LineStart \in 0..Len(scan.text)
  BY <1>1, <1>2
<1>4. /\ LineEnd \in LineStart..Len(scan.text)
      /\ LineEnd = Len(scan.text) \/ scan.text[LineEnd + 1] \notin {"char"}
      /\ \A m \in LineStart..LineEnd - 1 : scan.text[m + 1] \in {"char"}
  BY <1>1, <1>3, SkipIs DEF LineEnd
<1>5. LineEnd # Len(scan.text) => scan.text[LineEnd + 1] \in S
  <2>1. LineEnd # Len(scan.text) => LineEnd + 1 \in 1..Len(scan.text)
    BY <1>1, <1>3, <1>4
  <2>. QED  BY <1>1, <2>1
<1>. QED  BY <1>2, <1>4, <1>5

(* How it leaves the str.                                                   *)
LEMMA CutIs ==
  ASSUME ScanType, CutAtNewlines
  PROVE  /\ Cut \in [written : {scan.written}, text : Seq({"char", "newline", "nul"}),
                     uses : {scan.uses}, offset : {scan.offset}, at : 0..Len(scan.text),
                     start : {scan.start}, row : {scan.row}, reported : {scan.reported}]
         /\ Len(Cut.text) = Len(scan.text)
         /\ \A i \in 1..Len(scan.text) :
              Cut.text[i] = scan.text[i] \/ (i = LineEnd + 1 /\ Cut.text[i] = "nul" /\ scan.written[i] = "newline")
         /\ \/ Cut.at = LineEnd + 1
            \/ Cut.at = LineEnd /\ LineEnd = Len(scan.text)
            \/ Cut.at = LineEnd /\ Cut.text[LineEnd + 1] = "nul" /\ scan.text[LineEnd + 1] = "nul"
<1>. DEFINE l == Len(scan.text)
<1>1. /\ scan.text \in Seq({"char", "newline", "nul"}) /\ scan.at \in 0..l /\ l \in Nat
      /\ scan = [written |-> scan.written, text |-> scan.text, uses |-> scan.uses,
                 offset |-> scan.offset, at |-> scan.at, start |-> scan.start,
                 row |-> scan.row, reported |-> scan.reported]
  BY DEF ScanType, ScanRecord
<1>2. LineEnd \in 0..l /\ (LineEnd = l \/ scan.text[LineEnd + 1] \in {"newline", "nul"})
  <2>1. LineStart \in scan.at..l /\ LineEnd \in LineStart..l
    BY LineIs
  <2>. QED  BY <1>1, <2>1, LineIs
<1>3. CASE LineEnd = l \/ scan.text[LineEnd + 1] = "nul"
  <2>1. Cut = [scan EXCEPT !.at = LineEnd]
    BY <1>3 DEF Cut
  <2>2. /\ Cut.text = scan.text /\ Cut.at = LineEnd
        /\ Cut \in [written : {scan.written}, text : Seq({"char", "newline", "nul"}),
                     uses : {scan.uses}, offset : {scan.offset}, at : 0..Len(scan.text),
                     start : {scan.start}, row : {scan.row}, reported : {scan.reported}]
    BY <1>1, <1>2, <2>1
  <2>. QED  BY <1>3, <2>2
<1>4. CASE ~(LineEnd = l \/ scan.text[LineEnd + 1] = "nul")
  <2>. DEFINE e == LineEnd + 1
  <2>1. Cut = [scan EXCEPT !.at = e, !.text[e] = "nul"]
    BY <1>4 DEF Cut
  <2>2. e \in 1..l /\ scan.text[e] = "newline"
    BY <1>1, <1>2, <1>4
  <2>3. scan.written[e] = "newline"
    BY <2>2 DEF CutAtNewlines
  <2>. HIDE DEF e
  <2>4. /\ Cut.text = [scan.text EXCEPT ![e] = "nul"] /\ Cut.at = e
        /\ Cut.written = scan.written /\ Cut.uses = scan.uses /\ Cut.offset = scan.offset
        /\ Cut.start = scan.start /\ Cut.row = scan.row /\ Cut.reported = scan.reported
    BY <1>1, <2>1
  <2>5. /\ Cut.text \in Seq({"char", "newline", "nul"}) /\ Len(Cut.text) = l
        /\ Cut.text[e] = "nul" /\ \A i \in 1..l : i # e => Cut.text[i] = scan.text[i]
    BY <1>1, <2>2, <2>4
  <2>6. Cut = [written |-> Cut.written, text |-> Cut.text, uses |-> Cut.uses,
               offset |-> Cut.offset, at |-> Cut.at, start |-> Cut.start,
               row |-> Cut.row, reported |-> Cut.reported]
    <3>1. Cut = [scan EXCEPT !.at = e, !.text = [scan.text EXCEPT ![e] = "nul"]]
      BY <1>1, <2>1
    <3>. QED  BY <1>1, <3>1
  <2>. QED  BY <2>2, <2>3, <2>4, <2>5, <2>6 DEF e
<1>. QED  BY <1>3, <1>4

LEMMA CutKeeps ==
  ASSUME ScanType, CutAtNewlines
  PROVE  /\ Cut.at \in Nat /\ Cut.at <= Len(Cut.text)
         /\ \A i \in 1..Len(Cut.text) :
              /\ Cut.text[i] # Cut.written[i] => Cut.text[i] = "nul" /\ Cut.written[i] = "newline"
              /\ Cut.uses = 1 /\ i > Cut.at => Cut.text[i] = Cut.written[i]
<1>. DEFINE l == Len(scan.text)
<1>1. /\ scan.at \in Nat /\ l \in Nat /\ LineStart \in scan.at..l /\ LineEnd \in LineStart..l
  BY LineIs DEF ScanType, ScanRecord
<1>2. /\ Cut.at \in 0..l /\ Len(Cut.text) = l /\ Cut.written = scan.written /\ Cut.uses = scan.uses
      /\ \A i \in 1..l :
           Cut.text[i] = scan.text[i] \/ (i = LineEnd + 1 /\ Cut.text[i] = "nul" /\ scan.written[i] = "newline")
      /\ \/ Cut.at = LineEnd + 1
         \/ Cut.at = LineEnd /\ LineEnd = l
         \/ Cut.at = LineEnd /\ scan.text[LineEnd + 1] = "nul"
  BY CutIs
<1>3. ASSUME NEW i \in 1..l
      PROVE  Cut.text[i] # Cut.written[i] => Cut.text[i] = "nul" /\ Cut.written[i] = "newline"
  BY <1>2 DEF CutAtNewlines
<1>4. ASSUME NEW i \in 1..l, Cut.uses = 1, i > Cut.at  PROVE  Cut.text[i] = Cut.written[i]
  <2>1. scan.uses = 1
    BY <1>2, <1>4
  <2>2. i > scan.at /\ (i = LineEnd + 1 => Cut.at = LineEnd)
    BY <1>1, <1>2, <1>4
  <2>3. scan.text[i] = scan.written[i]
    BY <2>1, <2>2 DEF CutAtNewlines
  <2>4. scan.written[i] # "nul"
    BY DEF ScanType, ScanRecord
  <2>5. i = LineEnd + 1 => FALSE
    BY <1>1, <1>2, <1>4, <2>2, <2>3, <2>4
  <2>. QED  BY <1>2, <2>3, <2>5
<1>. QED  BY <1>1, <1>2, <1>3, <1>4

(* In a row of a regular source the line begins where strtok() is, unless   *)
(* the row is the one of the error.                                         *)
LEMMA RowLine ==
  ASSUME ScanType, CutAtNewlines, NoEmptyLine, AtRow, scan.at = scan.start, scan.at < scan.offset
  PROVE  LineStart = scan.at /\ LineStart < LineEnd
<1>. DEFINE l == Len(scan.text)
            a == scan.at
<1>1. /\ a \in Nat /\ l \in Nat /\ scan.offset \in Nat /\ scan.offset <= l /\ l = Len(scan.written)
      /\ LineStart \in a..l /\ LineEnd \in LineStart..l
  BY LineIs DEF ScanType, ScanRecord
<1>2. a + 1 \in 1..l /\ a \in 0..scan.offset - 1
  BY <1>1
<1>3. scan.written[a + 1] # "newline"
  <2>1. SUFFICES ASSUME a \in Newlines  PROVE  FALSE
    BY <1>2 DEF Newlines
  <2>2. a > 0 /\ a - 1 \notin Newlines
    BY <2>1 DEF NoEmptyLine
  <2>3. scan.written[(a - 1) + 1] = "newline"
    BY <1>1, <2>2 DEF AtRow
  <2>4. a - 1 \in 0..scan.offset - 1
    BY <1>1, <2>2
  <2>. QED  BY <2>2, <2>3, <2>4 DEF Newlines
<1>4. scan.text[a + 1] = "char"
  <2>1. scan.text[a + 1] = scan.written[a + 1]
    BY <1>2, <1>3 DEF CutAtNewlines
  <2>2. scan.written[a + 1] \in {"char", "newline"}
    BY <1>1, <1>2 DEF ScanType, ScanRecord
  <2>. QED  BY <1>3, <2>1, <2>2
<1>5. LineStart = a
  <2>1. LineStart > a => scan.text[a + 1] = "newline"
    BY <1>1, LineIs
  <2>. QED  BY <1>1, <1>4, <2>1
<1>6. LineEnd # a
  BY <1>1, <1>2, <1>4, LineIs
<1>. QED  BY <1>1, <1>5, <1>6

(* There are only characters from where strtok() is to the end of the line. *)
LEMMA LineHasNoNewline ==
  ASSUME ScanType, CutAtNewlines, NEW m \in LineStart..LineEnd - 1
  PROVE  scan.written[m + 1] # "newline"
<1>1. /\ LineStart \in scan.at..Len(scan.text) /\ LineEnd \in LineStart..Len(scan.text)
      /\ scan.at \in Nat /\ Len(scan.text) \in Nat /\ scan.text[m + 1] = "char"
  BY LineIs DEF ScanType, ScanRecord
<1>2. m + 1 \in 1..Len(scan.text)
  BY <1>1
<1>. QED  BY <1>1, <1>2 DEF CutAtNewlines

LEMMA PassLineStep ==
  ASSUME ScanInv, PassLine
  PROVE  ScanInv'
<1>. DEFINE l == Len(scan.text)
            a == scan.at
            e == LineEnd
<1>1. ScanType /\ CutAtNewlines /\ scan.uses > 0 /\ ~scan.reported /\ LineStart < e /\ End <= scan.offset
  BY DEF ScanInv, PassLine, Scan, HasLine
<1>2. /\ a \in Nat /\ l \in Nat /\ scan.offset \in Nat /\ scan.offset <= l /\ l = Len(scan.written)
      /\ scan.start \in Nat /\ scan.row \in Nat
      /\ LineStart \in a..l /\ e \in LineStart..l /\ e \in Nat
  <2>1. LineStart \in a..l /\ e \in LineStart..l
    BY <1>1, LineIs
  <2>2. /\ a \in Nat /\ l \in Nat /\ scan.offset \in Nat /\ scan.offset <= l /\ l = Len(scan.written)
        /\ scan.start \in Nat /\ scan.row \in Nat
    BY <1>1 DEF ScanType, ScanRecord
  <2>. QED  BY <2>1, <2>2
<1>3. /\ Cut \in [written : {scan.written}, text : Seq({"char", "newline", "nul"}),
                  uses : {scan.uses}, offset : {scan.offset}, at : 0..l,
                  start : {scan.start}, row : {scan.row}, reported : {scan.reported}]
      /\ Len(Cut.text) = l
      /\ \/ Cut.at = e + 1
         \/ Cut.at = e /\ e = l
         \/ Cut.at = e /\ Cut.text[e + 1] = "nul" /\ scan.text[e + 1] = "nul"
  BY <1>1, CutIs
<1>4. scan' = [Cut EXCEPT !.start = End, !.row = Cut.row + 1]
  BY DEF PassLine
<1>5. /\ scan'.written = scan.written /\ scan'.text = Cut.text /\ scan'.uses = scan.uses
      /\ scan'.offset = scan.offset /\ scan'.at = Cut.at /\ scan'.start = End
      /\ scan'.row = scan.row + 1 /\ scan'.reported = FALSE
  <2>1. scan.reported = FALSE
    <3>1. scan.reported \in BOOLEAN
      BY <1>1 DEF ScanType, ScanRecord
    <3>. QED  BY <1>1, <3>1
  <2>. HIDE DEF e, a, l
  <2>. QED  BY <1>3, <1>4, <2>1
<1>6. End \in Nat
  BY <1>1, <1>2 DEF End
<1>7. ScanType'
  <2>1. scan' \in ScanRecord
    <3>1. scan.written \in Seq({"char", "newline"}) /\ scan.uses \in {0, 1, 2} /\ scan.offset \in Nat
          /\ scan.reported \in BOOLEAN
      BY <1>1 DEF ScanType, ScanRecord
    <3>2. Cut \in ScanRecord
      BY <1>2, <1>3, <3>1 DEF ScanRecord
    <3>3. Cut.row + 1 \in Nat
      BY <1>2, <1>3
    <3>. HIDE DEF e, a, l
    <3>. QED  BY <1>4, <1>6, <3>2, <3>3 DEF ScanRecord
  <2>2. Cut.at <= l
    BY <1>2, <1>3
  <2>. QED  BY <1>2, <1>3, <1>5, <2>1, <2>2 DEF ScanType, ScanRecord
<1>8. CutAtNewlines'
  <2>1. \A i \in 1..Len(Cut.text) :
              /\ Cut.text[i] # Cut.written[i] => Cut.text[i] = "nul" /\ Cut.written[i] = "newline"
              /\ Cut.uses = 1 /\ i > Cut.at => Cut.text[i] = Cut.written[i]
    BY <1>1, CutKeeps
  <2>2. Cut.written = scan.written /\ Cut.uses = scan.uses
    BY <1>3
  <2>. QED  BY <1>5, <2>1, <2>2 DEF CutAtNewlines
<1>9. Newlines' = Newlines
  BY <1>5 DEF Newlines
<1>10. \A p : NewlinesBefore(p)' = NewlinesBefore(p)
  BY <1>5 DEF NewlinesBefore
<1>11. ASSUME Regular'
       PROVE  /\ AtRow'
              /\ \/ scan'.at = scan'.start
                 \/ /\ scan'.uses = 2 /\ scan'.start > 0 /\ scan'.at = scan'.start - 1
                    /\ scan'.text[scan'.start] = "nul"
  <2>1. Regular
    BY <1>5, <1>9, <1>11 DEF Regular, NoEmptyLine, TrueRow
  <2>2. AtRow /\ NoEmptyLine
    BY <1>1, <2>1 DEF ScanInv, Regular
  <2>3. a = scan.start
    <3>1. SUFFICES ASSUME scan.start > 0, a = scan.start - 1, scan.text[scan.start] = "nul"  PROVE  FALSE
      BY <1>1, <2>1 DEF ScanInv
    <3>2. scan.text[a + 1] = "nul" /\ a + 1 \in 1..l
      BY <1>2, <2>2, <3>1 DEF AtRow
    <3>3. LineStart = a
      BY <1>1, <1>2, <3>2, LineIs
    <3>. QED  BY <1>1, <1>2, <3>2, <3>3, LineIs
  <2>4. LineStart = a
    <3>1. a < scan.offset
      BY <1>1, <1>2, <2>3 DEF End
    <3>. QED  BY <1>1, <2>2, <2>3, <3>1, RowLine
  <2>5. End = e + 1 /\ e < l /\ e < scan.offset
    BY <1>1, <1>2, <2>3, <2>4 DEF End
  <2>6. scan.written[e + 1] = "newline"
    <3>1. scan.text[e + 1] \in {"newline", "nul"}
      BY <1>1, <1>2, <2>5, LineIs
    <3>2. e + 1 \in 1..l
      BY <1>2, <2>5
    <3>3. scan.written[e + 1] \in {"char", "newline"}
      BY <1>1, <1>2, <3>2 DEF ScanType, ScanRecord
    <3>. QED  BY <1>1, <3>1, <3>2, <3>3 DEF CutAtNewlines
  <2>7. NewlinesBefore(End) = NewlinesBefore(scan.start) \cup {e}
    <3>1. \A m \in a..e - 1 : scan.written[m + 1] # "newline"
      BY <1>1, <2>4, LineHasNoNewline
    <3>2. 0..e = (0..a - 1) \cup (a..e - 1) \cup {e}
      BY <1>1, <1>2, <2>4
    <3>3. End - 1 = e
      BY <1>2, <2>5
    <3>. HIDE DEF a, e
    <3>. QED  BY <2>3, <2>6, <3>1, <3>2, <3>3 DEF NewlinesBefore
  <2>8. e \notin NewlinesBefore(scan.start)
    BY <1>1, <1>2, <2>3, <2>4 DEF NewlinesBefore
  <2>9. IsFiniteSet(NewlinesBefore(End)) /\ scan.row + 1 = Cardinality(NewlinesBefore(End))
    BY <2>2, <2>7, <2>8, FS_AddElement DEF AtRow
  <2>10. AtRow'
    <3>1. /\ IsFiniteSet(NewlinesBefore(scan.start))'
          /\ scan'.row = Cardinality(NewlinesBefore(scan.start))'
      BY <1>5, <2>9 DEF NewlinesBefore
    <3>2. scan'.start <= scan'.offset /\ scan'.written[scan'.start] = "newline"
      BY <1>1, <1>5, <2>5, <2>6
    <3>. QED  BY <3>1, <3>2 DEF AtRow
  <2>11. CASE Cut.at = e + 1
    BY <1>5, <2>5, <2>10, <2>11
  <2>12. CASE Cut.at = e /\ Cut.text[e + 1] = "nul" /\ scan.text[e + 1] = "nul"
    <3>1. scan.uses # 1
      <4>1. e + 1 \in 1..l /\ e + 1 > a
        BY <1>2, <2>5
      <4>2. scan.uses = 1 => scan.text[e + 1] = scan.written[e + 1]
        BY <1>1, <4>1 DEF CutAtNewlines
      <4>. QED  BY <2>6, <2>12, <4>2
    <3>2. scan.uses = 2
      BY <1>1, <3>1 DEF ScanType, ScanRecord
    <3>3. End > 0 /\ e = End - 1
      BY <1>2, <2>5
    <3>. QED  BY <1>5, <2>5, <2>10, <2>12, <3>2, <3>3
  <2>. QED  BY <1>2, <1>3, <2>5, <2>11, <2>12
<1>. QED  BY <1>5, <1>7, <1>8, <1>11 DEF ScanInv

LEMMA NewlinesFinite ==
  ASSUME ScanType
  PROVE  Newlines = NewlinesBefore(scan.offset) /\ IsFiniteSet(Newlines)
<1>1. Newlines = NewlinesBefore(scan.offset)
  BY DEF Newlines, NewlinesBefore
<1>2. Newlines \subseteq 0..scan.offset - 1
  BY DEF Newlines
<1>3. IsFiniteSet(0..scan.offset - 1)
  <2>1. 0 \in Int /\ scan.offset - 1 \in Int
    BY DEF ScanType, ScanRecord
  <2>. QED  BY <2>1, FS_Interval
<1>. QED  BY <1>1, <1>2, <1>3, FS_Subset

(* When the loop stops it is in the row of the error.                       *)
LEMMA RowFound ==
  ASSUME ScanInv, Scan, Regular, IF HasLine THEN End > scan.offset ELSE TRUE
  PROVE  NewlinesBefore(scan.start) = Newlines
<1>. DEFINE l == Len(scan.text)
            a == scan.at
            e == LineEnd
<1>1. ScanType /\ CutAtNewlines /\ ~scan.reported /\ AtRow /\ NoEmptyLine
  BY DEF ScanInv, Scan, Regular
<1>2. /\ a \in Nat /\ l \in Nat /\ scan.offset \in Nat /\ scan.offset <= l /\ l = Len(scan.written)
      /\ scan.start \in Nat /\ scan.row \in Nat
      /\ LineStart \in a..l /\ e \in LineStart..l /\ scan.start <= scan.offset
  <2>1. LineStart \in a..l /\ e \in LineStart..l
    BY <1>1, LineIs
  <2>2. /\ a \in Nat /\ l \in Nat /\ scan.offset \in Nat /\ scan.offset <= l /\ l = Len(scan.written)
        /\ scan.start \in Nat /\ scan.row \in Nat
    BY <1>1 DEF ScanType, ScanRecord
  <2>. QED  BY <1>1, <2>1, <2>2 DEF AtRow
<1>3. Newlines = NewlinesBefore(scan.offset) /\ IsFiniteSet(Newlines)
  BY <1>1, NewlinesFinite
<1>4. \/ a = scan.start
      \/ scan.uses = 2 /\ scan.start > 0
  BY <1>1 DEF ScanInv, Scan
<1>5. CASE a = scan.start /\ a = scan.offset
  BY <1>3, <1>5
<1>6. CASE a = scan.start /\ a < scan.offset
  <2>1. LineStart = a /\ LineStart < e
    BY <1>1, <1>6, RowLine
  <2>2. e >= scan.offset
    BY <1>2, <1>6, <2>1 DEF HasLine, End
  <2>3. \A m \in a..e - 1 : scan.written[m + 1] # "newline"
    BY <1>1, <2>1, LineHasNoNewline
  <2>4. \A m \in 0..scan.offset - 1 : m \in 0..a - 1 \/ m \in a..e - 1
    BY <1>2, <2>2
  <2>5. \A m \in 0..a - 1 : m \in 0..scan.offset - 1
    BY <1>2, <1>6
  <2>. HIDE DEF a, e
  <2>. QED  BY <1>6, <2>3, <2>4, <2>5 DEF NewlinesBefore, Newlines
<1>7. CASE scan.uses = 2 /\ scan.start > 0
  <2>1. scan.start - 1 \in NewlinesBefore(scan.start)
    <3>1. scan.written[(scan.start - 1) + 1] = "newline" /\ scan.start - 1 \in 0..scan.start - 1
      BY <1>1, <1>2, <1>7 DEF AtRow
    <3>. QED  BY <3>1 DEF NewlinesBefore
  <2>2. NewlinesBefore(scan.start) \subseteq Newlines
    <3>1. \A m \in 0..scan.start - 1 : m \in 0..scan.offset - 1
      BY <1>2
    <3>. QED  BY <3>1 DEF NewlinesBefore, Newlines
  <2>3. Cardinality(Newlines) <= 1
    BY <1>7 DEF Regular, TrueRow
  <2>4. /\ Cardinality(NewlinesBefore(scan.start)) <= Cardinality(Newlines)
        /\ Cardinality(NewlinesBefore(scan.start)) = Cardinality(Newlines)
             => NewlinesBefore(scan.start) = Newlines
    BY <1>3, <2>2, FS_Subset
  <2>5. Cardinality(NewlinesBefore(scan.start)) \in Nat /\ Cardinality(Newlines) \in Nat
    BY <1>1, <1>3, FS_CardinalityType DEF AtRow
  <2>6. Cardinality(NewlinesBefore(scan.start)) # 0
    BY <1>1, <2>1, FS_EmptySet DEF AtRow
  <2>. QED  BY <2>3, <2>4, <2>5, <2>6
<1>. QED  BY <1>2, <1>4, <1>5, <1>6, <1>7

LEMMA FindLineStep ==
  ASSUME ScanInv, FindLine \/ NoMoreLines
  PROVE  ScanInv'
<1>1. ScanType /\ CutAtNewlines /\ Scan /\ (IF HasLine THEN End > scan.offset ELSE TRUE)
  BY DEF ScanInv, FindLine, NoMoreLines
<1>2. /\ Cut \in [written : {scan.written}, text : Seq({"char", "newline", "nul"}),
                  uses : {scan.uses}, offset : {scan.offset}, at : 0..Len(scan.text),
                  start : {scan.start}, row : {scan.row}, reported : {scan.reported}]
      /\ Len(Cut.text) = Len(scan.text)
  BY <1>1, CutIs
<1>3. scan \in ScanRecord /\ Len(scan.text) = Len(scan.written) /\ scan.offset <= Len(scan.text)
  BY <1>1 DEF ScanType
<1>4. /\ Cut \in ScanRecord /\ Cut.at <= Len(Cut.text)
      /\ \A i \in 1..Len(Cut.text) :
           /\ Cut.text[i] # Cut.written[i] => Cut.text[i] = "nul" /\ Cut.written[i] = "newline"
           /\ Cut.uses = 1 /\ i > Cut.at => Cut.text[i] = Cut.written[i]
  <2>1. Cut.at \in Nat
    BY <1>1, CutKeeps
  <2>2. Cut \in ScanRecord
    BY <1>2, <1>3, <2>1 DEF ScanRecord
  <2>. QED  BY <1>1, <2>2, CutKeeps
<1>5. PICK s : /\ s \in {scan, Cut} /\ scan' = [s EXCEPT !.reported = TRUE]
               /\ s \in ScanRecord
               /\ s.written = scan.written /\ s.uses = scan.uses /\ s.offset = scan.offset
               /\ s.start = scan.start /\ s.row = scan.row
               /\ Len(s.text) = Len(scan.text) /\ s.at <= Len(s.text)
               /\ \A i \in 1..Len(s.text) :
                    /\ s.text[i] # s.written[i] => s.text[i] = "nul" /\ s.written[i] = "newline"
                    /\ s.uses = 1 /\ i > s.at => s.text[i] = s.written[i]
  <2>1. CASE FindLine
    BY <1>2, <1>4, <2>1 DEF FindLine
  <2>2. CASE NoMoreLines
    <3>1. scan' = [scan EXCEPT !.reported = TRUE]
      BY <2>2 DEF NoMoreLines
    <3>. QED  BY <1>1, <1>3, <3>1 DEF ScanType, CutAtNewlines
  <2>. QED  BY <2>1, <2>2
<1>6. /\ scan'.written = scan.written /\ scan'.text = s.text /\ scan'.uses = scan.uses
      /\ scan'.offset = scan.offset /\ scan'.at = s.at /\ scan'.start = scan.start
      /\ scan'.row = scan.row /\ scan'.reported = TRUE /\ scan' \in ScanRecord
  BY <1>5 DEF ScanRecord
<1>7. ScanType' /\ CutAtNewlines'
  BY <1>1, <1>3, <1>5, <1>6 DEF Scan, ScanType, CutAtNewlines
<1>8. Newlines' = Newlines /\ NewlinesBefore(scan.start)' = NewlinesBefore(scan.start)
  BY <1>6 DEF Newlines, NewlinesBefore
<1>9. Regular' => AtRow' /\ (NewlinesBefore(scan.start) = Newlines)'
  <2>1. SUFFICES ASSUME Regular'  PROVE  AtRow' /\ (NewlinesBefore(scan.start) = Newlines)'
    OBVIOUS
  <2>2. Regular
    BY <1>6, <1>8, <2>1 DEF Regular, NoEmptyLine, TrueRow
  <2>3. NewlinesBefore(scan.start) = Newlines
    BY <1>1, <2>2, RowFound
  <2>4. AtRow
    BY <1>1, <2>2 DEF ScanInv, Scan
  <2>5. /\ scan'.start <= scan'.offset
        /\ scan'.start > 0 => scan'.written[scan'.start] = "newline"
    BY <1>6, <2>4 DEF AtRow
  <2>6. /\ IsFiniteSet(NewlinesBefore(scan.start))'
        /\ scan'.row = Cardinality(NewlinesBefore(scan.start))'
    BY <1>6, <1>8, <2>4 DEF AtRow
  <2>. QED  BY <1>8, <2>3, <2>5, <2>6 DEF AtRow
<1>. QED  BY <1>6, <1>7, <1>9 DEF ScanInv

LEMMA StartOfScan ==
  ASSUME ScanType, scan.at = 0, scan.start = 0, scan.row = 0, CutAtNewlines, scan.reported = FALSE
  PROVE  ScanInv
<1>1. NewlinesBefore(0) = {}
  BY DEF NewlinesBefore
<1>2. AtRow
  <2>1. IsFiniteSet(NewlinesBefore(scan.start)) /\ scan.row = Cardinality(NewlinesBefore(scan.start))
    BY <1>1, FS_EmptySet
  <2>2. scan.start <= scan.offset /\ ~(scan.start > 0)
    BY DEF ScanType, ScanRecord
  <2>. QED  BY <2>1, <2>2 DEF AtRow
<1>. QED  BY <1>2 DEF ScanInv

LEMMA UseAgainStep ==
  ASSUME ScanInv, UseAgain
  PROVE  ScanInv'
<1>1. ScanType /\ CutAtNewlines
  BY DEF ScanInv
<1>2. PICK offset \in 0..Len(scan.text) : scan' = Scanning(scan.written, scan.text, 2, offset)
  BY DEF UseAgain
<1>3. /\ scan'.written = scan.written /\ scan'.text = scan.text /\ scan'.uses = 2
      /\ scan'.offset = offset /\ scan'.at = 0 /\ scan'.start = 0 /\ scan'.row = 0
      /\ scan'.reported = FALSE
  BY <1>2 DEF Scanning
<1>4. Len(scan.text) \in Nat /\ Len(scan.text) = Len(scan.written)
  BY <1>1 DEF ScanType, ScanRecord
<1>5. scan' \in ScanRecord
  <2>1. scan.written \in Seq({"char", "newline"}) /\ scan.text \in Seq({"char", "newline", "nul"})
    BY <1>1 DEF ScanType, ScanRecord
  <2>. QED  BY <1>2, <1>4, <2>1 DEF Scanning, ScanRecord
<1>6. ScanType' /\ CutAtNewlines'
  BY <1>1, <1>3, <1>4, <1>5 DEF ScanType, CutAtNewlines
<1>7. (scan.at = 0 /\ scan.start = 0 /\ scan.row = 0 /\ scan.reported = FALSE)'
  BY <1>3
<1>8. (ScanType /\ CutAtNewlines /\ scan.at = 0 /\ scan.start = 0 /\ scan.row = 0
        /\ scan.reported = FALSE => ScanInv)'
  BY StartOfScan, PTL
<1>. QED  BY <1>6, <1>7, <1>8

LEMMA ScanBegins == Init => ScanInv
<1>1. SUFFICES ASSUME Init  PROVE  ScanInv
  OBVIOUS
<1>2. CASE scan = NoScan
  <2>1. /\ scan.written = <<>> /\ scan.text = <<>> /\ scan.uses = 0 /\ scan.offset = 0
        /\ scan.at = 0 /\ scan.start = 0 /\ scan.row = 0 /\ scan.reported = FALSE
    BY <1>2 DEF NoScan, Scanning
  <2>2. scan \in ScanRecord
    BY <1>2 DEF NoScan, Scanning, ScanRecord
  <2>3. ScanType /\ CutAtNewlines
    BY <2>1, <2>2 DEF ScanType, CutAtNewlines
  <2>. QED  BY <2>1, <2>3, StartOfScan
<1>3. CASE ScanInit
  <2>1. PICK text \in SourceTexts, offset \in 0..MaxText :
          offset <= Len(text) /\ scan = Scanning(text, text, 1, offset)
    BY <1>3 DEF ScanInit
  <2>2. text \in Seq({"char", "newline"})
    <3>1. PICK n \in 0..MaxText : text \in [1..n -> {"char", "newline"}]
      BY <2>1 DEF SourceTexts
    <3>2. n \in Nat
      BY TextAssumption
    <3>. QED  BY <3>1, <3>2
  <2>3. text \in Seq({"char", "newline", "nul"}) /\ offset \in Nat /\ Len(text) \in Nat
    BY <2>2, TextAssumption
  <2>4. /\ scan.written = text /\ scan.text = text /\ scan.uses = 1 /\ scan.offset = offset
        /\ scan.at = 0 /\ scan.start = 0 /\ scan.row = 0 /\ scan.reported = FALSE
    BY <2>1 DEF Scanning
  <2>5. scan \in ScanRecord
    BY <2>1, <2>2, <2>3 DEF Scanning, ScanRecord
  <2>6. ScanType /\ CutAtNewlines
    BY <2>1, <2>3, <2>4, <2>5 DEF ScanType, CutAtNewlines
  <2>. QED  BY <2>4, <2>6, StartOfScan
<1>. QED  BY <1>1, <1>2, <1>3 DEF Init, BuildInit

LEMMA ScanRests == ASSUME ScanInv, scan' = scan  PROVE  ScanInv'
<1>1. ScanType' /\ CutAtNewlines'
  BY DEF ScanInv, ScanType, CutAtNewlines
<1>2. Newlines' = Newlines /\ NewlinesBefore(scan.start)' = NewlinesBefore(scan.start)
  BY DEF Newlines, NewlinesBefore
<1>3. (Regular' <=> Regular) /\ (AtRow' <=> AtRow)
  BY <1>2 DEF Regular, NoEmptyLine, TrueRow, AtRow
<1>. QED  BY <1>1, <1>2, <1>3 DEF ScanInv

LEMMA ScanStep == ScanInv /\ [Next]_vars => ScanInv'
<1>1. SUFFICES ASSUME ScanInv, [Next]_vars  PROVE  ScanInv'
  OBVIOUS
<1>2. CASE Report
  BY <1>1, <1>2, PassLineStep, FindLineStep, UseAgainStep DEF Report, ScanNext
<1>3. CASE scan' = scan
  BY <1>1, <1>3, ScanRests
<1>4. Build => Report \/ scan' = scan
  BY DEF Build, BuildNext, RejectEq, AddEqCapture, AddEqString, RejectMatch, AddMatch, RejectAnyOf,
         AddAnyOf, RejectAssertion, AddAssertion, RejectSetting, AddSetting, AddGeneric,
         StorePattern, ReturnQuery, Reject, Keep, KeepPredicate
<1>5. RejectArguments \/ Execute \/ DropResult \/ Run \/ UNCHANGED vars => scan' = scan
  BY UnbuiltSteps DEF buildVars
<1>. QED  BY <1>1, <1>2, <1>3, <1>4, <1>5 DEF Next

(* query_new() reports the true row and column of an error, for sources of  *)
(* any length, if no line before the error is empty, and when the same str  *)
(* is used again, in its first two rows.                                    *)
THEOREM PositionIsTrue == Spec => []PositionReported
<1>1. ScanInv => PositionReported
  <2>1. SUFFICES ASSUME ScanInv, scan.reported, NoEmptyLine, scan.uses = 1 \/ TrueRow <= 1
                 PROVE  Row = TrueRow /\ Column = scan.offset - TrueStart
    BY DEF PositionReported
  <2>6. scan.uses > 0 /\ scan.start \in Nat
    BY <2>1 DEF ScanInv, ScanType, ScanRecord
  <2>2. AtRow /\ NewlinesBefore(scan.start) = Newlines
    BY <2>1, <2>6 DEF ScanInv, Regular
  <2>3. Row = TrueRow
    BY <2>2 DEF AtRow, Row, TrueRow
  <2>4. CASE scan.start = 0
    <3>1. NewlinesBefore(0) = {}
      BY DEF NewlinesBefore
    <3>. QED  BY <2>2, <2>3, <2>4, <3>1 DEF TrueStart, Column
  <2>5. CASE scan.start > 0
    <3>. DEFINE b == scan.start - 1
    <3>1. b \in Newlines /\ \A m \in Newlines : m \in Nat /\ m <= b
      <4>1. b \in 0..scan.start - 1 /\ b + 1 = scan.start
        BY <2>6, <2>5
      <4>2. scan.written[b + 1] = "newline"
        BY <2>2, <2>5, <4>1 DEF AtRow
      <4>3. b \in NewlinesBefore(scan.start)
        BY <4>1, <4>2 DEF NewlinesBefore
      <4>4. \A m \in NewlinesBefore(scan.start) : m \in Nat /\ m <= b
        BY <2>6 DEF NewlinesBefore
      <4>. QED  BY <2>2, <4>3, <4>4
    <3>. HIDE DEF b
    <3>2. \A p \in Newlines : (\A m \in Newlines : m <= p) => p = b
      BY <3>1
    <3>3. (CHOOSE p \in Newlines : \A m \in Newlines : m <= p) = b
      BY <3>1, <3>2
    <3>4. TrueStart = 1 + b
      BY <3>1, <3>3 DEF TrueStart
    <3>5. 1 + b = scan.start
      BY <2>6, <2>5 DEF b
    <3>. QED  BY <2>3, <3>4, <3>5 DEF Column
  <2>. QED  BY <2>6, <2>4, <2>5
<1>2. Init => ScanInv
  BY ScanBegins
<1>3. ScanInv /\ [Next]_vars => ScanInv'
  BY ScanStep
<1>. QED  BY <1>1, <1>2, <1>3, PTL DEF Spec
=============================================================================
