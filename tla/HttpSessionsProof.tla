------------------------- MODULE HttpSessionsProof --------------------------
(***************************************************************************)
(* Theorems about HttpSessions: each exchange handed on is a request with  *)
(* its own response, holds their bytes, is filed under their offsets, and  *)
(* none is missing.                                                        *)
(***************************************************************************)
EXTENDS HttpSessions, DataLemmas, FunctionTheorems

-----------------------------------------------------------------------------
(* The partial concatenations of a sequence of sequences. *)

Partial(q, n, f) == f = [k \in 0..n |-> IF k = 0 THEN <<>> ELSE f[k - 1] \o q[k]]

LEMMA PartialExists ==
  ASSUME NEW q, NEW n \in Nat
  PROVE  \E f : Partial(q, n, f)
<1> DEFINE S == {k \in 0..n : \E f : Partial(q, k, f)}
<1>1. 0 \in S
  <2>1. Partial(q, 0, [k \in 0..0 |-> <<>>])
    BY DEF Partial
  <2> QED
    BY <2>1
<1>2. ASSUME NEW k \in 0..(n - 1), k \in S
      PROVE  k + 1 \in S
  <2>1. PICK f : Partial(q, k, f)
    BY <1>2
  <2>2. k \in Nat /\ k + 1 \in 0..n
    OBVIOUS
  <2> DEFINE g == [j \in 0..(k + 1) |-> IF j = 0 THEN <<>> ELSE f[j - 1] \o q[j]]
  <2>3. \A j \in 0..k : g[j] = f[j]
    <3> SUFFICES ASSUME NEW j \in 0..k
                 PROVE  g[j] = f[j]
      OBVIOUS
    <3>1. g[j] = IF j = 0 THEN <<>> ELSE f[j - 1] \o q[j]
      BY <2>2
    <3>2. f[j] = IF j = 0 THEN <<>> ELSE f[j - 1] \o q[j]
      BY <2>1 DEF Partial
    <3> QED
      BY <3>1, <3>2
  <2>4. \A j \in 0..(k + 1) : g[j] = IF j = 0 THEN <<>> ELSE g[j - 1] \o q[j]
    <3> SUFFICES ASSUME NEW j \in 0..(k + 1)
                 PROVE  g[j] = IF j = 0 THEN <<>> ELSE g[j - 1] \o q[j]
      OBVIOUS
    <3>1. g[j] = IF j = 0 THEN <<>> ELSE f[j - 1] \o q[j]
      OBVIOUS
    <3>2. CASE j = 0
      BY <3>1, <3>2
    <3>3. CASE j # 0
      <4>1. j - 1 \in 0..k
        BY <2>2, <3>3
      <4>2. g[j - 1] = f[j - 1]
        BY <2>3, <4>1
      <4> HIDE DEF g
      <4> QED
        BY <3>1, <3>3, <4>2
    <3> QED
      BY <3>2, <3>3
  <2>5. Partial(q, k + 1, g)
    <3>1. g = [j \in 0..(k + 1) |-> g[j]]
      OBVIOUS
    <3> HIDE DEF g
    <3>2. [j \in 0..(k + 1) |-> g[j]]
            = [j \in 0..(k + 1) |-> IF j = 0 THEN <<>> ELSE g[j - 1] \o q[j]]
      BY <2>4
    <3> QED
      BY <3>1, <3>2 DEF Partial
  <2> QED
    BY <2>2, <2>5
<1>3. \A k \in 0..n : k \in S
  <2> HIDE DEF S
  <2> QED
    BY <1>1, <1>2, Inductive
<1> QED
  BY <1>3

LEMMA UpToIs ==
  ASSUME NEW T, NEW q \in Seq(Seq(T))
  PROVE  /\ UpTo(q)[0] = <<>>
         /\ \A k \in 1..Len(q) : UpTo(q)[k] = UpTo(q)[k - 1] \o q[k]
         /\ \A k \in 0..Len(q) : UpTo(q)[k] \in Seq(T)
<1> DEFINE n == Len(q)
           f == UpTo(q)
<1>1. n \in Nat /\ \A k \in 1..n : q[k] \in Seq(T)
  OBVIOUS
<1>2. f = CHOOSE g : g = [k \in 0..n |-> IF k = 0 THEN <<>> ELSE g[k - 1] \o q[k]]
  BY DEF UpTo
<1>3. Partial(q, n, f)
  <2>1. \E g : Partial(q, n, g)
    BY <1>1, PartialExists
  <2> QED
    BY <1>2, <2>1 DEF Partial
<1>4. \A k \in 0..n : f[k] = IF k = 0 THEN <<>> ELSE f[k - 1] \o q[k]
  <2> HIDE DEF n, f
  <2> QED
    BY <1>3 DEF Partial
<1> DEFINE S == {k \in 0..n : f[k] \in Seq(T)}
<1>5. \A k \in 0..n : k \in S
  <2>1. 0 \in S
    <3>1. f[0] = <<>> /\ <<>> \in Seq(T) /\ 0 \in 0..n
      BY <1>1, <1>4
    <3> HIDE DEF f, n
    <3> QED
      BY <3>1
  <2>2. ASSUME NEW k \in 0..(n - 1), k \in S
        PROVE  k + 1 \in S
    <3>1. k + 1 \in 1..n /\ k + 1 \in 0..n /\ k + 1 # 0 /\ (k + 1) - 1 = k
      BY <1>1
    <3>2. f[k + 1] = f[k] \o q[k + 1]
      <4> HIDE DEF f, n
      <4> QED
        BY <1>4, <3>1
    <3>3. f[k] \in Seq(T) /\ q[k + 1] \in Seq(T)
      BY <1>1, <2>2, <3>1
    <3>4. f[k + 1] \in Seq(T)
      <4> HIDE DEF f, n
      <4> QED
        BY <3>2, <3>3, ConcatProperties
    <3> HIDE DEF f, n
    <3> QED
      BY <3>1, <3>4
  <2> HIDE DEF S, n, f
  <2> QED
    BY <1>1, <2>1, <2>2, Inductive
<1> HIDE DEF f, n
<1>6. f[0] = <<>>
  <2>1. 0 \in 0..n
    BY <1>1
  <2> QED
    BY <1>4, <2>1
<1>7. ASSUME NEW k \in 1..n
      PROVE  f[k] = f[k - 1] \o q[k]
  <2>1. k \in 0..n /\ k # 0
    BY <1>1
  <2> QED
    BY <1>4, <2>1
<1> QED
  BY <1>5, <1>6, <1>7 DEF f, n

\* Where the i-th sequence begins in the concatenation.
Begin(q, i) == Len(UpTo(q)[i - 1])

LEMMA UpToExtends ==
  ASSUME NEW T, NEW q \in Seq(Seq(T)), NEW i \in 0..Len(q)
  PROVE  /\ Len(UpTo(q)[i]) <= Len(Concat(q))
         /\ \A j \in 1..Len(UpTo(q)[i]) : Concat(q)[j] = UpTo(q)[i][j]
<1> DEFINE f == UpTo(q)
           n == Len(q) - i
           Extends(m) == /\ Len(f[i]) <= Len(f[i + m])
                         /\ \A j \in 1..Len(f[i]) : f[i + m][j] = f[i][j]
           S == {m \in 0..n : Extends(m)}
<1>1. Len(q) \in Nat /\ n \in Nat /\ i \in Nat /\ i + n = Len(q)
  OBVIOUS
<1>2. /\ \A k \in 0..Len(q) : f[k] \in Seq(T)
      /\ \A k \in 1..Len(q) : f[k] = f[k - 1] \o q[k]
      /\ \A k \in 1..Len(q) : q[k] \in Seq(T)
  <2>1. \A k \in 1..Len(q) : q[k] \in Seq(T)
    OBVIOUS
  <2>2. f = UpTo(q)
    OBVIOUS
  <2> HIDE DEF f
  <2> QED
    BY <2>1, <2>2, UpToIs
<1> HIDE DEF f
<1>3. 0 \in S
  <2>1. i + 0 = i /\ 0 \in 0..n /\ Len(f[i]) \in Nat
    BY <1>1, <1>2
  <2>2. Extends(0)
    BY <2>1
  <2> QED
    BY <2>1, <2>2
<1>4. ASSUME NEW m \in 0..(n - 1), m \in S
      PROVE  m + 1 \in S
  <2>1. /\ m + 1 \in 0..n /\ i + m \in 0..Len(q) /\ i + (m + 1) \in 1..Len(q)
        /\ (i + (m + 1)) - 1 = i + m
    BY <1>1
  <2>2. f[i + (m + 1)] = f[i + m] \o q[i + (m + 1)]
    BY <1>2, <2>1
  <2>3. f[i + m] \in Seq(T) /\ q[i + (m + 1)] \in Seq(T) /\ f[i] \in Seq(T)
    BY <1>2, <2>1
  <2>4. PICK u, v, w \in Seq(T) : u = f[i] /\ v = f[i + m] /\ w = q[i + (m + 1)]
    BY <2>3
  <2>5. /\ Len(v \o w) = Len(v) + Len(w)
        /\ \A j \in 1..(Len(v) + Len(w)) :
              (v \o w)[j] = IF j <= Len(v) THEN v[j] ELSE w[j - Len(v)]
    BY ConcatProperties
  <2>6. Len(u) \in Nat /\ Len(v) \in Nat /\ Len(w) \in Nat
    OBVIOUS
  <2>7. Len(u) <= Len(v) /\ \A j \in 1..Len(u) : v[j] = u[j]
    BY <1>4, <2>4
  <2>8. Len(u) <= Len(v \o w)
    BY <2>5, <2>6, <2>7
  <2>9. ASSUME NEW j \in 1..Len(u)
        PROVE  (v \o w)[j] = u[j]
    <3>1. j \in 1..(Len(v) + Len(w)) /\ j <= Len(v)
      BY <2>6, <2>7
    <3> QED
      BY <2>5, <2>7, <3>1
  <2>10. Extends(m + 1)
    BY <2>2, <2>4, <2>8, <2>9
  <2> QED
    BY <2>1, <2>10
<1>5. n \in S
  <2> HIDE DEF S, n
  <2>1. \A k \in 0..n : k \in S
    BY <1>1, <1>3, <1>4, Inductive
  <2> QED
    BY <1>1, <2>1
<1>6. Extends(n)
  <2> HIDE DEF Extends, n
  <2> QED
    BY <1>5
<1>7. f[i + n] = Concat(q)
  BY <1>1 DEF Concat, f
<1> HIDE DEF n
<1> QED
  BY <1>6, <1>7 DEF f

LEMMA ConcatIs ==
  ASSUME NEW T, NEW q \in Seq(Seq(T))
  PROVE  /\ Concat(q) \in Seq(T)
         /\ Begin(q, 1) = 0 /\ Begin(q, Len(q) + 1) = Len(Concat(q))
         /\ \A i \in 1..(Len(q) + 1) : Begin(q, i) \in 0..Len(Concat(q))
         /\ \A i \in 1..Len(q) :
               /\ Begin(q, i + 1) = Begin(q, i) + Len(q[i])
               /\ \A k \in 1..Len(q[i]) : Concat(q)[Begin(q, i) + k] = q[i][k]
<1> DEFINE f == UpTo(q)
<1>1. /\ f[0] = <<>>
      /\ \A k \in 0..Len(q) : f[k] \in Seq(T)
      /\ \A k \in 1..Len(q) : f[k] = f[k - 1] \o q[k]
      /\ \A k \in 1..Len(q) : q[k] \in Seq(T)
  <2>1. \A k \in 1..Len(q) : q[k] \in Seq(T)
    OBVIOUS
  <2>2. f = UpTo(q)
    OBVIOUS
  <2> HIDE DEF f
  <2> QED
    BY <2>1, <2>2, UpToIs
<1>2. Len(q) \in Nat /\ Concat(q) = f[Len(q)] /\ \A i : Begin(q, i) = Len(f[i - 1])
  BY DEF Concat, Begin
<1>3. Concat(q) \in Seq(T)
  BY <1>1, <1>2
<1>4. \A i \in 0..Len(q) : /\ Len(f[i]) <= Len(Concat(q))
                           /\ \A j \in 1..Len(f[i]) : Concat(q)[j] = f[i][j]
  BY UpToExtends
<1> HIDE DEF f
<1>5. Begin(q, 1) = 0
  <2>1. Begin(q, 1) = Len(f[1 - 1]) /\ 1 - 1 = 0
    BY <1>2
  <2> QED
    BY <1>1, <2>1
<1>6. Begin(q, Len(q) + 1) = Len(Concat(q))
  <2>1. (Len(q) + 1) - 1 = Len(q)
    BY <1>2
  <2> QED
    BY <1>2, <2>1
<1>7. ASSUME NEW i \in 1..(Len(q) + 1)
      PROVE  Begin(q, i) \in 0..Len(Concat(q))
  <2>1. i - 1 \in 0..Len(q)
    BY <1>2
  <2>2. Begin(q, i) = Len(f[i - 1]) /\ Len(f[i - 1]) \in Nat
    BY <1>1, <1>2, <2>1
  <2>3. Len(f[i - 1]) <= Len(Concat(q)) /\ Len(Concat(q)) \in Nat
    BY <1>3, <1>4, <2>1
  <2> QED
    BY <2>2, <2>3
<1>8. ASSUME NEW i \in 1..Len(q)
      PROVE  /\ Begin(q, i + 1) = Begin(q, i) + Len(q[i])
             /\ \A k \in 1..Len(q[i]) : Concat(q)[Begin(q, i) + k] = q[i][k]
  <2>1. i - 1 \in 0..Len(q) /\ i \in 0..Len(q) /\ (i + 1) - 1 = i
    BY <1>2
  <2>2. f[i] = f[i - 1] \o q[i] /\ f[i - 1] \in Seq(T) /\ q[i] \in Seq(T)
    BY <1>1, <2>1
  <2>3. PICK u, v \in Seq(T) : u = f[i - 1] /\ v = q[i]
    BY <2>2
  <2>30. PICK b, c \in Nat : b = Len(u) /\ c = Len(v)
    OBVIOUS
  <2>4. /\ Len(u \o v) = b + c
        /\ \A j \in 1..(b + c) : (u \o v)[j] = IF j <= b THEN u[j] ELSE v[j - b]
    BY <2>30, ConcatProperties
  <2>5. Begin(q, i) = b /\ Begin(q, i + 1) = b + c
    <3>1. Begin(q, i) = Len(f[i - 1]) /\ Begin(q, i + 1) = Len(f[(i + 1) - 1])
      BY <1>2
    <3>2. Begin(q, i + 1) = Len(f[i])
      BY <2>1, <3>1
    <3>3. f[i - 1] = u /\ f[i] = u \o v
      BY <2>2, <2>3
    <3> HIDE DEF Begin
    <3>4. Begin(q, i) = Len(u) /\ Begin(q, i + 1) = Len(u \o v)
      BY <3>1, <3>2, <3>3
    <3> QED
      BY <2>30, <2>4, <3>4
  <2>6. ASSUME NEW k \in 1..c
        PROVE  Concat(q)[b + k] = q[i][k]
    <3>1. b + k \in 1..(b + c) /\ ~(b + k <= b) /\ (b + k) - b = k
      OBVIOUS
    <3>2. f[i][b + k] = q[i][k]
      BY <2>2, <2>3, <2>4, <3>1
    <3>3. b + k \in 1..Len(f[i])
      BY <2>2, <2>3, <2>4, <3>1
    <3> QED
      BY <1>4, <2>1, <3>2, <3>3
  <2> QED
    BY <2>3, <2>30, <2>5, <2>6
<1> QED
  BY <1>3, <1>5, <1>6, <1>7, <1>8

-----------------------------------------------------------------------------
(* The bytes of a conversation, and where each message begins.             *)

Kinds == {"head", "bad", "body", "interim", "raw"}
Tokens == [kind : Kinds, of : Nat]

Body(e) == IF e.method = "HEAD" \/ Tunnels(e) THEN 0
           ELSE IF e.reply = UntilClose THEN 2 ELSE e.reply
Early(e) == IF e.interim THEN 1 ELSE 0
Late(e) == IF Tunnels(e) THEN 1 ELSE 0

LEMMA KindsAre ==
  "head" \in Kinds /\ "bad" \in Kinds /\ "body" \in Kinds /\ "interim" \in Kinds /\ "raw" \in Kinds
BY DEF Kinds

LEMMA RunIs ==
  ASSUME NEW kind \in Kinds, NEW i \in Nat, NEW n \in Nat
  PROVE  /\ Run(kind, i, n) \in Seq(Tokens) /\ Len(Run(kind, i, n)) = n
         /\ \A k \in 1..n : Run(kind, i, n)[k] = Token(kind, i)
<1>1. Token(kind, i) \in Tokens
  BY DEF Token, Tokens, Kinds
<1>2. Run(kind, i, n) = [k \in 1..n |-> Token(kind, i)]
  BY DEF Run
<1> HIDE DEF Token, Tokens, Kinds
<1> QED
  BY <1>1, <1>2

LEMMA AskIs ==
  ASSUME NEW e \in Exchange, NEW i \in Nat
  PROVE  /\ Ask(e, i) \in Seq(Tokens) /\ Len(Ask(e, i)) = 1 + e.body
         /\ Ask(e, i)[1] = Token(IF e.method = "bad" THEN "bad" ELSE "head", i)
         /\ \A k \in 2..(1 + e.body) : Ask(e, i)[k] = Token("body", i)
<1> DEFINE h == Token(IF e.method = "bad" THEN "bad" ELSE "head", i)
           b == Run("body", i, e.body)
<1>1. e.body \in Nat
  BY DEF Exchange
<1>2. b \in Seq(Tokens) /\ Len(b) = e.body /\ \A k \in 1..e.body : b[k] = Token("body", i)
  BY <1>1, KindsAre, RunIs
<1>3. h \in Tokens
  BY DEF Token, Tokens, Kinds
<1>4. <<h>> \in Seq(Tokens) /\ Len(<<h>>) = 1 /\ <<h>>[1] = h
  BY <1>3
<1>5. Ask(e, i) = <<h>> \o b
  BY DEF Ask
<1> HIDE DEF h, b
<1>6. /\ Ask(e, i) \in Seq(Tokens) /\ Len(Ask(e, i)) = 1 + e.body
      /\ \A k \in 1..(1 + e.body) :
            Ask(e, i)[k] = IF k <= 1 THEN <<h>>[k] ELSE b[k - 1]
  BY <1>1, <1>2, <1>4, <1>5, ConcatProperties
<1>7. Ask(e, i)[1] = h
  BY <1>1, <1>4, <1>6
<1>8. ASSUME NEW k \in 2..(1 + e.body)
      PROVE  Ask(e, i)[k] = Token("body", i)
  <2>1. k \in 1..(1 + e.body) /\ ~(k <= 1) /\ k - 1 \in 1..e.body
    BY <1>1
  <2> QED
    BY <1>2, <1>6, <2>1
<1> QED
  BY <1>6, <1>7, <1>8 DEF h

LEMMA RawIs ==
  ASSUME NEW e, NEW i \in Nat
  PROVE  /\ Raw(e, i) \in Seq(Tokens) /\ Len(Raw(e, i)) = Late(e) /\ Late(e) \in Nat
         /\ \A k \in 1..Late(e) : Raw(e, i)[k] = Token("raw", i)
<1> DEFINE n == IF Tunnels(e) THEN 1 ELSE 0
<1>1. n \in Nat /\ Late(e) = n /\ Raw(e, i) = Run("raw", i, n)
  BY DEF Late, Raw
<1> HIDE DEF n
<1> QED
  BY <1>1, KindsAre, RunIs

LEMMA InterimIs ==
  ASSUME NEW e, NEW i \in Nat
  PROVE  /\ Interim(e, i) \in Seq(Tokens) /\ Len(Interim(e, i)) = Early(e) /\ Early(e) \in Nat
         /\ \A k \in 1..Early(e) : Interim(e, i)[k] = Token("interim", i)
<1> DEFINE n == IF e.interim THEN 1 ELSE 0
<1>1. n \in Nat /\ Early(e) = n /\ Interim(e, i) = Run("interim", i, n)
  BY DEF Early, Interim
<1> HIDE DEF n
<1> QED
  BY <1>1, KindsAre, RunIs

LEMMA BodyIs ==
  ASSUME NEW e \in Exchange
  PROVE  Body(e) \in Nat /\ Early(e) \in 0..1 /\ Late(e) \in 0..1
<1>1. e.reply \in Nat \/ e.reply = UntilClose
  BY DEF Exchange
<1> QED
  BY <1>1 DEF Body, Early, Late

LEMMA AnswerIs ==
  ASSUME NEW e \in Exchange, NEW i \in Nat
  PROVE  /\ Answer(e, i) \in Seq(Tokens) /\ Len(Answer(e, i)) = 1 + Body(e)
         /\ Answer(e, i)[1] = Token("head", i)
         /\ \A k \in 2..(1 + Body(e)) : Answer(e, i)[k] = Token("body", i)
<1> DEFINE h == Token("head", i)
           b == Run("body", i, Body(e))
<1>1. Body(e) \in Nat
  BY BodyIs
<1>2. b \in Seq(Tokens) /\ Len(b) = Body(e) /\ \A k \in 1..Body(e) : b[k] = Token("body", i)
  BY <1>1, KindsAre, RunIs
<1>3. h \in Tokens
  BY DEF Token, Tokens, Kinds
<1>4. <<h>> \in Seq(Tokens) /\ Len(<<h>>) = 1 /\ <<h>>[1] = h
  BY <1>3
<1>5. Answer(e, i) = <<h>> \o b
  BY DEF Answer, Body
<1> HIDE DEF h, b
<1>6. /\ Answer(e, i) \in Seq(Tokens) /\ Len(Answer(e, i)) = 1 + Body(e)
      /\ \A k \in 1..(1 + Body(e)) :
            Answer(e, i)[k] = IF k <= 1 THEN <<h>>[k] ELSE b[k - 1]
  BY <1>1, <1>2, <1>4, <1>5, ConcatProperties
<1>7. Answer(e, i)[1] = h
  BY <1>1, <1>4, <1>6
<1>8. ASSUME NEW k \in 2..(1 + Body(e))
      PROVE  Answer(e, i)[k] = Token("body", i)
  <2>1. k \in 1..(1 + Body(e)) /\ ~(k <= 1) /\ k - 1 \in 1..Body(e)
    BY <1>1
  <2> QED
    BY <1>2, <1>6, <2>1
<1> QED
  BY <1>6, <1>7, <1>8 DEF h

AskAt(s, i) == Begin(ClientParts(s), i)
ReplyAt(s, i) == Begin(ServerParts(s), i)

LEMMA ClientWireIs ==
  ASSUME NEW s \in Seq(Exchange)
  PROVE  /\ ClientWire(s) \in Seq(Tokens)
         /\ AskAt(s, 1) = 0 /\ AskAt(s, Len(s) + 1) = Len(ClientWire(s))
         /\ \A i \in 1..(Len(s) + 1) : AskAt(s, i) \in 0..Len(ClientWire(s))
         /\ \A i \in 1..Len(s) :
               /\ AskAt(s, i + 1) = AskAt(s, i) + (1 + s[i].body + Late(s[i]))
               /\ \A k \in 1..(1 + s[i].body) :
                     ClientWire(s)[AskAt(s, i) + k] = Ask(s[i], i)[k]
               /\ Tunnels(s[i]) => ClientWire(s)[AskAt(s, i + 1)] = Token("raw", i)
<1> DEFINE q == ClientParts(s)
<1>1. Len(s) \in Nat /\ DOMAIN s = 1..Len(s) /\ \A i \in 1..Len(s) : s[i] \in Exchange
  OBVIOUS
<1>2. ASSUME NEW i \in 1..Len(s)
      PROVE  /\ q[i] \in Seq(Tokens) /\ Len(q[i]) = 1 + s[i].body + Late(s[i])
             /\ \A k \in 1..(1 + s[i].body) : k \in 1..Len(q[i]) /\ q[i][k] = Ask(s[i], i)[k]
             /\ Tunnels(s[i]) => Len(q[i]) \in 1..Len(q[i]) /\ q[i][Len(q[i])] = Token("raw", i)
  <2>1. q[i] = Ask(s[i], i) \o Raw(s[i], i)
    BY <1>1 DEF ClientParts, ClientBytes
  <2>2. s[i] \in Exchange /\ i \in Nat /\ s[i].body \in Nat
    BY <1>1 DEF Exchange
  <2>3. Ask(s[i], i) \in Seq(Tokens) /\ Len(Ask(s[i], i)) = 1 + s[i].body
    BY <2>2, AskIs
  <2>4. /\ Raw(s[i], i) \in Seq(Tokens) /\ Len(Raw(s[i], i)) = Late(s[i]) /\ Late(s[i]) \in Nat
        /\ \A k \in 1..Late(s[i]) : Raw(s[i], i)[k] = Token("raw", i)
    BY <2>2, RawIs
  <2>5. /\ q[i] \in Seq(Tokens)
        /\ Len(q[i]) = Len(Ask(s[i], i)) + Len(Raw(s[i], i))
        /\ \A k \in 1..(Len(Ask(s[i], i)) + Len(Raw(s[i], i))) :
              q[i][k] = IF k <= Len(Ask(s[i], i)) THEN Ask(s[i], i)[k]
                        ELSE Raw(s[i], i)[k - Len(Ask(s[i], i))]
    <3> HIDE DEF q
    <3>1. PICK a, r \in Seq(Tokens) : a = Ask(s[i], i) /\ r = Raw(s[i], i)
      BY <2>3, <2>4
    <3>2. /\ a \o r \in Seq(Tokens) /\ Len(a \o r) = Len(a) + Len(r)
          /\ \A k \in 1..(Len(a) + Len(r)) :
                (a \o r)[k] = IF k <= Len(a) THEN a[k] ELSE r[k - Len(a)]
      BY ConcatProperties
    <3> QED
      BY <2>1, <3>1, <3>2
  <2>6. Len(q[i]) = 1 + s[i].body + Late(s[i])
    BY <2>3, <2>4, <2>5
  <2>7. ASSUME NEW k \in 1..(1 + s[i].body)
        PROVE  k \in 1..Len(q[i]) /\ q[i][k] = Ask(s[i], i)[k]
    <3>1. k \in 1..(Len(Ask(s[i], i)) + Len(Raw(s[i], i))) /\ k <= Len(Ask(s[i], i))
      BY <2>2, <2>3, <2>4
    <3> QED
      BY <2>5, <3>1
  <2>8. ASSUME Tunnels(s[i])
        PROVE  Len(q[i]) \in 1..Len(q[i]) /\ q[i][Len(q[i])] = Token("raw", i)
    <3>1. Late(s[i]) = 1
      BY <2>8 DEF Late
    <3>2. PICK a, n \in Nat : a = Len(Ask(s[i], i)) /\ n = Len(q[i])
      BY <2>2, <2>3, <2>5
    <3>3. n = a + 1
      BY <2>4, <2>5, <3>1, <3>2
    <3> HIDE DEF q
    <3>0. n \in 1..(Len(Ask(s[i], i)) + Len(Raw(s[i], i))) /\ ~(n <= Len(Ask(s[i], i)))
      BY <2>4, <3>1, <3>2, <3>3
    <3>4. q[i][n] = Raw(s[i], i)[n - a]
      BY <2>5, <3>0, <3>2
    <3>5. n - a = 1 /\ 1 \in 1..Late(s[i])
      BY <3>1, <3>3
    <3> QED
      BY <2>4, <3>2, <3>3, <3>4, <3>5
  <2> QED
    BY <2>5, <2>6, <2>7, <2>8
<1>3. q \in Seq(Seq(Tokens)) /\ Len(q) = Len(s)
  <2>1. q = [i \in 1..Len(s) |-> ClientBytes(s[i], i)]
    BY <1>1 DEF ClientParts
  <2>2. \A i \in 1..Len(s) : ClientBytes(s[i], i) \in Seq(Tokens)
    BY <1>1, <1>2 DEF ClientParts
  <2> HIDE DEF q
  <2> QED
    BY <1>1, <2>1, <2>2
<1>4. ClientWire(s) = Concat(q)
  BY DEF ClientWire
<1>5. \A i : AskAt(s, i) = Begin(q, i)
  BY DEF AskAt
<1> HIDE DEF q
<1>6. /\ Concat(q) \in Seq(Tokens)
      /\ Begin(q, 1) = 0 /\ Begin(q, Len(q) + 1) = Len(Concat(q))
      /\ \A i \in 1..(Len(q) + 1) : Begin(q, i) \in 0..Len(Concat(q))
      /\ \A i \in 1..Len(q) :
            /\ Begin(q, i + 1) = Begin(q, i) + Len(q[i])
            /\ \A k \in 1..Len(q[i]) : Concat(q)[Begin(q, i) + k] = q[i][k]
  BY <1>3, ConcatIs
<1>7. ASSUME NEW i \in 1..Len(s)
      PROVE  /\ AskAt(s, i + 1) = AskAt(s, i) + (1 + s[i].body + Late(s[i]))
             /\ \A k \in 1..(1 + s[i].body) :
                   ClientWire(s)[AskAt(s, i) + k] = Ask(s[i], i)[k]
             /\ Tunnels(s[i]) => ClientWire(s)[AskAt(s, i + 1)] = Token("raw", i)
  <2>1. /\ Begin(q, i + 1) = Begin(q, i) + Len(q[i])
        /\ \A k \in 1..Len(q[i]) : Concat(q)[Begin(q, i) + k] = q[i][k]
    BY <1>3, <1>6
  <2>2. /\ Len(q[i]) = 1 + s[i].body + Late(s[i])
        /\ \A k \in 1..(1 + s[i].body) : k \in 1..Len(q[i]) /\ q[i][k] = Ask(s[i], i)[k]
        /\ Tunnels(s[i]) => Len(q[i]) \in 1..Len(q[i]) /\ q[i][Len(q[i])] = Token("raw", i)
    BY <1>2
  <2>3. AskAt(s, i) = Begin(q, i) /\ AskAt(s, i + 1) = Begin(q, i + 1)
    BY <1>5
  <2> HIDE DEF AskAt, Begin
  <2> QED
    BY <1>4, <2>1, <2>2, <2>3
<1> QED
  BY <1>3, <1>4, <1>5, <1>6, <1>7

LEMMA ServerWireIs ==
  ASSUME NEW s \in Seq(Exchange)
  PROVE  /\ ServerWire(s) \in Seq(Tokens)
         /\ ReplyAt(s, 1) = 0 /\ ReplyAt(s, Len(s) + 1) = Len(ServerWire(s))
         /\ \A i \in 1..(Len(s) + 1) : ReplyAt(s, i) \in 0..Len(ServerWire(s))
         /\ \A i \in 1..Len(s) :
               /\ ReplyAt(s, i + 1) =
                    ReplyAt(s, i) + (Early(s[i]) + (1 + Body(s[i])) + Late(s[i]))
               /\ s[i].interim => ServerWire(s)[ReplyAt(s, i) + 1] = Token("interim", i)
               /\ \A k \in 1..(1 + Body(s[i])) :
                     ServerWire(s)[ReplyAt(s, i) + (Early(s[i]) + k)] = Answer(s[i], i)[k]
<1> DEFINE q == ServerParts(s)
<1>1. Len(s) \in Nat /\ DOMAIN s = 1..Len(s) /\ \A i \in 1..Len(s) : s[i] \in Exchange
  OBVIOUS
<1>2. ASSUME NEW i \in 1..Len(s)
      PROVE  /\ q[i] \in Seq(Tokens) /\ Len(q[i]) = Early(s[i]) + (1 + Body(s[i])) + Late(s[i])
             /\ s[i].interim => 1 \in 1..Len(q[i]) /\ q[i][1] = Token("interim", i)
             /\ \A k \in 1..(1 + Body(s[i])) :
                   Early(s[i]) + k \in 1..Len(q[i]) /\ q[i][Early(s[i]) + k] = Answer(s[i], i)[k]
  <2>1. q[i] = (Interim(s[i], i) \o Answer(s[i], i)) \o Raw(s[i], i)
    BY <1>1, ConcatAssociative DEF ServerParts, ServerBytes
  <2>2. s[i] \in Exchange /\ i \in Nat /\ Body(s[i]) \in Nat /\ Late(s[i]) \in Nat /\ Early(s[i]) \in Nat
    BY <1>1, BodyIs
  <2>3. PICK a \in Seq(Tokens) : a = Answer(s[i], i) /\ Len(a) = 1 + Body(s[i])
    BY <2>2, AnswerIs
  <2>4. PICK r \in Seq(Tokens) : r = Raw(s[i], i) /\ Len(r) = Late(s[i])
    BY <2>2, RawIs
  <2>5. PICK t \in Seq(Tokens) : /\ t = Interim(s[i], i) /\ Len(t) = Early(s[i])
                                 /\ \A k \in 1..Len(t) : t[k] = Token("interim", i)
    BY <2>2, InterimIs
  <2>60. /\ t \o a \in Seq(Tokens) /\ Len(t \o a) = Len(t) + Len(a)
         /\ \A k \in 1..(Len(t) + Len(a)) :
               (t \o a)[k] = IF k <= Len(t) THEN t[k] ELSE a[k - Len(t)]
    BY ConcatProperties
  <2>6. PICK x \in Seq(Tokens) :
           /\ x = t \o a /\ Len(x) = Len(t) + Len(a)
           /\ \A k \in 1..(Len(t) + Len(a)) : x[k] = IF k <= Len(t) THEN t[k] ELSE a[k - Len(t)]
    BY <2>60
  <2>7. /\ x \o r \in Seq(Tokens) /\ Len(x \o r) = Len(x) + Len(r)
        /\ \A k \in 1..(Len(x) + Len(r)) :
              (x \o r)[k] = IF k <= Len(x) THEN x[k] ELSE r[k - Len(x)]
    BY ConcatProperties
  <2>8. q[i] = x \o r
    BY <2>1, <2>3, <2>4, <2>5, <2>6
  <2>9. PICK nt, na, nr \in Nat : nt = Early(s[i]) /\ na = 1 + Body(s[i]) /\ nr = Late(s[i])
    BY <2>2
  <2> HIDE DEF q
  <2>10. Len(q[i]) = nt + na + nr
    BY <2>3, <2>4, <2>5, <2>6, <2>7, <2>8, <2>9
  <2>11. ASSUME s[i].interim
         PROVE  1 \in 1..Len(q[i]) /\ q[i][1] = Token("interim", i)
    <3>1. nt = 1
      BY <2>9, <2>11 DEF Early
    <3>2. 1 \in 1..(Len(x) + Len(r)) /\ 1 <= Len(x) /\ 1 \in 1..(Len(t) + Len(a)) /\ 1 <= Len(t)
      BY <2>3, <2>4, <2>5, <2>6, <2>9, <3>1
    <3>3. (x \o r)[1] = x[1] /\ x[1] = t[1] /\ t[1] = Token("interim", i)
      BY <2>5, <2>6, <2>7, <3>2
    <3>4. 1 \in 1..Len(q[i])
      BY <2>10, <3>1
    <3> QED
      BY <2>8, <3>3, <3>4
  <2>12. ASSUME NEW k \in 1..na
         PROVE  nt + k \in 1..Len(q[i]) /\ q[i][nt + k] = a[k]
    <3>1. /\ nt + k \in 1..(nt + na + nr) /\ nt + k <= nt + na /\ nt + k \in 1..(nt + na)
          /\ ~(nt + k <= nt) /\ (nt + k) - nt = k
      OBVIOUS
    <3>2. Len(x) + Len(r) = nt + na + nr /\ Len(x) = nt + na /\ Len(t) = nt /\ Len(t) + Len(a) = nt + na
      BY <2>3, <2>4, <2>5, <2>6, <2>9
    <3>3. (x \o r)[nt + k] = x[nt + k]
      BY <2>7, <3>1, <3>2
    <3>4. x[nt + k] = a[k]
      BY <2>6, <3>1, <3>2
    <3> QED
      BY <2>8, <2>10, <3>1, <3>3, <3>4
  <2> QED
    BY <2>3, <2>7, <2>8, <2>9, <2>10, <2>11, <2>12
<1>3. q \in Seq(Seq(Tokens)) /\ Len(q) = Len(s)
  <2>1. q = [i \in 1..Len(s) |-> ServerBytes(s[i], i)]
    BY <1>1 DEF ServerParts
  <2>2. \A i \in 1..Len(s) : ServerBytes(s[i], i) \in Seq(Tokens)
    BY <1>1, <1>2 DEF ServerParts
  <2> HIDE DEF q
  <2> QED
    BY <1>1, <2>1, <2>2
<1>4. ServerWire(s) = Concat(q)
  BY DEF ServerWire
<1>5. \A i : ReplyAt(s, i) = Begin(q, i)
  BY DEF ReplyAt
<1> HIDE DEF q
<1>6. /\ Concat(q) \in Seq(Tokens)
      /\ Begin(q, 1) = 0 /\ Begin(q, Len(q) + 1) = Len(Concat(q))
      /\ \A i \in 1..(Len(q) + 1) : Begin(q, i) \in 0..Len(Concat(q))
      /\ \A i \in 1..Len(q) :
            /\ Begin(q, i + 1) = Begin(q, i) + Len(q[i])
            /\ \A k \in 1..Len(q[i]) : Concat(q)[Begin(q, i) + k] = q[i][k]
  BY <1>3, ConcatIs
<1>7. ASSUME NEW i \in 1..Len(s)
      PROVE  /\ ReplyAt(s, i + 1) =
                    ReplyAt(s, i) + (Early(s[i]) + (1 + Body(s[i])) + Late(s[i]))
             /\ s[i].interim => ServerWire(s)[ReplyAt(s, i) + 1] = Token("interim", i)
             /\ \A k \in 1..(1 + Body(s[i])) :
                   ServerWire(s)[ReplyAt(s, i) + (Early(s[i]) + k)] = Answer(s[i], i)[k]
  <2>1. /\ Begin(q, i + 1) = Begin(q, i) + Len(q[i])
        /\ \A k \in 1..Len(q[i]) : Concat(q)[Begin(q, i) + k] = q[i][k]
    BY <1>3, <1>6
  <2>2. /\ Len(q[i]) = Early(s[i]) + (1 + Body(s[i])) + Late(s[i])
        /\ s[i].interim => 1 \in 1..Len(q[i]) /\ q[i][1] = Token("interim", i)
        /\ \A k \in 1..(1 + Body(s[i])) :
              Early(s[i]) + k \in 1..Len(q[i]) /\ q[i][Early(s[i]) + k] = Answer(s[i], i)[k]
    BY <1>2
  <2>3. ReplyAt(s, i) = Begin(q, i) /\ ReplyAt(s, i + 1) = Begin(q, i + 1)
    BY <1>5
  <2> HIDE DEF ReplyAt, Begin
  <2> QED
    BY <1>4, <2>1, <2>2, <2>3
<1> QED
  BY <1>3, <1>4, <1>5, <1>6, <1>7

-----------------------------------------------------------------------------
(* Stretches of a sequence. *)

\* The elements of w from the (a + 1)-th to the b-th.
Slice(w, a, b) == SubSeq(w, a + 1, b)

LEMMA SliceIs ==
  ASSUME NEW T, NEW w \in Seq(T), NEW a \in 0..Len(w), NEW b \in a..Len(w)
  PROVE  /\ Slice(w, a, b) \in Seq(T) /\ Len(Slice(w, a, b)) = b - a
         /\ \A k \in 1..(b - a) : Slice(w, a, b)[k] = w[a + k]
<1>1. Len(w) \in Nat /\ a \in Nat /\ b \in Nat /\ a <= b
  OBVIOUS
<1>2. \A i \in (a + 1)..b : w[i] \in T
  BY <1>1, ElementOfSeq
<1>3. /\ SubSeq(w, a + 1, b) \in Seq(T)
      /\ Len(SubSeq(w, a + 1, b)) = IF a + 1 <= b THEN b - (a + 1) + 1 ELSE 0
      /\ \A i \in 1..(b - (a + 1) + 1) : SubSeq(w, a + 1, b)[i] = w[(a + 1) + i - 1]
  BY <1>1, <1>2, SubSeqProperties
<1>4. Len(Slice(w, a, b)) = b - a
  BY <1>1, <1>3 DEF Slice
<1>5. ASSUME NEW k \in 1..(b - a)
      PROVE  Slice(w, a, b)[k] = w[a + k]
  <2>1. k \in 1..(b - (a + 1) + 1) /\ (a + 1) + k - 1 = a + k
    BY <1>1
  <2> QED
    BY <1>3, <2>1 DEF Slice
<1> QED
  BY <1>3, <1>4, <1>5 DEF Slice

LEMMA SliceEqual ==
  ASSUME NEW T, NEW w \in Seq(T), NEW a \in 0..Len(w), NEW b \in a..Len(w),
         NEW t \in Seq(T), Len(t) = b - a,
         \A k \in 1..(b - a) : t[k] = w[a + k]
  PROVE  t = Slice(w, a, b)
<1>1. /\ Slice(w, a, b) \in Seq(T) /\ Len(Slice(w, a, b)) = b - a
      /\ \A k \in 1..(b - a) : Slice(w, a, b)[k] = w[a + k]
  BY SliceIs
<1> QED
  BY <1>1, SeqEqual

LEMMA SliceEmpty ==
  ASSUME NEW T, NEW w \in Seq(T), NEW a \in 0..Len(w), NEW b \in a..Len(w)
  PROVE  Slice(w, a, b) = <<>> <=> a = b
<1>1. Slice(w, a, b) \in Seq(T) /\ Len(Slice(w, a, b)) = b - a
  BY SliceIs
<1>2. Slice(w, a, b) = <<>> <=> Len(Slice(w, a, b)) = 0
  BY <1>1, EmptySeq
<1> QED
  BY <1>1, <1>2

\* A slice cut in two.
LEMMA SliceCut ==
  ASSUME NEW T, NEW w \in Seq(T), NEW a \in 0..Len(w), NEW b \in a..Len(w), NEW n \in 0..(b - a)
  PROVE  /\ SubSeq(Slice(w, a, b), 1, n) = Slice(w, a, a + n)
         /\ SubSeq(Slice(w, a, b), n + 1, Len(Slice(w, a, b))) = Slice(w, a + n, b)
<1>1. PICK t \in Seq(T) : t = Slice(w, a, b) /\ Len(t) = b - a /\ \A k \in 1..(b - a) : t[k] = w[a + k]
  BY SliceIs
<1>2. /\ Len(w) \in Nat /\ a \in Nat /\ b \in Nat /\ n \in Nat /\ a + n <= b
      /\ a + n \in 0..Len(w) /\ a + n \in a..Len(w) /\ b \in (a + n)..Len(w)
      /\ 0 \in 0..Len(t) /\ n \in 0..Len(t) /\ Len(t) \in n..Len(t)
  BY <1>1
<1>3. SubSeq(t, 1, n) = Slice(w, a, a + n)
  <2>1. /\ Slice(t, 0, n) \in Seq(T) /\ Len(Slice(t, 0, n)) = n - 0
        /\ \A k \in 1..(n - 0) : Slice(t, 0, n)[k] = t[0 + k]
    BY <1>2, SliceIs
  <2>2. PICK u \in Seq(T) : u = Slice(t, 0, n)
    BY <2>1
  <2>3. Len(u) = (a + n) - a
    BY <1>2, <2>1, <2>2
  <2>4. ASSUME NEW k \in 1..((a + n) - a)
        PROVE  u[k] = w[a + k]
    <3>1. k \in 1..(n - 0) /\ 0 + k = k /\ k \in 1..(b - a)
      BY <1>2
    <3> QED
      BY <1>1, <2>1, <2>2, <3>1
  <2>5. u = Slice(w, a, a + n)
    BY <1>2, <2>3, <2>4, SliceEqual
  <2>6. SubSeq(t, 1, n) = Slice(t, 0, n)
    BY DEF Slice
  <2> QED
    BY <2>2, <2>5, <2>6
<1>4. SubSeq(t, n + 1, Len(t)) = Slice(w, a + n, b)
  <2>1. /\ Slice(t, n, Len(t)) \in Seq(T) /\ Len(Slice(t, n, Len(t))) = Len(t) - n
        /\ \A k \in 1..(Len(t) - n) : Slice(t, n, Len(t))[k] = t[n + k]
    BY <1>2, SliceIs
  <2>2. PICK u \in Seq(T) : u = Slice(t, n, Len(t))
    BY <2>1
  <2>3. Len(u) = b - (a + n)
    BY <1>1, <1>2, <2>1, <2>2
  <2>4. ASSUME NEW k \in 1..(b - (a + n))
        PROVE  u[k] = w[(a + n) + k]
    <3>1. k \in 1..(Len(t) - n) /\ n + k \in 1..(b - a) /\ a + (n + k) = (a + n) + k
      BY <1>1, <1>2
    <3> QED
      BY <1>1, <2>1, <2>2, <3>1
  <2>5. u = Slice(w, a + n, b)
    BY <1>2, <2>3, <2>4, SliceEqual
  <2> QED
    BY <2>2, <2>5 DEF Slice
<1> QED
  BY <1>1, <1>3, <1>4

LEMMA SliceHead ==
  ASSUME NEW T, NEW w \in Seq(T), NEW a \in 0..Len(w), NEW b \in a..Len(w), a # b
  PROVE  /\ a + 1 \in 1..Len(w) /\ a + 1 \in 0..Len(w) /\ b \in (a + 1)..Len(w)
         /\ Slice(w, a, b) # <<>> /\ w[a + 1] \in T
         /\ Head(Slice(w, a, b)) = w[a + 1] /\ Tail(Slice(w, a, b)) = Slice(w, a + 1, b)
<1>1. /\ a + 1 \in 1..Len(w) /\ a + 1 \in 0..Len(w) /\ b \in (a + 1)..Len(w) /\ Len(w) \in Nat
      /\ a \in Nat /\ b \in Nat
  OBVIOUS
<1>2. Head(Slice(w, a, b)) = w[a + 1] /\ Tail(Slice(w, a, b)) = Slice(w, a + 1, b)
  BY <1>1, HeadTailOfSubSeq DEF Slice
<1>3. Slice(w, a, b) # <<>>
  BY SliceEmpty
<1> QED
  BY <1>1, <1>2, <1>3, ElementOfSeq

LEMMA SliceGrown ==
  ASSUME NEW T, NEW w \in Seq(T), NEW a \in 0..Len(w), NEW b \in a..Len(w), b < Len(w)
  PROVE  /\ b + 1 \in a..Len(w) /\ w[b + 1] \in T
         /\ Append(Slice(w, a, b), w[b + 1]) = Slice(w, a, b + 1)
         /\ Slice(w, a, b) \o <<w[b + 1]>> = Slice(w, a, b + 1)
<1>1. /\ b + 1 \in a..Len(w) /\ b + 1 \in 1..Len(w) /\ Len(w) \in Nat /\ a \in Nat /\ b \in Nat
      /\ a + 1 \in 1..Len(w) /\ b + 1 \in (a + 1)..Len(w) /\ (b + 1) - 1 = b
  OBVIOUS
<1>2. w[b + 1] \in T
  BY <1>1, ElementOfSeq
<1>3. Slice(w, a, b) \o <<w[b + 1]>> = Slice(w, a, b + 1)
  BY <1>1, SubSeqRecursiveSecond DEF Slice
<1>4. Slice(w, a, b) \in Seq(T)
  BY SliceIs
<1>5. Append(Slice(w, a, b), w[b + 1]) = Slice(w, a, b) \o <<w[b + 1]>>
  BY <1>2, <1>4
<1> QED
  BY <1>1, <1>2, <1>3, <1>5

-----------------------------------------------------------------------------
(* What the decoders do with a byte.                                       *)

Messages == [offset : Nat, bytes : Seq(Tokens), head : Tokens \cup {NoHead},
             total : Nat, dropped : BOOLEAN]
Decoders == [consumed : Nat, message : Messages, need : Int]

LEMMA AppendBoundedIs ==
  ASSUME NEW bytes \in Seq(Tokens), NEW more \in Seq(Tokens), NEW limit \in Nat
  PROVE  AppendBounded(bytes, more, limit) \in Seq(Tokens)
<1> DEFINE n == IF Len(more) < Room(bytes, limit) THEN Len(more) ELSE Room(bytes, limit)
<1>1. Len(bytes) \in Nat /\ Len(more) \in Nat
  OBVIOUS
<1>2. Room(bytes, limit) \in Nat
  BY <1>1 DEF Room
<1>3. n \in Nat /\ n <= Len(more)
  BY <1>1, <1>2
<1>4. AppendBounded(bytes, more, limit) = bytes \o SubSeq(more, 1, n)
  BY DEF AppendBounded
<1> HIDE DEF n
<1>5. \A i \in 1..n : more[i] \in Tokens
  BY <1>1, <1>3, ElementOfSeq
<1>6. SubSeq(more, 1, n) \in Seq(Tokens)
  BY <1>3, <1>5, SubSeqProperties
<1> QED
  BY <1>4, <1>6, ConcatProperties

LEMMA OneAppended ==
  ASSUME NEW bytes \in Seq(Tokens), NEW t \in Tokens, NEW limit \in Nat
  PROVE  AppendBounded(bytes, <<t>>, limit) =
           IF Len(bytes) < limit THEN Append(bytes, t) ELSE bytes
<1>1. /\ Len(bytes) \in Nat /\ Len(<<t>>) = 1 /\ <<t>> \in Seq(Tokens)
      /\ Append(bytes, t) = bytes \o <<t>>
  OBVIOUS
<1>2. CASE Len(bytes) < limit
  <2>1. Room(bytes, limit) \in Nat /\ Room(bytes, limit) >= 1
    BY <1>1, <1>2 DEF Room
  <2>2. AppendBounded(bytes, <<t>>, limit) = bytes \o SubSeq(<<t>>, 1, 1)
    BY <1>1, <2>1 DEF AppendBounded
  <2>3. SubSeq(<<t>>, 1, 1) = <<t>>
    BY <1>1, SubSeqFull
  <2> QED
    BY <1>1, <1>2, <2>2, <2>3
<1>3. CASE ~(Len(bytes) < limit)
  <2>1. Room(bytes, limit) = 0
    BY <1>1, <1>3 DEF Room
  <2>2. AppendBounded(bytes, <<t>>, limit) = bytes \o SubSeq(<<t>>, 1, 0)
    BY <1>1, <2>1 DEF AppendBounded
  <2>3. SubSeq(<<t>>, 1, 0) = <<>>
    BY SubSeqEmpty
  <2>4. bytes \o <<>> = bytes
    BY ConcatEmptySeq
  <2> QED
    BY <1>3, <2>2, <2>3, <2>4
<1> QED
  BY <1>2, <1>3

LEMMA FreshIs ==
  /\ NewMessage \in Messages /\ NewDecoder \in Decoders
  /\ NewDecoder.consumed = 0 /\ NewDecoder.need = -1 /\ NewDecoder.message = NewMessage
  /\ NewMessage.total = 0 /\ NewMessage.bytes = <<>> /\ NewMessage.head = NoHead
  /\ NewMessage.dropped = FALSE
<1>1. <<>> \in Seq(Tokens)
  BY EmptySeq
<1>2. NewMessage \in Messages
  BY <1>1 DEF NewMessage, Messages
<1> QED
  BY <1>2 DEF NewMessage, NewDecoder, Decoders

LEMMA ReadHeadIs ==
  ASSUME NEW d \in Decoders, NEW t \in Tokens, NEW n \in Int
  PROVE  /\ ReadHead(d, t, n) \in Decoders
         /\ ReadHead(d, t, n).consumed = d.consumed
         /\ ReadHead(d, t, n).need = n
         /\ ReadHead(d, t, n).message.total = d.message.total + 1
         /\ ReadHead(d, t, n).message.head = t
         /\ ReadHead(d, t, n).message.dropped = d.message.dropped
         /\ ReadHead(d, t, n).message.bytes = Append(d.message.bytes, t)
<1>1. d.message \in Messages
  BY DEF Decoders
<1> DEFINE r == [d.message EXCEPT !.bytes = Append(@, t), !.head = t, !.total = @ + 1]
<1>2. Append(d.message.bytes, t) \in Seq(Tokens) /\ d.message.total + 1 \in Nat
  BY <1>1 DEF Messages
<1>3. /\ r \in Messages /\ r.total = d.message.total + 1 /\ r.head = t
      /\ r.dropped = d.message.dropped /\ r.bytes = Append(d.message.bytes, t)
  BY <1>1, <1>2 DEF Messages
<1>4. ReadHead(d, t, n) = [d EXCEPT !.message = r, !.need = n]
  BY <1>1 DEF ReadHead, Decoders, Messages
<1> HIDE DEF r
<1> QED
  BY <1>3, <1>4 DEF Decoders

LEMMA ReadBodyIs ==
  ASSUME NEW d \in Decoders, NEW m \in Messages
  PROVE  /\ ReadBody(d, m) \in Decoders
         /\ ReadBody(d, m).consumed = d.consumed /\ ReadBody(d, m).message = m
         /\ ReadBody(d, m).need = IF d.need = UntilClose THEN UntilClose ELSE d.need - 1
<1> DEFINE n == IF d.need = UntilClose THEN d.need ELSE d.need - 1
<1>1. n \in Int /\ n = IF d.need = UntilClose THEN UntilClose ELSE d.need - 1
  BY DEF Decoders, UntilClose
<1>2. ReadBody(d, m) = [d EXCEPT !.message = m, !.need = n]
  BY DEF ReadBody
<1> HIDE DEF n
<1>3. /\ ReadBody(d, m) \in Decoders /\ ReadBody(d, m).consumed = d.consumed
      /\ ReadBody(d, m).message = m /\ ReadBody(d, m).need = n
  BY <1>1, <1>2 DEF Decoders
<1> QED
  BY <1>1, <1>3

LEMMA DiscardIs ==
  ASSUME NEW m \in Messages
  PROVE  /\ Discard(m) \in Messages /\ Discard(m).dropped
         /\ Discard(m).total = m.total /\ Discard(m).head = m.head
<1>1. <<>> \in Seq(Tokens)
  BY EmptySeq
<1> QED
  BY <1>1 DEF Discard, Messages

LEMMA RetainRequestIs ==
  ASSUME NEW m \in Messages, NEW t \in Tokens, NEW budget \in Nat,
         m.dropped \/ Len(m.bytes) = m.total
  PROVE  /\ RetainRequest(m, t, budget) \in Messages
         /\ RetainRequest(m, t, budget).total = m.total + 1
         /\ RetainRequest(m, t, budget).head = m.head
         /\ ~RetainRequest(m, t, budget).dropped =>
              ~m.dropped /\ RetainRequest(m, t, budget).bytes = Append(m.bytes, t)
<1> DEFINE seen == [m EXCEPT !.total = @ + 1]
<1>1. m.total \in Nat /\ m.bytes \in Seq(Tokens)
  BY DEF Messages
<1>2. /\ seen \in Messages /\ seen.total = m.total + 1 /\ seen.head = m.head
      /\ seen.dropped = m.dropped /\ seen.bytes = m.bytes
  BY <1>1 DEF Messages
<1>3. RetainRequest(m, t, budget) =
        IF m.dropped THEN seen
        ELSE IF seen.total > budget THEN Discard(seen)
        ELSE [seen EXCEPT !.bytes = AppendBounded(@, <<t>>, budget)]
  BY DEF RetainRequest
<1> HIDE DEF seen
<1>4. CASE m.dropped
  BY <1>2, <1>3, <1>4
<1>5. CASE ~m.dropped /\ seen.total > budget
  BY <1>2, <1>3, <1>5, DiscardIs
<1>6. CASE ~m.dropped /\ ~(seen.total > budget)
  <2>1. AppendBounded(m.bytes, <<t>>, budget) = Append(m.bytes, t)
    BY <1>1, <1>2, <1>6, OneAppended
  <2>2. RetainRequest(m, t, budget) = [seen EXCEPT !.bytes = Append(m.bytes, t)]
    BY <1>2, <1>3, <1>6, <2>1
  <2>3. Append(m.bytes, t) \in Seq(Tokens)
    BY <1>1
  <2> QED
    BY <1>2, <1>6, <2>2, <2>3 DEF Messages
<1> QED
  BY <1>4, <1>5, <1>6

LEMMA RetainResponseIs ==
  ASSUME NEW m \in Messages, NEW t \in Tokens
  PROVE  /\ RetainResponse(m, t) \in Messages
         /\ RetainResponse(m, t).total = m.total + 1
         /\ RetainResponse(m, t).head = m.head
         /\ RetainResponse(m, t).bytes =
              IF Len(m.bytes) < Limit THEN Append(m.bytes, t) ELSE m.bytes
<1>1. m.total \in Nat /\ m.bytes \in Seq(Tokens) /\ Limit \in Nat
  BY LimitsAssumption DEF Messages
<1>2. PICK b \in Seq(Tokens) : /\ b = AppendBounded(m.bytes, <<t>>, Limit)
                               /\ b = IF Len(m.bytes) < Limit THEN Append(m.bytes, t) ELSE m.bytes
  <2>1. AppendBounded(m.bytes, <<t>>, Limit) \in Seq(Tokens)
    <3>1. <<t>> \in Seq(Tokens)
      OBVIOUS
    <3> QED
      BY <1>1, <3>1, AppendBoundedIs
  <2> QED
    BY <1>1, <2>1, OneAppended
<1>20. PICK n \in Nat : n = m.total + 1
  BY <1>1
<1>3. RetainResponse(m, t) = [m EXCEPT !.total = n, !.bytes = b]
  BY <1>2, <1>20 DEF RetainResponse
<1>4. /\ RetainResponse(m, t) \in Messages /\ RetainResponse(m, t).total = m.total + 1
      /\ RetainResponse(m, t).head = m.head /\ RetainResponse(m, t).bytes = b
  BY <1>3, <1>20 DEF Messages
<1> QED
  BY <1>2, <1>4

LEMMA TakenIs ==
  ASSUME NEW d \in Decoders
  PROVE  /\ Taken(d) \in Messages /\ Taken(d).offset = d.consumed
         /\ Taken(d).bytes = d.message.bytes /\ Taken(d).head = d.message.head
         /\ Taken(d).dropped = d.message.dropped
         /\ AfterTake(d) \in Decoders /\ AfterTake(d).consumed = d.consumed + d.message.total
         /\ AfterTake(d).need = -1 /\ AfterTake(d).message = NewMessage
<1>1. d.message \in Messages /\ d.consumed \in Nat
  BY DEF Decoders
<1>2. d.consumed + d.message.total \in Nat
  BY <1>1 DEF Messages
<1>3. AfterTake(d) = [NewDecoder EXCEPT !.consumed = d.consumed + d.message.total]
  BY DEF AfterTake
<1>4. /\ AfterTake(d) \in Decoders /\ AfterTake(d).consumed = d.consumed + d.message.total
      /\ AfterTake(d).need = -1 /\ AfterTake(d).message = NewMessage
  BY <1>2, <1>3, FreshIs DEF Decoders
<1> QED
  BY <1>1, <1>4 DEF Taken, Messages

-----------------------------------------------------------------------------
(* The inductive invariant.  m is the number of requests that have joined  *)
(* the queue, x and y are how much of each wire has been fed, and at says  *)
(* where on the server's wire the chunks of the backlog begin and the last *)
(* one ends.                                                               *)

Exchanges == [request : Nat, response : Nat, c2s : Seq(Tokens), s2c : Seq(Tokens),
              requestOffset : Nat, responseOffset : Nat, incomplete : BOOLEAN,
              protocol : {"http", "websocket"}]

Types ==
  /\ script \in Scripts
  /\ c2s \in Seq(Tokens) /\ s2c \in Seq(Tokens) /\ rest \in Seq(Tokens)
  /\ request \in Decoders /\ response \in Decoders
  /\ requests \in Seq(Messages) /\ requestBytes \in Int
  /\ responses \in Seq(Seq(Tokens)) /\ responseClosed \in {"open", "clean", "unclean"}
  /\ clientUpgrade \in BOOLEAN /\ upgradeClient \in Seq(Tokens)
  /\ upgraded \in Exchanges \cup {NoExchange}
  /\ failed \in BOOLEAN /\ discarded \in Nat
  /\ phase \in Phases /\ finishing \in BOOLEAN
  /\ emitted \in Seq(Exchanges)

\* What has been fed.
Fed(x, y) ==
  /\ x \in 0..Len(ClientWire(script)) /\ c2s = Slice(ClientWire(script), x, Len(ClientWire(script)))
  /\ y \in 0..Len(ServerWire(script)) /\ s2c = Slice(ServerWire(script), y, Len(ServerWire(script)))

\* The queue holds the last of the m requests, in their order and whole.
Queued(s, message, i) ==
  /\ message.head = Token("head", i) /\ message.offset = AskAt(s, i) /\ s[i].method # "bad"
  /\ ~message.dropped => message.bytes = Ask(s[i], i)

Queue(m) ==
  /\ m \in Nat
  /\ ~failed =>
       /\ m \in Len(requests)..Len(script)
       /\ \A j \in DOMAIN requests : Queued(script, requests[j], (m - Len(requests)) + j)
       /\ \A i \in 1..m : script[i].upgrade <=> clientUpgrade /\ i = m
       /\ clientUpgrade => m > 0

\* The client's decoder is in request m + 1, at the place its bytes say, or
\* before the first byte of a tunnel that nobody has asked for an upgrade of.
Asking(s, decoder, i) ==
  \/ decoder.need = -1 /\ decoder.message = NewMessage
  \/ /\ i \in DOMAIN s /\ decoder.need > 0 /\ decoder.message.total > 0
     /\ decoder.message.total + decoder.need = 1 + s[i].body
     /\ decoder.message.head = Token("head", i) /\ s[i].method # "bad"
     /\ ~decoder.message.dropped =>
          decoder.message.bytes = Slice(ClientWire(s), decoder.consumed,
                                        decoder.consumed + decoder.message.total)

Position(decoder) == decoder.consumed + decoder.message.total

Reading(m, x) ==
  ~failed /\ ~clientUpgrade =>
    /\ \/ request.consumed = AskAt(script, m + 1) /\ Asking(script, request, m + 1)
       \/ /\ m > 0 /\ Tunnels(script[m]) /\ request.consumed + 1 = AskAt(script, m + 1)
          /\ request.need = -1 /\ request.message = NewMessage
    /\ IF phase = "c2s"
       THEN Position(request) <= x /\ rest = Slice(ClientWire(script), Position(request), x)
       ELSE Position(request) = x

\* The server's decoder is in the response to the oldest queued request, or
\* to the next request if none is queued, at the place its bytes say.
Kept(total) == IF total < Limit THEN total ELSE Limit

Answering(s, decoder, i) ==
  \/ /\ decoder.need = -1 /\ decoder.message = NewMessage
     /\ \/ decoder.consumed = ReplyAt(s, i)
        \/ i \in DOMAIN s /\ s[i].interim /\ decoder.consumed = ReplyAt(s, i) + 1
  \/ /\ i \in DOMAIN s /\ decoder.message.total > 0
     /\ decoder.consumed = ReplyAt(s, i) + Early(s[i])
     /\ decoder.message.head = Token("head", i)
     /\ decoder.message.bytes = Slice(ServerWire(s), decoder.consumed,
                                      decoder.consumed + Kept(decoder.message.total))
     /\ \/ /\ decoder.need = UntilClose /\ s[i].reply = UntilClose
           /\ Body(s[i]) = 2 /\ ~Tunnels(s[i])
        \/ /\ decoder.need > 0
           /\ decoder.message.total + decoder.need = 1 + Body(s[i])

\* The chunks of the backlog are consecutive.
Laid(s, chunks, at) ==
  LET n == Len(chunks)
  IN  /\ at \in [1..(n + 1) -> 0..Len(ServerWire(s))]
      /\ \A j \in 1..n : /\ at[j] <= at[j + 1]
                         /\ chunks[j] = Slice(ServerWire(s), at[j], at[j + 1])

\* A response is still expected of the server.
Live == /\ ~failed /\ (clientUpgrade => requests # <<>>)
        /\ ~(responseClosed = "unclean" /\ phase = "idle")

Placed(s, chunks, at, loop, chunk, position, y) ==
  /\ Laid(s, chunks, at)
  /\ IF loop = "backlog"
     THEN position <= at[1] /\ chunk = Slice(ServerWire(s), position, at[1])
     ELSE position = at[1]
  /\ IF loop = "s2c"
     THEN at[Len(chunks) + 1] <= y /\ chunk = Slice(ServerWire(s), at[Len(chunks) + 1], y)
     ELSE at[Len(chunks) + 1] = y

Backlog(y, at) == Placed(script, responses, at, phase, rest, Position(response), y)

Replying(m, y, at) ==
  Live => /\ Answering(script, response, (m - Len(requests)) + 1)
          /\ response.need # -1 => requests # <<>>
          /\ Backlog(y, at)

Steering(y) ==
  /\ responseClosed = "unclean" => finishing
  /\ responseClosed = "clean" => y = Len(ServerWire(script))
  /\ finishing => phase \in {"idle", "flush", "backlog"}
  /\ responseClosed # "open" => phase # "s2c"
  /\ ~failed /\ requests # <<>> /\ phase \in {"idle", "s2c"} => responses = <<>>
  /\ ~failed /\ requests # <<>> /\ phase = "idle" /\ responseClosed # "open" => response.need = -1
  /\ ~failed /\ upgraded # NoExchange => requests = <<>> /\ clientUpgrade

\* An exchange is a request with its own response, their bytes and offsets.
Own(s, e) ==
  /\ e.request = e.response /\ e.request \in DOMAIN s
  /\ ClientWire(s)[e.requestOffset + 1] = Token("head", e.request)
  /\ ServerWire(s)[e.responseOffset + 1] = Token("head", e.response)
  /\ e.protocol = "http" =>
       /\ e.c2s = Ask(s[e.request], e.request)
       /\ \E n \in 1..Len(Answer(s[e.request], e.request)) :
            /\ e.s2c = SubSeq(Answer(s[e.request], e.request), 1, n)
            /\ ~e.incomplete => n \in {Limit, Len(Answer(s[e.request], e.request))}

Handed(m) ==
  /\ \A k \in DOMAIN emitted : Own(script, emitted[k])
  /\ \A j, k \in DOMAIN emitted : j < k => emitted[j].request < emitted[k].request
  /\ ~failed => \A k \in DOMAIN emitted : emitted[k].request <= m - Len(requests)
  /\ upgraded # NoExchange =>
       /\ Own(script, upgraded) /\ upgraded.protocol = "websocket"
       /\ \A k \in DOMAIN emitted : emitted[k].request < upgraded.request
       /\ ~failed => upgraded.request <= m - Len(requests)

Dropped(queued) == {j \in DOMAIN queued : queued[j].dropped}

Accounted(m) ==
  ~failed => Len(emitted) + ((IF upgraded = NoExchange THEN 0 ELSE 1) + discarded)
               = (m - Len(requests)) + Cardinality(Dropped(requests))

State(m, x, y, at) ==
  /\ Types /\ Fed(x, y) /\ Queue(m) /\ Reading(m, x) /\ Replying(m, y, at)
  /\ Steering(y) /\ Handed(m) /\ Accounted(m)

HttpInv == \E m, x, y : \E at : State(m, x, y, at)

LEMMA ScriptIs ==
  ASSUME NEW s \in Scripts
  PROVE  /\ s \in Seq(Exchange) /\ Len(s) \in Nat /\ DOMAIN s = 1..Len(s)
         /\ \A i \in 1..Len(s) : /\ s[i] \in Exchange /\ s[i].body \in Nat
                                 /\ s[i].status = 101 => s[i].upgrade
                                 /\ s[i].reply = UntilClose => i = Len(s)
         /\ ClientWire(s) \in Seq(Tokens) /\ ServerWire(s) \in Seq(Tokens)
         /\ Len(ClientWire(s)) \in Nat /\ Len(ServerWire(s)) \in Nat
<1>1. s \in Seq(Exchange)
  BY ScriptsAssumption
<1>2. Len(s) \in Nat /\ DOMAIN s = 1..Len(s) /\ \A i \in 1..Len(s) : s[i] \in Exchange
  BY <1>1
<1>3. \A i \in 1..Len(s) : s[i].body \in Nat
  BY <1>2 DEF Exchange
<1>4. ASSUME NEW i \in 1..Len(s)
      PROVE  (s[i].status = 101 => s[i].upgrade) /\ (s[i].reply = UntilClose => i = Len(s))
  <2>1. i \in DOMAIN s
    BY <1>2
  <2>2. \A j \in DOMAIN s : /\ s[j].status = 101 => s[j].upgrade
                            /\ s[j].reply = UntilClose => j = Len(s)
    BY ScriptsAssumption, Zenon
  <2> QED
    BY <2>1, <2>2, Zenon
<1>5. ClientWire(s) \in Seq(Tokens) /\ ServerWire(s) \in Seq(Tokens)
  BY <1>1, ClientWireIs, ServerWireIs
<1>6. Len(ClientWire(s)) \in Nat /\ Len(ServerWire(s)) \in Nat
  BY <1>5
<1>7. \A i \in 1..Len(s) : /\ s[i] \in Exchange /\ s[i].body \in Nat
                           /\ s[i].status = 101 => s[i].upgrade
                           /\ s[i].reply = UntilClose => i = Len(s)
  BY <1>2, <1>3, <1>4, Zenon
<1> QED
  BY <1>1, <1>2, <1>5, <1>6, <1>7, Zenon

LEMMA InitState ==
  ASSUME Init
  PROVE  HttpInv
<1> DEFINE at == [k \in 1..1 |-> 0]
<1>1. PICK s \in Scripts : s = script
  BY DEF Init
<1>2. /\ s \in Seq(Exchange) /\ Len(s) \in Nat
      /\ ClientWire(s) \in Seq(Tokens) /\ ServerWire(s) \in Seq(Tokens)
      /\ Len(ClientWire(s)) \in Nat /\ Len(ServerWire(s)) \in Nat
  BY ScriptIs
<1>3. <<>> \in Seq(Tokens) /\ <<>> \in Seq(Messages) /\ <<>> \in Seq(Seq(Tokens)) /\ <<>> \in Seq(Exchanges)
      /\ Len(<<>>) = 0
  BY EmptySeq
<1>4. Types
  <2>1. c2s \in Seq(Tokens) /\ s2c \in Seq(Tokens) /\ rest \in Seq(Tokens) /\ upgradeClient \in Seq(Tokens)
    BY <1>1, <1>2, <1>3 DEF Init
  <2>2. requests \in Seq(Messages) /\ responses \in Seq(Seq(Tokens)) /\ emitted \in Seq(Exchanges)
    BY <1>3 DEF Init
  <2>3. request \in Decoders /\ response \in Decoders
    BY FreshIs DEF Init
  <2>4. phase \in Phases /\ responseClosed \in {"open", "clean", "unclean"}
    BY DEF Init, Phases
  <2>5. requestBytes = 0 /\ discarded = 0 /\ upgraded = NoExchange /\ script \in Scripts
    BY DEF Init
  <2>6. requestBytes \in Int /\ discarded \in Nat
    BY <2>5
  <2>7. clientUpgrade = FALSE /\ failed = FALSE /\ finishing = FALSE
    BY DEF Init
  <2>8. clientUpgrade \in BOOLEAN /\ failed \in BOOLEAN /\ finishing \in BOOLEAN
    BY <2>7
  <2> QED
    BY <2>1, <2>2, <2>3, <2>4, <2>5, <2>6, <2>8 DEF Types
<1>5. Fed(0, 0)
  <2>1. /\ SubSeq(ClientWire(s), 1, Len(ClientWire(s))) = ClientWire(s)
        /\ SubSeq(ServerWire(s), 1, Len(ServerWire(s))) = ServerWire(s)
    BY <1>2, SubSeqFull
  <2> QED
    BY <1>1, <1>2, <2>1 DEF Init, Fed, Slice
<1>6. Queue(0)
  BY <1>1, <1>2, <1>3 DEF Queue, Init
<1>7. Position(request) = 0 /\ Position(response) = 0 /\ request.consumed = 0 /\ response.consumed = 0
  BY FreshIs DEF Position, Init
<1>8. AskAt(s, 1) = 0 /\ ReplyAt(s, 1) = 0
  BY <1>2, ClientWireIs, ServerWireIs
<1>9. Reading(0, 0)
  <2>1. 0 + 1 = 1 /\ phase # "c2s"
    BY DEF Init
  <2>2. Asking(script, request, 1)
    BY FreshIs DEF Asking, Init
  <2> QED
    BY <1>1, <1>7, <1>8, <2>1, <2>2 DEF Reading
<1>10. Replying(0, 0, at)
  <2>1. Answering(script, response, 1)
    BY <1>1, <1>7, <1>8, FreshIs DEF Answering, Init
  <2>2. at \in [1..1 -> 0..Len(ServerWire(s))] /\ at[1] = 0
    BY <1>2
  <2>3. Len(responses) = 0 /\ Len(requests) = 0 /\ response.need = -1 /\ phase = "idle"
    BY <1>3, FreshIs DEF Init
  <2> HIDE DEF at
  <2>4. Backlog(0, at)
    BY <1>1, <1>7, <2>2, <2>3 DEF Backlog, Placed, Laid
  <2>5. (0 - Len(requests)) + 1 = 1
    BY <2>3
  <2> QED
    BY <2>1, <2>3, <2>4, <2>5 DEF Replying
<1>11. Steering(0)
  BY DEF Steering, Init
<1>12. Handed(0)
  BY <1>3 DEF Handed, Init
<1>13. Accounted(0)
  <2>1. Dropped(requests) = {}
    BY DEF Dropped, Init
  <2>2. Cardinality(Dropped(requests)) = 0
    BY <2>1, FS_EmptySet
  <2> QED
    BY <1>3, <2>2 DEF Accounted, Init
<1> HIDE DEF at
<1>14. State(0, 0, 0, at)
  BY <1>4, <1>5, <1>6, <1>9, <1>10, <1>11, <1>12, <1>13 DEF State
<1> QED
  BY <1>14 DEF HttpInv

-----------------------------------------------------------------------------
(* Bytes come in. *)

\* What an upgraded connection is given leaves it the exchange it was.
Grown(e, direction, bytes, b) ==
  [e EXCEPT ![direction] = AppendBounded(@, bytes, Limit), !.incomplete = b]

LEMMA UpgradedGrows ==
  ASSUME NEW s, NEW e \in Exchanges, Own(s, e), e.protocol = "websocket",
         NEW direction \in {"c2s", "s2c"}, NEW bytes \in Seq(Tokens),
         NEW b \in BOOLEAN
  PROVE  /\ Grown(e, direction, bytes, b) \in Exchanges /\ Own(s, Grown(e, direction, bytes, b))
         /\ Grown(e, direction, bytes, b).protocol = "websocket"
         /\ Grown(e, direction, bytes, b).request = e.request
<1> DEFINE e1 == Grown(e, direction, bytes, b)
<1>1. e.c2s \in Seq(Tokens) /\ e.s2c \in Seq(Tokens) /\ Limit \in Nat
  BY LimitsAssumption DEF Exchanges
<1>2. CASE direction = "c2s"
  <2>1. PICK t \in Seq(Tokens) : t = AppendBounded(e.c2s, bytes, Limit)
    BY <1>1, AppendBoundedIs
  <2>2. e1 = [e EXCEPT !.c2s = t, !.incomplete = b]
    BY <1>2, <2>1 DEF Grown
  <2>3. /\ e1 \in Exchanges /\ e1.request = e.request /\ e1.response = e.response
        /\ e1.requestOffset = e.requestOffset /\ e1.responseOffset = e.responseOffset
        /\ e1.protocol = e.protocol
    BY <2>2 DEF Exchanges
  <2> HIDE DEF e1
  <2>4. Own(s, e1)
    BY <2>3 DEF Own
  <2> QED
    BY <2>3, <2>4 DEF e1
<1>3. CASE direction = "s2c"
  <2>1. PICK t \in Seq(Tokens) : t = AppendBounded(e.s2c, bytes, Limit)
    BY <1>1, AppendBoundedIs
  <2>2. e1 = [e EXCEPT !.s2c = t, !.incomplete = b]
    BY <1>3, <2>1 DEF Grown
  <2>3. /\ e1 \in Exchanges /\ e1.request = e.request /\ e1.response = e.response
        /\ e1.requestOffset = e.requestOffset /\ e1.responseOffset = e.responseOffset
        /\ e1.protocol = e.protocol
    BY <2>2 DEF Exchanges
  <2> HIDE DEF e1
  <2>4. Own(s, e1)
    BY <2>3 DEF Own
  <2> QED
    BY <2>3, <2>4 DEF e1
<1> QED
  BY <1>2, <1>3

LEMMA NotNoExchange ==
  ASSUME NEW e \in Exchanges
  PROVE  e # NoExchange
<1>1. "protocol" \in DOMAIN e /\ "protocol" \notin DOMAIN NoExchange
  BY DEF Exchanges, NoExchange
<1> QED
  BY <1>1

\* The sizes that the proofs below add and compare.
LEMMA StateTypes ==
  ASSUME NEW m, NEW x, NEW y, NEW at, State(m, x, y, at)
  PROVE  /\ script \in Scripts /\ m \in Nat /\ x \in Nat /\ y \in Nat
         /\ Len(requests) \in Nat /\ Len(responses) \in Nat
         /\ ClientWire(script) \in Seq(Tokens) /\ ServerWire(script) \in Seq(Tokens)
         /\ Len(ClientWire(script)) \in Nat /\ Len(ServerWire(script)) \in Nat
         /\ x \in 0..Len(ClientWire(script)) /\ y \in 0..Len(ServerWire(script))
         /\ Len(script) \in Nat
<1>1. script \in Scripts /\ requests \in Seq(Messages) /\ responses \in Seq(Seq(Tokens))
  BY DEF State, Types
<1>2. Len(requests) \in Nat /\ Len(responses) \in Nat
  BY <1>1
<1>3. /\ Len(script) \in Nat /\ ClientWire(script) \in Seq(Tokens) /\ ServerWire(script) \in Seq(Tokens)
      /\ Len(ClientWire(script)) \in Nat /\ Len(ServerWire(script)) \in Nat
  BY <1>1, ScriptIs
<1>4. x \in 0..Len(ClientWire(script)) /\ y \in 0..Len(ServerWire(script))
  BY DEF State, Fed
<1>5. m \in Nat
  BY DEF State, Queue
<1>6. x \in Nat /\ y \in Nat
  BY <1>3, <1>4
<1> QED
  BY <1>1, <1>2, <1>3, <1>4, <1>5, <1>6

\* The first n unread bytes of a wire.
LEMMA ReadAhead ==
  ASSUME NEW T, NEW w \in Seq(T), NEW a \in 0..Len(w), NEW n \in Nat \ {0},
         n <= Len(Slice(w, a, Len(w)))
  PROVE  /\ a + n \in 0..Len(w) /\ a + n \in a..Len(w)
         /\ Chunk(Slice(w, a, Len(w)), n) = Slice(w, a, a + n)
         /\ Unread(Slice(w, a, Len(w)), n) = Slice(w, a + n, Len(w))
         /\ Slice(w, a, a + n) \in Seq(T) /\ Slice(w, a + n, Len(w)) \in Seq(T)
<1>1. Len(w) \in Nat /\ a \in Nat /\ Len(w) \in a..Len(w)
  OBVIOUS
<1>2. n <= Len(w) - a
  BY <1>1, SliceIs
<1>3. n \in 0..(Len(w) - a) /\ a + n \in 0..Len(w) /\ a + n \in a..Len(w) /\ Len(w) \in (a + n)..Len(w)
  BY <1>1, <1>2
<1>4. /\ SubSeq(Slice(w, a, Len(w)), 1, n) = Slice(w, a, a + n)
      /\ SubSeq(Slice(w, a, Len(w)), n + 1, Len(Slice(w, a, Len(w)))) = Slice(w, a + n, Len(w))
  <2>1. PICK b \in a..Len(w) : b = Len(w)
    BY <1>1
  <2>2. n \in 0..(b - a)
    BY <1>3, <2>1
  <2>3. /\ SubSeq(Slice(w, a, b), 1, n) = Slice(w, a, a + n)
        /\ SubSeq(Slice(w, a, b), n + 1, Len(Slice(w, a, b))) = Slice(w, a + n, b)
    BY <2>2, SliceCut
  <2> QED
    BY <2>1, <2>3
<1> QED
  BY <1>1, <1>3, <1>4, SliceIs DEF Chunk, Unread

LEMMA FeedClientState ==
  ASSUME NEW m, NEW x, NEW y, NEW at, State(m, x, y, at),
         NEW n \in 1..ChunkMax, FeedClient(n)
  PROVE  State(m, x + n, y, at)'
<1>1. PICK s \in Scripts : s = script
  BY DEF State, Types
<1>2. /\ ClientWire(s) \in Seq(Tokens) /\ Len(ClientWire(s)) \in Nat
      /\ x \in 0..Len(ClientWire(s)) /\ x \in Nat /\ n \in Nat \ {0}
  BY <1>1, StateTypes, LimitsAssumption
<1>3. c2s = Slice(ClientWire(s), x, Len(ClientWire(s)))
  BY <1>1 DEF State, Fed
<1>4. /\ x + n \in 0..Len(ClientWire(s)) /\ x + n \in x..Len(ClientWire(s))
      /\ Chunk(c2s, n) = Slice(ClientWire(s), x, x + n)
      /\ Unread(c2s, n) = Slice(ClientWire(s), x + n, Len(ClientWire(s)))
      /\ Chunk(c2s, n) \in Seq(Tokens) /\ Unread(c2s, n) \in Seq(Tokens)
  BY <1>2, <1>3, ReadAhead DEF FeedClient
<1>5. /\ phase = "idle" /\ ~finishing /\ c2s' = Unread(c2s, n) /\ Feed("c2s", Chunk(c2s, n))
      /\ UNCHANGED <<script, s2c, request, response, requests, requestBytes, responses,
                     responseBytes, responseClosed, clientUpgrade, upgradeClient, failed,
                     discarded, emitted>>
  BY DEF FeedClient, queue, backlog
<1>6. Fed(x + n, y)'
  BY <1>1, <1>4, <1>5 DEF State, Fed
<1>7. Queue(m)'
  BY <1>5 DEF State, Queue
<1>8. responseClosed # "unclean"
  BY <1>5 DEF State, Steering
<1>9. CASE failed
  <2>1. UNCHANGED <<upgraded, phase, rest, finishing>>
    BY <1>5, <1>9 DEF Feed, control
  <2>2. Types'
    BY <1>4, <1>5, <2>1 DEF State, Types
  <2>3. Reading(m, x + n)' /\ Replying(m, y, at)'
    BY <1>5, <1>9 DEF Reading, Replying, Live
  <2>4. Steering(y)' /\ Handed(m)' /\ Accounted(m)'
    BY <1>5, <2>1 DEF State, Steering, Handed, Accounted
  <2> QED
    BY <1>6, <1>7, <2>2, <2>3, <2>4 DEF State
<1>10. CASE ~failed /\ upgraded # NoExchange
  <2>1. AppendUpgraded("c2s", Chunk(c2s, n)) /\ UNCHANGED <<phase, rest, finishing>>
    BY <1>5, <1>10 DEF Feed, control
  <2>2. /\ requests = <<>> /\ clientUpgrade /\ upgraded \in Exchanges
        /\ Own(s, upgraded) /\ upgraded.protocol = "websocket"
    BY <1>1, <1>10 DEF State, Steering, Types, Handed
  <2>3. PICK b \in BOOLEAN : upgraded' = Grown(upgraded, "c2s", Chunk(c2s, n), b)
    <3>1. upgraded.incomplete \in BOOLEAN
      BY <2>2 DEF Exchanges
    <3> QED
      BY <2>1, <3>1 DEF AppendUpgraded, Grown
  <2>4. /\ upgraded' \in Exchanges /\ Own(s, upgraded') /\ upgraded'.protocol = "websocket"
        /\ upgraded'.request = upgraded.request
    <3>1. "c2s" \in {"c2s", "s2c"}
      OBVIOUS
    <3> QED
      BY <1>4, <2>2, <2>3, <3>1, UpgradedGrows
  <2>5. upgraded' # NoExchange
    BY <2>4, NotNoExchange
  <2>6. Types'
    BY <1>4, <1>5, <2>1, <2>4 DEF State, Types
  <2>7. Reading(m, x + n)' /\ Replying(m, y, at)'
    BY <1>5, <2>2 DEF Reading, Replying, Live
  <2>8. Steering(y)'
    BY <1>5, <2>1, <2>2 DEF State, Steering
  <2>9. Handed(m)'
    BY <1>1, <1>5, <1>10, <2>4 DEF State, Handed
  <2>10. Accounted(m)'
    BY <1>5, <1>10, <2>5 DEF State, Accounted
  <2> QED
    BY <1>6, <1>7, <2>6, <2>7, <2>8, <2>9, <2>10 DEF State
<1>11. CASE ~failed /\ upgraded = NoExchange
  <2>1. phase' = "c2s" /\ rest' = Chunk(c2s, n) /\ UNCHANGED <<upgraded, finishing>>
    BY <1>5, <1>11 DEF Feed
  <2>2. Types'
    BY <1>4, <1>5, <2>1 DEF State, Types, Phases
  <2>3. Reading(m, x + n)'
    <3>1. ASSUME ~clientUpgrade
          PROVE  Position(request) = x
      BY <1>5, <1>11, <3>1 DEF State, Reading
    <3>2. rest' = Slice(ClientWire(s), x, x + n) /\ x <= x + n
      BY <1>2, <1>4, <2>1
    <3> QED
      BY <1>1, <1>5, <1>11, <2>1, <3>1, <3>2 DEF State, Reading, Position
  <2>4. Replying(m, y, at)'
    <3>1. Live' => Live
      BY <1>5, <1>8 DEF Live
    <3>2. Live => Backlog(y, at)'
      BY <1>5, <2>1 DEF State, Replying, Backlog, Placed, Laid, Position
    <3> QED
      BY <1>5, <3>1, <3>2 DEF State, Replying
  <2>5. Steering(y)'
    BY <1>5, <1>11, <2>1 DEF State, Steering
  <2>6. Handed(m)' /\ Accounted(m)'
    BY <1>5, <2>1 DEF State, Handed, Accounted
  <2> QED
    BY <1>6, <1>7, <2>2, <2>3, <2>4, <2>5, <2>6 DEF State
<1> QED
  BY <1>9, <1>10, <1>11

LEMMA FeedServerState ==
  ASSUME NEW m, NEW x, NEW y, NEW at, State(m, x, y, at),
         NEW n \in 1..ChunkMax, FeedServer(n)
  PROVE  State(m, x, y + n, at)'
<1>1. PICK s \in Scripts : s = script
  BY DEF State, Types
<1>2. /\ ServerWire(s) \in Seq(Tokens) /\ Len(ServerWire(s)) \in Nat
      /\ y \in 0..Len(ServerWire(s)) /\ y \in Nat /\ n \in Nat \ {0}
  BY <1>1, StateTypes, LimitsAssumption
<1>3. s2c = Slice(ServerWire(s), y, Len(ServerWire(s)))
  BY <1>1 DEF State, Fed
<1>4. /\ y + n \in 0..Len(ServerWire(s)) /\ y + n \in y..Len(ServerWire(s))
      /\ Chunk(s2c, n) = Slice(ServerWire(s), y, y + n)
      /\ Unread(s2c, n) = Slice(ServerWire(s), y + n, Len(ServerWire(s)))
      /\ Chunk(s2c, n) \in Seq(Tokens) /\ Unread(s2c, n) \in Seq(Tokens)
  BY <1>2, <1>3, ReadAhead DEF FeedServer
<1>5. /\ phase = "idle" /\ ~finishing /\ s2c' = Unread(s2c, n) /\ Feed("s2c", Chunk(s2c, n))
      /\ responseClosed = "open"
      /\ UNCHANGED <<script, c2s, request, response, requests, requestBytes, responses,
                     responseBytes, responseClosed, clientUpgrade, upgradeClient, failed,
                     discarded, emitted>>
  BY DEF FeedServer, queue, backlog
<1>6. Fed(x, y + n)'
  BY <1>1, <1>4, <1>5 DEF State, Fed
<1>7. Queue(m)'
  BY <1>5 DEF State, Queue
<1>8. CASE failed
  <2>1. UNCHANGED <<upgraded, phase, rest, finishing>>
    BY <1>5, <1>8 DEF Feed, control
  <2>2. Types'
    BY <1>4, <1>5, <2>1 DEF State, Types
  <2>3. Reading(m, x)' /\ Replying(m, y + n, at)'
    BY <1>5, <1>8 DEF Reading, Replying, Live
  <2>4. Steering(y + n)' /\ Handed(m)' /\ Accounted(m)'
    BY <1>5, <2>1 DEF State, Steering, Handed, Accounted
  <2> QED
    BY <1>6, <1>7, <2>2, <2>3, <2>4 DEF State
<1>9. CASE ~failed /\ upgraded # NoExchange
  <2>1. AppendUpgraded("s2c", Chunk(s2c, n)) /\ UNCHANGED <<phase, rest, finishing>>
    BY <1>5, <1>9 DEF Feed, control
  <2>2. /\ requests = <<>> /\ clientUpgrade /\ upgraded \in Exchanges
        /\ Own(s, upgraded) /\ upgraded.protocol = "websocket"
    BY <1>1, <1>9 DEF State, Steering, Types, Handed
  <2>3. PICK b \in BOOLEAN : upgraded' = Grown(upgraded, "s2c", Chunk(s2c, n), b)
    <3>1. upgraded.incomplete \in BOOLEAN
      BY <2>2 DEF Exchanges
    <3> QED
      BY <2>1, <3>1 DEF AppendUpgraded, Grown
  <2>4. /\ upgraded' \in Exchanges /\ Own(s, upgraded') /\ upgraded'.protocol = "websocket"
        /\ upgraded'.request = upgraded.request
    <3>1. "s2c" \in {"c2s", "s2c"}
      OBVIOUS
    <3> QED
      BY <1>4, <2>2, <2>3, <3>1, UpgradedGrows
  <2>5. upgraded' # NoExchange
    BY <2>4, NotNoExchange
  <2>6. Types'
    BY <1>4, <1>5, <2>1, <2>4 DEF State, Types
  <2>7. Reading(m, x)' /\ Replying(m, y + n, at)'
    BY <1>5, <2>2 DEF Reading, Replying, Live
  <2>8. Steering(y + n)'
    BY <1>5, <2>1, <2>2 DEF State, Steering
  <2>9. Handed(m)'
    BY <1>1, <1>5, <1>9, <2>4 DEF State, Handed
  <2>10. Accounted(m)'
    BY <1>5, <1>9, <2>5 DEF State, Accounted
  <2> QED
    BY <1>6, <1>7, <2>6, <2>7, <2>8, <2>9, <2>10 DEF State
<1>10. CASE ~failed /\ upgraded = NoExchange
  <2>1. phase' = "s2c" /\ rest' = Chunk(s2c, n) /\ UNCHANGED <<upgraded, finishing>>
    BY <1>5, <1>10 DEF Feed
  <2>2. Types'
    BY <1>4, <1>5, <2>1 DEF State, Types, Phases
  <2>3. Reading(m, x)'
    BY <1>5, <2>1 DEF State, Reading, Position
  <2>4. Replying(m, y + n, at)'
    <3>1. Live' => Live
      BY <1>5 DEF Live
    <3>2. rest' = Slice(ServerWire(s), y, y + n) /\ y <= y + n
      BY <1>2, <1>4, <2>1
    <3>3. Live => Backlog(y + n, at)'
      BY <1>1, <1>5, <2>1, <3>2 DEF State, Replying, Backlog, Placed, Laid, Position
    <3> QED
      BY <1>5, <3>1, <3>3 DEF State, Replying
  <2>5. Steering(y + n)'
    BY <1>5, <1>10, <2>1 DEF State, Steering
  <2>6. Handed(m)' /\ Accounted(m)'
    BY <1>5, <2>1 DEF State, Handed, Accounted
  <2> QED
    BY <1>6, <1>7, <2>2, <2>3, <2>4, <2>5, <2>6 DEF State
<1> QED
  BY <1>8, <1>9, <1>10

-----------------------------------------------------------------------------
(* The steps between the loops. *)

LEMMA ChunkDoneState ==
  ASSUME NEW m, NEW x, NEW y, NEW at, State(m, x, y, at), ChunkDone
  PROVE  State(m, x, y, at)'
<1>1. PICK s \in Scripts : s = script
  BY DEF State, Types
<1>2. /\ ServerWire(s) \in Seq(Tokens) /\ Len(ServerWire(s)) \in Nat
      /\ ClientWire(s) \in Seq(Tokens) /\ Len(ClientWire(s)) \in Nat
      /\ x \in 0..Len(ClientWire(s)) /\ y \in 0..Len(ServerWire(s)) /\ Len(responses) \in Nat
  BY <1>1, StateTypes
<1>3. /\ phase \in {"c2s", "s2c", "backlog"} /\ (rest = <<>> \/ failed)
      /\ phase' = "flush" /\ rest' = <<>>
      /\ UNCHANGED <<script, c2s, s2c, request, response, requests, requestBytes, responses,
                     responseBytes, responseClosed, clientUpgrade, upgradeClient, upgraded,
                     failed, discarded, finishing, emitted>>
  BY DEF ChunkDone, wire, queue, backlog, upgrade
<1>4. Types'
  <2>1. <<>> \in Seq(Tokens) /\ "flush" \in Phases
    BY EmptySeq DEF Phases
  <2> QED
    BY <1>3, <2>1 DEF State, Types
<1>5. Fed(x, y)' /\ Queue(m)' /\ Handed(m)' /\ Accounted(m)'
  BY <1>3 DEF State, Fed, Queue, Handed, Accounted
<1>6. request \in Decoders /\ request.consumed \in Nat /\ request.message.total \in Nat
      /\ response \in Decoders /\ response.consumed \in Nat /\ response.message.total \in Nat
  BY DEF State, Types, Decoders, Messages
<1>7. Reading(m, x)'
  <2>1. ASSUME ~failed, ~clientUpgrade
        PROVE  Position(request) = x
    <3>1. CASE phase = "c2s"
      <4>1. PICK p \in Nat : p = Position(request)
        BY <1>6 DEF Position
      <4>2. p <= x /\ Slice(ClientWire(s), p, x) = <<>>
        BY <1>1, <1>3, <2>1, <3>1, <4>1 DEF State, Reading
      <4>3. p \in 0..Len(ClientWire(s)) /\ x \in p..Len(ClientWire(s))
        BY <1>2, <4>2
      <4> QED
        BY <1>2, <4>1, <4>2, <4>3, SliceEmpty
    <3>2. CASE phase # "c2s"
      BY <2>1, <3>2 DEF State, Reading
    <3> QED
      BY <3>1, <3>2
  <2> QED
    BY <1>3, <2>1 DEF State, Reading, Position
<1>8. Live' => Live
  BY <1>3 DEF Live
<1>9. ASSUME Live
      PROVE  Backlog(y, at)'
  <2>1. Backlog(y, at) /\ ~failed
    BY <1>9 DEF State, Replying, Live
  <2>2. PICK w \in Seq(Tokens), k \in Nat : w = ServerWire(s) /\ k = Len(responses)
    BY <1>2
  <2>3. at \in [1..(k + 1) -> 0..Len(w)] /\ at[1] \in 0..Len(w) /\ at[k + 1] \in 0..Len(w)
    BY <1>1, <2>1, <2>2 DEF Backlog, Placed, Laid
  <2>4. Position(response) = at[1]
    <3>1. CASE phase = "backlog"
      <4>1. PICK p \in Nat : p = Position(response)
        BY <1>6 DEF Position
      <4>2. p <= at[1] /\ Slice(w, p, at[1]) = <<>>
        BY <1>1, <1>3, <2>1, <2>2, <3>1, <4>1 DEF Backlog, Placed
      <4>3. p \in 0..Len(w) /\ at[1] \in p..Len(w)
        BY <2>3, <4>2
      <4> QED
        BY <4>1, <4>2, <4>3, SliceEmpty
    <3>2. CASE phase # "backlog"
      BY <2>1, <3>2 DEF Backlog, Placed
    <3> QED
      BY <3>1, <3>2
  <2>5. at[k + 1] = y
    <3>1. CASE phase = "s2c"
      <4>1. at[k + 1] <= y /\ Slice(w, at[k + 1], y) = <<>>
        BY <1>1, <1>3, <2>1, <2>2, <3>1 DEF Backlog, Placed
      <4>2. y \in at[k + 1]..Len(w)
        BY <1>2, <2>2, <2>3, <4>1
      <4> QED
        BY <2>3, <4>1, <4>2, SliceEmpty
    <3>2. CASE phase # "s2c"
      BY <2>1, <2>2, <3>2 DEF Backlog, Placed
    <3> QED
      BY <3>1, <3>2
  <2> QED
    BY <1>3, <2>1, <2>2, <2>4, <2>5 DEF Backlog, Placed, Laid, Position
<1>10. Replying(m, y, at)'
  BY <1>3, <1>8, <1>9 DEF State, Replying
<1>11. Steering(y)'
  BY <1>3 DEF State, Steering
<1> QED
  BY <1>4, <1>5, <1>7, <1>10, <1>11 DEF State

LEMMA CloseResponseState ==
  ASSUME NEW m, NEW x, NEW y, NEW at, State(m, x, y, at), CloseResponse
  PROVE  State(m, x, y, at)'
<1>1. PICK s \in Scripts : s = script
  BY DEF State, Types
<1>2. ServerWire(s) \in Seq(Tokens) /\ Len(ServerWire(s)) \in Nat /\ y \in 0..Len(ServerWire(s))
  BY <1>1, StateTypes
<1>3. /\ phase = "idle" /\ ~finishing /\ responseClosed = "open" /\ s2c = <<>>
      /\ responseClosed' = "clean" /\ phase' = "flush"
      /\ UNCHANGED <<script, c2s, s2c, request, response, requests, requestBytes, responses,
                     responseBytes, clientUpgrade, upgradeClient, upgraded,
                     failed, discarded, rest, finishing, emitted>>
  BY DEF CloseResponse, wire, queue, backlog, upgrade
<1>4. Types'
  BY <1>3 DEF State, Types, Phases
<1>5. Fed(x, y)' /\ Queue(m)' /\ Handed(m)' /\ Accounted(m)'
  BY <1>3 DEF State, Fed, Queue, Handed, Accounted
<1>6. Reading(m, x)'
  BY <1>3 DEF State, Reading, Position
<1>7. Replying(m, y, at)'
  <2>1. Live' => Live
    BY <1>3 DEF Live
  <2>2. Live => Backlog(y, at)'
    BY <1>3 DEF State, Replying, Backlog, Placed, Laid, Position
  <2> QED
    BY <1>3, <2>1, <2>2 DEF State, Replying
<1>8. y = Len(ServerWire(s))
  <2>1. PICK n \in Nat : n = Len(ServerWire(s))
    BY <1>2
  <2>2. Slice(ServerWire(s), y, Len(ServerWire(s))) = <<>>
    BY <1>1, <1>3 DEF State, Fed
  <2>3. Slice(ServerWire(s), y, n) = <<>> /\ y \in 0..n /\ n \in y..Len(ServerWire(s))
    BY <1>2, <2>1, <2>2
  <2> QED
    BY <1>2, <2>1, <2>3, SliceEmpty
<1>9. Steering(y)'
  BY <1>1, <1>3, <1>8 DEF State, Steering
<1> QED
  BY <1>4, <1>5, <1>6, <1>7, <1>9 DEF State

LEMMA FinishState ==
  ASSUME NEW m, NEW x, NEW y, NEW at, State(m, x, y, at), Finish
  PROVE  State(m, x, y, at)'
<1>1. /\ phase = "idle" /\ ~finishing /\ finishing' = TRUE /\ phase' = "flush"
      /\ responseClosed' = IF responseClosed = "clean" THEN "clean" ELSE "unclean"
      /\ UNCHANGED <<script, c2s, s2c, request, response, requests, requestBytes, responses,
                     responseBytes, clientUpgrade, upgradeClient, upgraded,
                     failed, discarded, rest, emitted>>
  BY DEF Finish, wire, queue, backlog, upgrade
<1>2. responseClosed # "unclean"
  BY <1>1 DEF State, Steering
<1>3. Types'
  BY <1>1 DEF State, Types, Phases
<1>4. Fed(x, y)' /\ Queue(m)' /\ Handed(m)' /\ Accounted(m)'
  BY <1>1 DEF State, Fed, Queue, Handed, Accounted
<1>5. Reading(m, x)'
  BY <1>1 DEF State, Reading, Position
<1>6. Replying(m, y, at)'
  <2>1. Live' => Live
    BY <1>1, <1>2 DEF Live
  <2>2. Live => Backlog(y, at)'
    BY <1>1 DEF State, Replying, Backlog, Placed, Laid, Position
  <2> QED
    BY <1>1, <2>1, <2>2 DEF State, Replying
<1>7. Steering(y)'
  BY <1>1, <1>2 DEF State, Steering
<1> QED
  BY <1>3, <1>4, <1>5, <1>6, <1>7 DEF State

\* The upgraded connection is the last exchange that is handed on.
LEMMA EmitUpgradedState ==
  ASSUME NEW m, NEW x, NEW y, NEW at, State(m, x, y, at), EmitUpgraded
  PROVE  State(m, x, y, at)'
<1>1. PICK s \in Scripts : s = script
  BY DEF State, Types
<1>2. /\ phase = "idle" /\ finishing /\ upgraded # NoExchange /\ upgraded' = NoExchange
      /\ UNCHANGED <<script, c2s, s2c, request, response, requests, requestBytes, responses,
                     responseBytes, responseClosed, clientUpgrade, upgradeClient,
                     failed, discarded, phase, rest, finishing>>
  BY DEF EmitUpgraded, wire, queue, backlog, control
<1>3. PICK connection \in BOOLEAN :
        emitted' = Append(emitted, [upgraded EXCEPT !.incomplete = @ \/ connection])
  BY DEF EmitUpgraded
<1>4. /\ upgraded \in Exchanges /\ Own(s, upgraded) /\ upgraded.protocol = "websocket"
      /\ \A k \in DOMAIN emitted : emitted[k].request < upgraded.request
      /\ ~failed => upgraded.request <= m - Len(requests)
  BY <1>1, <1>2 DEF State, Types, Handed
<1>5. PICK e \in Exchanges : /\ e = [upgraded EXCEPT !.incomplete = @ \/ connection]
                             /\ e.request = upgraded.request /\ Own(s, e)
  <2>1. PICK b \in BOOLEAN : b = (upgraded.incomplete \/ connection)
    OBVIOUS
  <2>2. PICK e : e = [upgraded EXCEPT !.incomplete = b]
    OBVIOUS
  <2>3. /\ e \in Exchanges /\ e.request = upgraded.request /\ e.response = upgraded.response
        /\ e.requestOffset = upgraded.requestOffset /\ e.responseOffset = upgraded.responseOffset
        /\ e.protocol = "websocket"
    BY <1>4, <2>2 DEF Exchanges
  <2>4. Own(s, e)
    BY <1>4, <2>3 DEF Own
  <2> QED
    BY <2>1, <2>2, <2>3, <2>4
<1>6. PICK w \in Seq(Exchanges), v \in Seq(Exchanges) : w = emitted /\ v = emitted' /\ v = Append(w, e)
  <2>1. emitted \in Seq(Exchanges)
    BY DEF State, Types
  <2>2. emitted' = Append(emitted, e)
    BY <1>3, <1>5
  <2>3. Append(emitted, e) \in Seq(Exchanges)
    BY <2>1
  <2> QED
    BY <2>1, <2>2, <2>3
<1>7. /\ Len(w) \in Nat /\ DOMAIN w = 1..Len(w) /\ DOMAIN v = 1..(Len(w) + 1) /\ Len(v) = Len(w) + 1
      /\ \A i \in DOMAIN w : v[i] = w[i]
      /\ v[Len(w) + 1] = e
  BY <1>6, AppendedIs
<1>8. Types'
  <2>1. v \in Seq(Exchanges) /\ emitted' = v
    BY <1>6
  <2> QED
    BY <1>2, <2>1 DEF State, Types
<1>9. Fed(x, y)' /\ Queue(m)' /\ Reading(m, x)'
  BY <1>2 DEF State, Fed, Queue, Reading, Position
<1>10. Replying(m, y, at)'
  BY <1>2 DEF State, Replying, Live, Backlog, Placed, Laid, Position
<1>11. Steering(y)'
  BY <1>2 DEF State, Steering
<1>12. Handed(m)'
  <2>1. /\ \A k \in DOMAIN w : Own(s, w[k]) /\ w[k].request < e.request
        /\ \A j, k \in DOMAIN w : j < k => w[j].request < w[k].request
        /\ ~failed => \A k \in DOMAIN w : w[k].request <= m - Len(requests)
        /\ ~failed => e.request <= m - Len(requests)
    BY <1>1, <1>4, <1>5, <1>6 DEF State, Handed
  <2>2. \A k \in DOMAIN v : Own(s, v[k])
    BY <1>5, <1>7, <2>1
  <2>3. \A j, k \in DOMAIN v : j < k => v[j].request < v[k].request
    BY <1>7, <2>1
  <2>4. ~failed => \A k \in DOMAIN v : v[k].request <= m - Len(requests)
    BY <1>7, <2>1
  <2> QED
    BY <1>1, <1>2, <1>6, <2>2, <2>3, <2>4 DEF Handed
<1>13. Accounted(m)'
  <2>1. ASSUME ~failed
        PROVE  Len(v) + (0 + discarded) = (m - Len(requests)) + Cardinality(Dropped(requests))
    <3>1. Len(w) + (1 + discarded) = (m - Len(requests)) + Cardinality(Dropped(requests))
      BY <1>2, <1>6, <2>1 DEF State, Accounted
    <3>2. discarded \in Nat
      BY DEF State, Types
    <3> QED
      BY <1>7, <3>1, <3>2
  <2> QED
    BY <1>2, <1>6, <2>1 DEF Accounted
<1> QED
  BY <1>8, <1>9, <1>10, <1>11, <1>12, <1>13 DEF State

-----------------------------------------------------------------------------
(* The backlog. *)

LEMMA FlushChunkState ==
  ASSUME NEW m, NEW x, NEW y, NEW at, State(m, x, y, at), FlushChunk
  PROVE  \E at1 : State(m, x, y, at1)'
<1>1. PICK s \in Scripts : s = script
  BY DEF State, Types
<1>2. /\ phase = "flush" /\ MayFlush /\ responses # <<>> /\ phase' = "backlog"
      /\ rest' = Head(responses) /\ responses' = Tail(responses)
      /\ UNCHANGED <<script, c2s, s2c, request, response, requests, requestBytes,
                     responseClosed, clientUpgrade, upgradeClient, upgraded,
                     failed, discarded, finishing, emitted>>
  BY DEF FlushChunk, wire, queue, upgrade
<1>20. PICK q \in Seq(Seq(Tokens)) : q = responses
  BY DEF State, Types
<1>21. /\ Tail(q) \in Seq(Seq(Tokens)) /\ Len(Tail(q)) = Len(q) - 1 /\ Len(q) \in Nat \ {0}
       /\ Head(q) = q[1] /\ Head(q) \in Seq(Tokens)
       /\ \A i \in DOMAIN Tail(q) : i + 1 \in DOMAIN q /\ Tail(q)[i] = q[i + 1]
  BY <1>2, <1>20, TailOf
<1>22. PICK r \in Seq(Seq(Tokens)) : r = Tail(q)
  BY <1>21
<1>23. PICK n \in Nat : n = Len(r)
  OBVIOUS
<1>3. /\ q = responses /\ r = responses' /\ n = Len(r) /\ Len(q) = n + 1
      /\ Head(q) = q[1] /\ Head(q) \in Seq(Tokens)
      /\ \A i \in 1..n : r[i] = q[i + 1]
  <2>1. DOMAIN r = 1..n /\ Len(q) = n + 1
    BY <1>21, <1>22, <1>23
  <2> QED
    BY <1>2, <1>20, <1>21, <1>22, <1>23, <2>1
<1>4. Types'
  <2>1. rest' \in Seq(Tokens) /\ responses' \in Seq(Seq(Tokens)) /\ "backlog" \in Phases
    BY <1>2, <1>3 DEF Phases
  <2> QED
    BY <1>2, <2>1 DEF State, Types
<1>5. Fed(x, y)' /\ Queue(m)' /\ Reading(m, x)' /\ Handed(m)' /\ Accounted(m)'
  BY <1>2 DEF State, Fed, Queue, Reading, Position, Handed, Accounted
<1>6. Steering(y)'
  BY <1>2 DEF State, Steering
<1> DEFINE at1 == [j \in 1..(n + 1) |-> at[j + 1]]
<1>7. Replying(m, y, at1)'
  <2>1. Live' => Live
    BY <1>2 DEF Live
  <2>2. ASSUME Live
        PROVE  Backlog(y, at1)'
    <3>1. PICK W \in Seq(Tokens) : W = ServerWire(s)
      BY <1>1, StateTypes
    <3>2. Backlog(y, at)
      BY <2>2 DEF State, Replying
    <3>3. /\ at \in [1..((n + 1) + 1) -> 0..Len(W)]
          /\ \A j \in 1..(n + 1) : at[j] <= at[j + 1] /\ q[j] = Slice(W, at[j], at[j + 1])
      BY <1>1, <1>3, <3>1, <3>2 DEF Backlog, Placed, Laid
    <3>4. /\ Position(response) = at[1] /\ at[(n + 1) + 1] = y
      BY <1>2, <1>3, <3>2 DEF Backlog, Placed
    <3>5. at1 \in [1..(n + 1) -> 0..Len(W)] /\ at1[1] = at[2] /\ at1[n + 1] = at[(n + 1) + 1]
      <4>1. \A j \in 1..(n + 1) : j + 1 \in 1..((n + 1) + 1)
        OBVIOUS
      <4>2. 1 \in 1..(n + 1) /\ n + 1 \in 1..(n + 1) /\ 1 + 1 = 2
        OBVIOUS
      <4> QED
        BY <3>3, <4>1, <4>2
    <3>6. ASSUME NEW j \in 1..n
          PROVE  at1[j] <= at1[j + 1] /\ r[j] = Slice(W, at1[j], at1[j + 1])
      <4>1. j \in 1..(n + 1) /\ j + 1 \in 1..(n + 1)
        OBVIOUS
      <4>2. at1[j] = at[j + 1] /\ at1[j + 1] = at[(j + 1) + 1] /\ r[j] = q[j + 1]
        BY <1>3, <4>1
      <4> HIDE DEF at1
      <4> QED
        BY <3>3, <4>1, <4>2
    <3>7. Position(response) <= at1[1] /\ rest' = Slice(W, Position(response), at1[1])
      <4>1. 1 \in 1..(n + 1) /\ 1 + 1 = 2
        OBVIOUS
      <4>2. at[1] <= at[2] /\ q[1] = Slice(W, at[1], at[2])
        BY <3>3, <4>1
      <4> HIDE DEF at1
      <4> QED
        BY <1>2, <1>3, <3>4, <3>5, <4>2
    <3> HIDE DEF at1
    <3>8. Laid(s, r, at1)
      BY <1>1, <1>2, <1>3, <3>1, <3>5, <3>6 DEF Laid
    <3> QED
      BY <1>1, <1>2, <1>3, <3>1, <3>4, <3>5, <3>7, <3>8 DEF Backlog, Placed, Position
  <2> HIDE DEF at1
  <2> QED
    BY <1>2, <2>1, <2>2 DEF State, Replying
<1> HIDE DEF at1
<1>8. State(m, x, y, at1)'
  BY <1>4, <1>5, <1>6, <1>7 DEF State
<1> QED
  BY <1>8

-----------------------------------------------------------------------------
(* The requests. *)

\* A message has been read so far as to have its head.
Read(s, decoder, i) ==
  /\ decoder \in Decoders /\ i \in DOMAIN s
  /\ decoder.consumed = AskAt(s, i) /\ decoder.need >= 0 /\ decoder.message.total > 0
  /\ decoder.message.total + decoder.need = 1 + s[i].body
  /\ decoder.message.head = Token("head", i) /\ s[i].method # "bad"
  /\ ~decoder.message.dropped =>
        decoder.message.bytes = Slice(ClientWire(s), decoder.consumed,
                                      decoder.consumed + decoder.message.total)

\* Where the request lies on the wire.
LEMMA AskSlice ==
  ASSUME NEW s \in Scripts, NEW i \in 1..Len(s)
  PROVE  /\ AskAt(s, i) \in Nat /\ s[i].body \in Nat
         /\ AskAt(s, i) + (1 + s[i].body) <= Len(ClientWire(s))
         /\ Slice(ClientWire(s), AskAt(s, i), AskAt(s, i) + (1 + s[i].body)) = Ask(s[i], i)
         /\ ClientWire(s)[AskAt(s, i) + 1] = Token(IF s[i].method = "bad" THEN "bad" ELSE "head", i)
<1>1. /\ s \in Seq(Exchange) /\ Len(s) \in Nat /\ s[i] \in Exchange /\ s[i].body \in Nat
      /\ ClientWire(s) \in Seq(Tokens) /\ Len(ClientWire(s)) \in Nat
  BY ScriptIs
<1>2. /\ i \in 1..(Len(s) + 1) /\ i + 1 \in 1..(Len(s) + 1) /\ i \in Nat
  BY <1>1
<1>3. PICK a \in 0..Len(ClientWire(s)), c \in 0..Len(ClientWire(s)) :
        a = AskAt(s, i) /\ c = AskAt(s, i + 1)
  BY <1>1, <1>2, ClientWireIs
<1>4. /\ c = a + (1 + s[i].body + Late(s[i]))
      /\ \A k \in 1..(1 + s[i].body) : ClientWire(s)[a + k] = Ask(s[i], i)[k]
  BY <1>1, <1>3, ClientWireIs
<1>5. Late(s[i]) \in 0..1
  BY <1>1, BodyIs
<1>6. PICK n \in Nat : n = 1 + s[i].body
  BY <1>1
<1>7. a + n \in a..Len(ClientWire(s)) /\ (a + n) - a = n
  <2>1. PICK l \in Nat : l = Late(s[i])
    BY <1>5
  <2>2. c = a + (n + l)
    BY <1>4, <1>6, <2>1
  <2>3. PICK z \in Nat : z = Len(ClientWire(s))
    BY <1>1
  <2>4. a \in 0..z /\ c \in 0..z
    BY <2>3
  <2>5. a + n \in a..z /\ (a + n) - a = n
    BY <2>2, <2>4
  <2> QED
    BY <2>3, <2>5
<1>8. PICK t \in Seq(Tokens) :
        /\ t = Ask(s[i], i) /\ Len(t) = n
        /\ t[1] = Token(IF s[i].method = "bad" THEN "bad" ELSE "head", i)
  BY <1>1, <1>2, <1>6, AskIs
<1>9. t = Slice(ClientWire(s), a, a + n)
  <2>1. \A k \in 1..n : t[k] = ClientWire(s)[a + k]
    BY <1>4, <1>6, <1>8
  <2>2. PICK b \in a..Len(ClientWire(s)) : b = a + n /\ b - a = n
    BY <1>7
  <2>3. Len(t) = b - a /\ \A k \in 1..(b - a) : t[k] = ClientWire(s)[a + k]
    BY <1>8, <2>1, <2>2
  <2>4. t = Slice(ClientWire(s), a, b)
    BY <1>1, <2>3, SliceEqual
  <2> QED
    BY <2>2, <2>4
<1>10. ClientWire(s)[a + 1] = t[1]
  <2>1. 1 \in 1..n
    BY <1>1, <1>6
  <2> QED
    BY <1>4, <1>6, <1>8, <2>1
<1>11. a \in Nat /\ a + n <= Len(ClientWire(s))
  BY <1>1, <1>7
<1> QED
  BY <1>1, <1>3, <1>6, <1>8, <1>9, <1>10, <1>11

\* The next byte of a request is its head or one of its body.
LEMMA RequestRead ==
  ASSUME NEW m, NEW x, NEW y, NEW at, State(m, x, y, at),
         phase = "c2s", rest # <<>>, ~failed, ~clientUpgrade, NEW budget \in Nat
  PROVE  /\ Position(request) + 1 <= x
         /\ Tail(rest) = Slice(ClientWire(script), Position(request) + 1, x)
         /\ Tail(rest) \in Seq(Tokens)
         /\ request.need = -1 /\ Head(rest).kind = "head" =>
              LET d == HeadOfRequest(Head(rest), budget)
              IN  Read(script, d, m + 1) /\ Position(d) = Position(request) + 1
         /\ request.need # -1 =>
              LET d == ReadBody(request, RetainRequest(request.message, Head(rest), budget))
              IN  Read(script, d, m + 1) /\ Position(d) = Position(request) + 1
<1>1. PICK s \in Scripts : s = script
  BY DEF State, Types
<1>2. /\ s \in Seq(Exchange) /\ Len(s) \in Nat /\ DOMAIN s = 1..Len(s)
      /\ ClientWire(s) \in Seq(Tokens) /\ Len(ClientWire(s)) \in Nat
      /\ \A i \in 1..Len(s) : s[i] \in Exchange /\ s[i].body \in Nat
  BY ScriptIs
<1>3. m \in Nat /\ m <= Len(s) /\ x \in 0..Len(ClientWire(s)) /\ Len(requests) \in Nat
  BY <1>1, StateTypes DEF State, Queue
<1>4. PICK w \in Seq(Tokens) : w = ClientWire(s)
  BY <1>2
<1>5. /\ request \in Decoders /\ request.message \in Messages /\ request.consumed \in Nat
      /\ request.message.total \in Nat /\ request.need \in Int
  BY DEF State, Types, Decoders, Messages
<1>6. PICK p \in Nat : p = Position(request) /\ p = request.consumed + request.message.total
  BY <1>5 DEF Position
<1>7. p <= x /\ rest = Slice(w, p, x)
  BY <1>1, <1>4, <1>6 DEF State, Reading
<1>8. p \in 0..Len(w) /\ x \in p..Len(w) /\ p # x
  <2>1. p \in 0..Len(w) /\ x \in p..Len(w)
    BY <1>2, <1>3, <1>4, <1>7
  <2> QED
    BY <1>7, <2>1, SliceEmpty
<1>9. /\ p + 1 \in 1..Len(w) /\ x \in (p + 1)..Len(w) /\ w[p + 1] \in Tokens
      /\ Head(rest) = w[p + 1] /\ Tail(rest) = Slice(w, p + 1, x)
  BY <1>7, <1>8, SliceHead
<1>10. Tail(rest) \in Seq(Tokens) /\ p + 1 <= x
  <2>1. PICK a \in 0..Len(w) : a = p + 1
    BY <1>8, <1>9
  <2>2. PICK b \in a..Len(w) : b = x
    BY <1>9, <2>1
  <2>3. Slice(w, a, b) \in Seq(Tokens) /\ a <= b
    BY SliceIs
  <2> QED
    BY <1>9, <2>1, <2>2, <2>3
<1>11. \/ request.consumed = AskAt(s, m + 1) /\ Asking(s, request, m + 1)
       \/ m > 0 /\ Tunnels(s[m]) /\ request.consumed + 1 = AskAt(s, m + 1)
          /\ request.need = -1 /\ request.message = NewMessage
  BY <1>1 DEF State, Reading
<1>12. ASSUME request.need = -1, Head(rest).kind = "head"
       PROVE  /\ Read(s, HeadOfRequest(Head(rest), budget), m + 1)
              /\ Position(HeadOfRequest(Head(rest), budget)) = p + 1
  <2>1. request.message = NewMessage /\ request.message.total = 0 /\ p = request.consumed
        /\ request.message.bytes = <<>> /\ ~request.message.dropped
    <3>1. request.message = NewMessage
      BY <1>11, <1>12 DEF Asking
    <3> QED
      BY <1>5, <1>6, <3>1, FreshIs
  <2>2. request.consumed = AskAt(s, m + 1)
    <3>1. CASE m > 0 /\ Tunnels(s[m]) /\ request.consumed + 1 = AskAt(s, m + 1)
      <4>1. m \in 1..Len(s)
        BY <1>3, <3>1
      <4>2. ClientWire(s)[AskAt(s, m + 1)] = Token("raw", m)
        BY <1>2, <3>1, <4>1, ClientWireIs
      <4>3. w[p + 1] = Token("raw", m)
        BY <1>4, <2>1, <3>1, <4>2
      <4>4. Token("raw", m).kind = "raw"
        BY DEF Token
      <4> QED
        BY <1>9, <1>12, <4>3, <4>4
    <3> QED
      BY <1>11, <3>1
  <2>3. m + 1 \in 1..Len(s)
    <3>1. AskAt(s, Len(s) + 1) = Len(w)
      BY <1>2, <1>4, ClientWireIs
    <3>2. m # Len(s)
      BY <1>9, <2>1, <2>2, <3>1
    <3>3. PICK n \in Nat, j \in Nat : n = Len(s) /\ j = m
      BY <1>2, <1>3
    <3>4. j <= n /\ j # n
      BY <1>3, <3>2, <3>3
    <3>5. j + 1 \in 1..n
      BY <3>4
    <3> QED
      BY <3>3, <3>5
  <2>4. PICK i \in 1..Len(s) : i = m + 1
    BY <2>3
  <2>5. w[p + 1] = Token(IF s[i].method = "bad" THEN "bad" ELSE "head", i)
    BY <1>4, <2>1, <2>2, <2>4, AskSlice
  <2>6. w[p + 1] = Token("head", i) /\ w[p + 1].of = i /\ s[i].method # "bad"
    <3>1. Token("bad", i).kind = "bad" /\ Token("head", i).of = i
      BY DEF Token
    <3> QED
      BY <1>9, <1>12, <2>5, <3>1
  <2>7. s[i] \in Exchange /\ s[i].body \in Nat
    BY <1>2
  <2> DEFINE t == w[p + 1]
             read == ReadHead(request, t, s[i].body)
             d == HeadOfRequest(t, budget)
  <2>8. t \in Tokens /\ s[i].body \in Int
    BY <1>9, <2>7
  <2>9. /\ read \in Decoders /\ read.consumed = p /\ read.need = s[i].body
        /\ read.message.total = 1 /\ read.message.head = t
        /\ read.message.bytes = Append(<<>>, t)
    <3> HIDE DEF t
    <3>0. PICK r \in Decoders, b \in Int : r = request /\ b = s[i].body
      BY <1>5, <2>8
    <3>1. PICK u \in Tokens : u = t
      BY <2>8
    <3>2. /\ ReadHead(r, u, b) \in Decoders /\ ReadHead(r, u, b).consumed = r.consumed
          /\ ReadHead(r, u, b).need = b
          /\ ReadHead(r, u, b).message.total = r.message.total + 1
          /\ ReadHead(r, u, b).message.head = u
          /\ ReadHead(r, u, b).message.bytes = Append(r.message.bytes, u)
      <4>1. ReadHead(r, u, b) \in Decoders /\ ReadHead(r, u, b).consumed = r.consumed
        BY ReadHeadIs
      <4>2. ReadHead(r, u, b).need = b /\ ReadHead(r, u, b).message.head = u
        BY ReadHeadIs
      <4>3. ReadHead(r, u, b).message.total = r.message.total + 1
        BY ReadHeadIs
      <4>4. ReadHead(r, u, b).message.bytes = Append(r.message.bytes, u)
        BY ReadHeadIs
      <4> QED
        BY <4>1, <4>2, <4>3, <4>4
    <3>3. read = ReadHead(r, u, b)
      BY <3>0, <3>1
    <3> HIDE DEF read
    <3> QED
      BY <2>1, <3>0, <3>1, <3>2, <3>3
  <2>10. d = read \/ d = [read EXCEPT !.message = Discard(@)]
    BY <1>1, <2>6 DEF HeadOfRequest
  <2>11. Append(<<>>, t) = Slice(w, p, p + 1)
    <3>1. p \in p..Len(w) /\ p < Len(w)
      BY <1>8, <1>9
    <3>2. Append(Slice(w, p, p), w[p + 1]) = Slice(w, p, p + 1)
      BY <1>8, <3>1, SliceGrown
    <3>3. Slice(w, p, p) = <<>>
      BY <1>8, <3>1, SliceEmpty
    <3> QED
      BY <3>2, <3>3
  <2> HIDE DEF t, read, d
  <2>12. /\ d \in Decoders /\ d.consumed = p /\ d.need = s[i].body /\ d.message.total = 1
         /\ d.message.head = t
         /\ ~d.message.dropped => d.message.bytes = Slice(w, p, p + 1)
    <3>1. CASE d = read
      BY <2>9, <2>11, <3>1
    <3>2. CASE d = [read EXCEPT !.message = Discard(@)]
      <4>1. read.message \in Messages
        BY <2>9 DEF Decoders
      <4>2. PICK c \in Messages : /\ c = Discard(read.message) /\ c.dropped
                                  /\ c.total = read.message.total /\ c.head = read.message.head
        BY <4>1, DiscardIs
      <4>3. d = [read EXCEPT !.message = c]
        BY <3>2, <4>2
      <4>4. d \in Decoders /\ d.consumed = read.consumed /\ d.need = read.need /\ d.message = c
        BY <2>9, <4>3 DEF Decoders
      <4> QED
        BY <2>9, <4>2, <4>4
    <3> QED
      BY <2>10, <3>1, <3>2
  <2>13. Read(s, d, i)
    BY <1>2, <1>4, <2>1, <2>2, <2>4, <2>6, <2>7, <2>12 DEF Read, t
  <2>14. Position(d) = p + 1
    BY <2>12 DEF Position
  <2> QED
    BY <1>9, <2>4, <2>13, <2>14 DEF d, t
<1>13. ASSUME request.need # -1
       PROVE  LET d == ReadBody(request, RetainRequest(request.message, Head(rest), budget))
              IN  Read(s, d, m + 1) /\ Position(d) = p + 1
  <2>1. PICK i : i = m + 1
    OBVIOUS
  <2>2. /\ request.consumed = AskAt(s, i) /\ i \in DOMAIN s
        /\ request.need > 0 /\ request.message.total > 0
        /\ request.message.total + request.need = 1 + s[i].body
        /\ request.message.head = Token("head", i) /\ s[i].method # "bad"
        /\ ~request.message.dropped =>
              request.message.bytes = Slice(w, request.consumed,
                                            request.consumed + request.message.total)
    BY <1>4, <1>11, <1>13, <2>1 DEF Asking
  <2>3. PICK a \in Nat, n \in Nat : /\ a = request.consumed /\ n = request.message.total
                                    /\ p = a + n
    BY <1>5, <1>6
  <2>4. /\ a \in 0..Len(w) /\ p \in a..Len(w) /\ p < Len(w)
    BY <1>8, <1>9, <2>3
  <2>5. Len(Slice(w, a, p)) = n
    <3>1. Len(Slice(w, a, p)) = p - a
      BY <2>4, SliceIs
    <3> QED
      BY <2>3, <3>1
  <2>6. request.message.dropped \/ Len(request.message.bytes) = request.message.total
    BY <2>2, <2>3, <2>5
  <2> DEFINE t == w[p + 1]
             c == RetainRequest(request.message, t, budget)
             d == ReadBody(request, c)
  <2>7. /\ c \in Messages /\ c.total = request.message.total + 1 /\ c.head = request.message.head
        /\ ~c.dropped => ~request.message.dropped /\ c.bytes = Append(request.message.bytes, t)
    <3>1. t \in Tokens
      BY <1>9
    <3> HIDE DEF t
    <3> QED
      BY <1>5, <2>6, <3>1, RetainRequestIs
  <2>8. Append(Slice(w, a, p), t) = Slice(w, a, p + 1)
    BY <2>4, SliceGrown
  <2> HIDE DEF t, c
  <2>9. /\ d \in Decoders /\ d.consumed = a /\ d.message = c /\ d.need = request.need - 1
    <3>1. /\ d \in Decoders /\ d.consumed = request.consumed /\ d.message = c
          /\ d.need = IF request.need = UntilClose THEN UntilClose ELSE request.need - 1
      BY <1>5, <2>7, ReadBodyIs
    <3>2. request.need # UntilClose
      BY <1>5, <2>2 DEF UntilClose
    <3> QED
      BY <2>3, <3>1, <3>2
  <2> HIDE DEF d
  <2>10. d.message.total = n + 1 /\ a + (n + 1) = p + 1
    BY <2>3, <2>7, <2>9
  <2>11. d.need >= 0 /\ d.message.total > 0 /\ d.message.total + d.need = 1 + s[i].body
    <3>1. PICK b \in Nat : b = s[i].body
      BY <1>2, <2>2
    <3>2. PICK k \in Int : k = request.need
      BY <1>5
    <3>3. k > 0 /\ n > 0 /\ n + k = 1 + b /\ d.need = k - 1
      BY <2>2, <2>3, <2>9, <3>1, <3>2
    <3> QED
      BY <2>10, <3>1, <3>3
  <2>12. ~d.message.dropped => d.message.bytes = Slice(w, a, a + (n + 1))
    BY <2>2, <2>3, <2>7, <2>8, <2>9, <2>10
  <2>13. Read(s, d, i)
    BY <1>4, <2>2, <2>3, <2>7, <2>9, <2>10, <2>11, <2>12 DEF Read
  <2>14. Position(d) = p + 1
    BY <2>9, <2>10 DEF Position
  <2> QED
    BY <1>9, <2>1, <2>13, <2>14 DEF d, c, t
<1> QED
  BY <1>1, <1>4, <1>6, <1>9, <1>10, <1>12, <1>13

\* After a failure nothing more is expected but that what was handed on stays.
LEMMA FailedState ==
  ASSUME NEW m, NEW x, NEW y, NEW at, State(m, x, y, at), NEW at1, Fail,
         UNCHANGED <<script, c2s, s2c, responseClosed, clientUpgrade, finishing>>,
         phase' = phase \/ phase' = "idle", rest' \in Seq(Tokens), discarded' \in Nat,
         emitted' \in Seq(Exchanges), upgraded' \in Exchanges \cup {NoExchange}, Handed(m)'
  PROVE  State(m, x, y, at1)'
<1>1. /\ failed' = TRUE /\ requests' = <<>> /\ requestBytes' = 0 /\ responses' = <<>>
      /\ request' = NewDecoder /\ response' = NewDecoder /\ upgradeClient' = <<>>
  BY DEF Fail
<1>2. Types'
  <2>1. /\ requests' \in Seq(Messages) /\ responses' \in Seq(Seq(Tokens)) /\ upgradeClient' \in Seq(Tokens)
        /\ request' \in Decoders /\ response' \in Decoders /\ requestBytes' \in Int
    BY <1>1, FreshIs, EmptySeq
  <2>2. phase' \in Phases /\ failed' \in BOOLEAN
    <3>1. phase \in Phases /\ "idle" \in Phases
      BY DEF State, Types, Phases
    <3>2. phase' \in Phases
      BY <3>1
    <3> QED
      BY <1>1, <3>2
  <2>3. script' \in Scripts /\ c2s' \in Seq(Tokens) /\ s2c' \in Seq(Tokens)
    BY DEF State, Types
  <2>4. responseClosed' \in {"open", "clean", "unclean"} /\ clientUpgrade' \in BOOLEAN /\ finishing' \in BOOLEAN
    BY DEF State, Types
  <2> QED
    BY <2>1, <2>2, <2>3, <2>4 DEF Types
<1>3. Fed(x, y)'
  BY DEF State, Fed
<1>4. Queue(m)' /\ Reading(m, x)' /\ Replying(m, y, at1)' /\ Accounted(m)'
  BY <1>1 DEF State, Queue, Reading, Replying, Live, Accounted
<1>5. Steering(y)'
  BY <1>1 DEF State, Steering
<1> QED
  BY <1>2, <1>3, <1>4, <1>5 DEF State

LEMMA FailingState ==
  ASSUME NEW m, NEW x, NEW y, NEW at, State(m, x, y, at), FailParsing,
         UNCHANGED <<script, c2s, s2c, responseClosed, phase, finishing>>,
         rest' \in Seq(Tokens), discarded' \in Nat
  PROVE  State(m, x, y, at)'
<1>1. Fail /\ UNCHANGED <<clientUpgrade, upgraded, emitted>> /\ failed' = TRUE
  BY DEF FailParsing, Fail
<1>2. emitted' \in Seq(Exchanges) /\ upgraded' \in Exchanges \cup {NoExchange}
  BY <1>1 DEF State, Types
<1>3. Handed(m)'
  BY <1>1 DEF State, Handed
<1> QED
  BY <1>1, <1>2, <1>3, FailedState

LEMMA DroppedAppended ==
  ASSUME NEW q \in Seq(Messages), NEW message \in Messages
  PROVE  /\ IsFiniteSet(Dropped(q)) /\ Cardinality(Dropped(q)) \in Nat
         /\ Cardinality(Dropped(Append(q, message))) =
              Cardinality(Dropped(q)) + IF message.dropped THEN 1 ELSE 0
<1>1. /\ Len(q) \in Nat /\ DOMAIN q = 1..Len(q) /\ DOMAIN Append(q, message) = 1..(Len(q) + 1)
      /\ \A i \in DOMAIN q : Append(q, message)[i] = q[i]
      /\ Append(q, message)[Len(q) + 1] = message
  BY AppendedIs
<1>2. IsFiniteSet(Dropped(q)) /\ Cardinality(Dropped(q)) \in Nat
  <2>1. IsFiniteSet(DOMAIN q)
    BY <1>1, FS_Interval
  <2>2. Dropped(q) \subseteq DOMAIN q
    BY DEF Dropped
  <2>3. IsFiniteSet(Dropped(q))
    BY <2>1, <2>2, FS_Subset
  <2> QED
    BY <2>3, FS_CardinalityType
<1>3. CASE message.dropped
  <2>1. Dropped(Append(q, message)) = Dropped(q) \cup {Len(q) + 1}
    BY <1>1, <1>3 DEF Dropped
  <2>2. Len(q) + 1 \notin Dropped(q)
    BY <1>1 DEF Dropped
  <2> QED
    BY <1>2, <1>3, <2>1, <2>2, FS_AddElement
<1>4. CASE ~message.dropped
  <2>1. Dropped(Append(q, message)) = Dropped(q)
    BY <1>1, <1>4 DEF Dropped
  <2> QED
    BY <1>2, <1>4, <2>1
<1> QED
  BY <1>2, <1>3, <1>4

\* A finished request joins the queue.
LEMMA EnqueuedState ==
  ASSUME NEW m, NEW x, NEW y, NEW at, State(m, x, y, at), NEW decoder,
         Read(script, decoder, m + 1), decoder.need = 0, Position(decoder) <= x,
         ~failed, ~clientUpgrade, phase = "c2s",
         rest' = Slice(ClientWire(script), Position(decoder), x), rest' \in Seq(Tokens),
         discarded' = discarded + (IF Taken(decoder).dropped THEN 1 ELSE 0),
         requests' = Append(requests, Taken(decoder)),
         requestBytes' = requestBytes + Len(Taken(decoder).bytes),
         clientUpgrade' = script[Taken(decoder).head.of].upgrade,
         request' = AfterTake(decoder),
         UNCHANGED <<script, c2s, s2c, response, responses, responseBytes, upgradeClient,
                     upgraded, failed, emitted, responseClosed, phase, finishing>>
  PROVE  State(m + 1, x, y, at)'
<1>1. PICK s \in Scripts : s = script
  BY DEF State, Types
<1>2. /\ s \in Seq(Exchange) /\ Len(s) \in Nat /\ DOMAIN s = 1..Len(s)
      /\ ClientWire(s) \in Seq(Tokens) /\ Len(ClientWire(s)) \in Nat
  BY ScriptIs
<1>3. PICK q \in Seq(Messages) : q = requests
  BY DEF State, Types
<1>4. PICK n \in Nat, k \in Nat, d \in Nat : n = Len(q) /\ k = m /\ d = discarded
  BY DEF State, Queue, Types
<1>5. PICK i \in 1..Len(s) : i = m + 1 /\ i = k + 1
  BY <1>1, <1>2, <1>4 DEF Read
<1>6. /\ decoder \in Decoders /\ decoder.consumed = AskAt(s, i)
      /\ decoder.message.total = 1 + s[i].body /\ decoder.message.head = Token("head", i)
      /\ ~decoder.message.dropped =>
           decoder.message.bytes = Slice(ClientWire(s), AskAt(s, i), AskAt(s, i) + (1 + s[i].body))
  <2>1. /\ decoder \in Decoders /\ decoder.consumed = AskAt(s, i)
        /\ decoder.message.total + 0 = 1 + s[i].body /\ decoder.message.head = Token("head", i)
        /\ ~decoder.message.dropped =>
             decoder.message.bytes = Slice(ClientWire(s), decoder.consumed,
                                           decoder.consumed + decoder.message.total)
    BY <1>1, <1>5 DEF Read
  <2>2. decoder.message.total \in Nat
    BY <2>1 DEF Decoders, Messages
  <2> QED
    BY <2>1, <2>2
<1>7. /\ AskAt(s, i) \in Nat /\ s[i].body \in Nat
      /\ Slice(ClientWire(s), AskAt(s, i), AskAt(s, i) + (1 + s[i].body)) = Ask(s[i], i)
  BY AskSlice
<1>8. PICK message \in Messages :
        /\ message = Taken(decoder) /\ message.head = Token("head", i) /\ message.offset = AskAt(s, i)
        /\ s[i].method # "bad" /\ (~message.dropped => message.bytes = Ask(s[i], i))
  BY <1>1, <1>5, <1>6, <1>7, TakenIs DEF Read
<1>9. /\ request' \in Decoders /\ request'.need = -1 /\ request'.message = NewMessage
      /\ request'.consumed = AskAt(s, i) + (1 + s[i].body)
      /\ Position(decoder) = AskAt(s, i) + (1 + s[i].body)
      /\ Position(request)' = AskAt(s, i) + (1 + s[i].body)
  <2>1. PICK e \in Decoders : e = decoder
    BY <1>6
  <2>2. /\ AfterTake(e) \in Decoders /\ AfterTake(e).consumed = e.consumed + e.message.total
        /\ AfterTake(e).need = -1 /\ AfterTake(e).message = NewMessage
    BY TakenIs
  <2>3. /\ request' \in Decoders /\ request'.need = -1 /\ request'.message = NewMessage
        /\ request'.consumed = AskAt(s, i) + (1 + s[i].body)
    BY <1>6, <2>1, <2>2
  <2>4. request'.message.total = 0
    BY <2>3, FreshIs
  <2>5. PICK p \in Nat : p = AskAt(s, i) + (1 + s[i].body)
    BY <1>7
  <2> QED
    BY <1>6, <2>3, <2>4, <2>5 DEF Position
<1>10. requests' = Append(q, message) /\ clientUpgrade' = s[i].upgrade /\ clientUpgrade' \in BOOLEAN
  <2>1. Token("head", i).of = i
    BY DEF Token
  <2>2. PICK e \in Exchange : e = s[i]
    BY <1>2
  <2>3. e.upgrade \in BOOLEAN
    BY DEF Exchange
  <2>4. requests' = Append(q, message) /\ clientUpgrade' = s[i].upgrade
    BY <1>1, <1>3, <1>8, <2>1
  <2>5. clientUpgrade' = e.upgrade
    BY <2>2, <2>4
  <2>6. clientUpgrade' \in BOOLEAN
    BY <2>3, <2>5
  <2> QED
    BY <2>4, <2>6
<1>11. PICK r \in Seq(Messages) : r = requests' /\ r = Append(q, message)
  <2>1. Append(q, message) \in Seq(Messages)
    BY AppendedIs
  <2> QED
    BY <1>10, <2>1
<1>12. /\ Len(r) = n + 1 /\ DOMAIN q = 1..n /\ DOMAIN r = 1..(n + 1)
       /\ \A j \in DOMAIN q : r[j] = q[j]
       /\ r[n + 1] = message
  BY <1>4, <1>11, AppendedIs
<1>13. upgraded = NoExchange
  BY DEF State, Steering
<1>14. Types'
  <2>1. requestBytes' \in Int
    <3>1. PICK c \in Int, b \in Nat : c = requestBytes /\ b = Len(message.bytes)
      BY DEF State, Types, Messages
    <3> QED
      BY <1>8, <3>1
  <2>2. discarded' \in Nat
    BY <1>4
  <2>3. requests' \in Seq(Messages)
    BY <1>11
  <2> QED
    BY <1>9, <1>10, <2>1, <2>2, <2>3 DEF State, Types
<1>15. Fed(x, y)'
  BY DEF State, Fed
<1>16. /\ n <= k /\ (k - n) + 1 = (i - (n + 1)) + 1 /\ i - (n + 1) = k - n
       /\ i \in Nat /\ i <= Len(s) /\ i >= n + 1
       /\ \A j \in DOMAIN q : Queued(s, q[j], (k - n) + j)
       /\ \A j \in 1..k : ~s[j].upgrade
  <2>1. k \in n..Len(s) /\ \A j \in DOMAIN q : Queued(s, q[j], (k - n) + j)
    BY <1>1, <1>3, <1>4 DEF State, Queue
  <2>2. \A j \in 1..k : ~s[j].upgrade
    BY <1>1, <1>4 DEF State, Queue
  <2> QED
    BY <1>2, <1>5, <2>1, <2>2
<1>17. Queue(m + 1)'
  <2>1. ASSUME NEW j \in DOMAIN r
        PROVE  Queued(s, r[j], (i - (n + 1)) + j)
    <3>1. CASE j \in DOMAIN q
      BY <1>12, <1>16, <3>1
    <3>2. CASE j = n + 1
      <4>1. (i - (n + 1)) + j = i
        BY <1>5, <3>2
      <4>2. Queued(s, message, i)
        BY <1>8 DEF Queued
      <4> QED
        BY <1>12, <3>2, <4>1, <4>2
    <3> QED
      BY <1>12, <3>1, <3>2
  <2>2. ASSUME NEW j \in 1..i
        PROVE  s[j].upgrade <=> clientUpgrade' /\ j = i
    <3>1. CASE j = i
      BY <1>10, <3>1
    <3>2. CASE j # i
      <4>1. j \in 1..k
        BY <1>5, <3>2
      <4> QED
        BY <1>16, <3>2, <4>1
    <3> QED
      BY <3>1, <3>2
  <2>3. i \in (n + 1)..Len(s) /\ i > 0
    BY <1>2, <1>16
  <2> QED
    BY <1>1, <1>5, <1>11, <1>12, <1>16, <2>1, <2>2, <2>3 DEF Queue
<1>18. Reading(m + 1, x)'
  <2>1. \/ AskAt(s, i) + (1 + s[i].body) = AskAt(s, i + 1)
        \/ Tunnels(s[i]) /\ (AskAt(s, i) + (1 + s[i].body)) + 1 = AskAt(s, i + 1)
    <3>1. AskAt(s, i + 1) = AskAt(s, i) + (1 + s[i].body + Late(s[i]))
      BY <1>2, ClientWireIs
    <3> QED
      BY <1>7, <3>1 DEF Late
  <2>2. i > 0
    BY <1>16
  <2>3. Asking(s, request', i + 1)
    BY <1>9 DEF Asking
  <2>4. Position(request)' <= x /\ rest' = Slice(ClientWire(s), Position(request)', x)
    BY <1>1, <1>9
  <2>5. Asking(script, request, (m + 1) + 1)' /\ script' = s
    BY <1>1, <1>5, <2>3
  <2> QED
    BY <1>1, <1>5, <1>9, <2>1, <2>2, <2>4, <2>5 DEF Reading
<1>19. Replying(m + 1, y, at)'
  <2>1. Live
    BY DEF Live
  <2>2. Answering(s, response, (k - n) + 1) /\ Backlog(y, at)
    BY <1>1, <1>3, <1>4, <2>1 DEF State, Replying
  <2>3. Backlog(y, at)'
    BY <2>2 DEF Backlog, Placed, Laid, Position
  <2>4. Answering(s, response', (i - (n + 1)) + 1)
    BY <1>16, <2>2
  <2>5. requests' # <<>>
    <3>1. Len(r) # 0
      BY <1>12
    <3>2. r # <<>>
      BY <3>1, EmptySeq
    <3> QED
      BY <1>11, <3>2
  <2>6. (i - Len(requests')) + 1 = (i - (n + 1)) + 1
    BY <1>11, <1>12
  <2> QED
    BY <1>1, <1>5, <2>3, <2>4, <2>5, <2>6 DEF Replying
<1>20. Steering(y)'
  BY <1>13 DEF State, Steering
<1>21. i - Len(requests') = m - Len(requests) /\ m - Len(requests) = k - n
  BY <1>3, <1>4, <1>11, <1>12, <1>16
<1>22. Handed(m + 1)'
  BY <1>5, <1>13, <1>21 DEF State, Handed
<1>23. Accounted(m + 1)'
  <2>1. PICK c \in Nat, c1 \in Nat, l \in Nat :
          /\ c = Cardinality(Dropped(q)) /\ c1 = Cardinality(Dropped(r)) /\ l = Len(emitted)
          /\ c1 = c + IF message.dropped THEN 1 ELSE 0
    <3>1. Cardinality(Dropped(q)) \in Nat /\ Cardinality(Dropped(r)) \in Nat
      BY DroppedAppended
    <3>2. Len(emitted) \in Nat
      BY DEF State, Types
    <3>3. Cardinality(Dropped(r)) = Cardinality(Dropped(q)) + IF message.dropped THEN 1 ELSE 0
      BY <1>11, DroppedAppended
    <3> QED
      BY <3>1, <3>2, <3>3
  <2>2. l + (0 + d) = (k - n) + c
    BY <1>3, <1>4, <1>13, <2>1 DEF State, Accounted
  <2>3. l + (0 + discarded') = (k - n) + c1
    <3>1. CASE message.dropped
      <4>1. discarded' = d + 1 /\ c1 = c + 1
        BY <1>4, <1>8, <2>1, <3>1
      <4>2. l + (0 + (d + 1)) = (k - n) + (c + 1)
        BY <2>2
      <4> QED
        BY <4>1, <4>2
    <3>2. CASE ~message.dropped
      <4>1. discarded' = d /\ c1 = c
        BY <1>4, <1>8, <2>1, <3>2
      <4> QED
        BY <2>2, <4>1
    <3> QED
      BY <3>1, <3>2
  <2> QED
    BY <1>5, <1>11, <1>13, <1>21, <2>1, <2>3 DEF Accounted
<1> QED
  BY <1>14, <1>15, <1>17, <1>18, <1>19, <1>20, <1>22, <1>23 DEF State

LEMMA ReadRequestState ==
  ASSUME NEW m, NEW x, NEW y, NEW at, State(m, x, y, at), ReadRequest
  PROVE  State(m, x, y, at)' \/ State(m + 1, x, y, at)'
<1> DEFINE token == Head(rest)
           budget == IF requestBytes < Limit THEN Limit - requestBytes ELSE 0
           decoder == IF request.need = -1 THEN HeadOfRequest(token, budget)
                      ELSE ReadBody(request, RetainRequest(request.message, token, budget))
<1>1. /\ phase = "c2s" /\ rest # <<>> /\ ~failed
      /\ UNCHANGED <<script, c2s, s2c, responseClosed, phase, finishing>>
      /\ IF clientUpgrade
         THEN /\ upgradeClient' = AppendBounded(upgradeClient, rest, Limit)
              /\ rest' = <<>>
              /\ UNCHANGED <<request, response, queue, backlog, clientUpgrade,
                             upgraded, failed, discarded, emitted>>
         ELSE /\ rest' = Tail(rest)
              /\ \/ /\ request.need = -1 /\ token.kind # "head"
                    /\ FailParsing /\ UNCHANGED discarded
                 \/ /\ request.need # -1 \/ token.kind = "head"
                    /\ decoder.need = 0
                    /\ EnqueueRequest(decoder)
                 \/ /\ request.need # -1 \/ token.kind = "head"
                    /\ decoder.need # 0
                    /\ request' = decoder
                    /\ UNCHANGED <<response, queue, backlog, upgrade, failed,
                                   discarded, emitted>>
  BY DEF ReadRequest, wire
<1>2. budget \in Nat
  <2>1. PICK b \in Int, l \in Nat : b = requestBytes /\ l = Limit
    BY LimitsAssumption DEF State, Types
  <2> QED
    BY <2>1
<1>3. CASE clientUpgrade
  <2>1. /\ upgradeClient' = AppendBounded(upgradeClient, rest, Limit) /\ rest' = <<>>
        /\ UNCHANGED <<request, response, requests, requestBytes, responses, responseBytes,
                       clientUpgrade, upgraded, failed, discarded, emitted>>
    BY <1>1, <1>3 DEF queue, backlog
  <2>2. upgradeClient' \in Seq(Tokens) /\ rest' \in Seq(Tokens)
    <3>1. upgradeClient \in Seq(Tokens) /\ rest \in Seq(Tokens) /\ Limit \in Nat
      BY LimitsAssumption DEF State, Types
    <3> QED
      BY <2>1, <3>1, AppendBoundedIs, EmptySeq
  <2>3. Types'
    BY <1>1, <2>1, <2>2 DEF State, Types
  <2>4. Fed(x, y)' /\ Queue(m)' /\ Steering(y)' /\ Handed(m)' /\ Accounted(m)'
    BY <1>1, <2>1 DEF State, Fed, Queue, Steering, Handed, Accounted
  <2>5. Reading(m, x)'
    BY <1>3, <2>1 DEF Reading
  <2>6. Replying(m, y, at)'
    BY <1>1, <2>1 DEF State, Replying, Live, Backlog, Placed, Laid, Position
  <2> QED
    BY <2>3, <2>4, <2>5, <2>6 DEF State
<1>4. CASE ~clientUpgrade
  <2>1. /\ Position(request) + 1 <= x
        /\ rest' = Slice(ClientWire(script), Position(request) + 1, x) /\ rest' \in Seq(Tokens)
        /\ request.need = -1 /\ token.kind = "head" =>
              /\ Read(script, HeadOfRequest(token, budget), m + 1)
              /\ Position(HeadOfRequest(token, budget)) = Position(request) + 1
        /\ request.need # -1 =>
              LET d == ReadBody(request, RetainRequest(request.message, token, budget))
              IN  Read(script, d, m + 1) /\ Position(d) = Position(request) + 1
    <3> HIDE DEF budget
    <3> QED
      BY <1>1, <1>2, <1>4, RequestRead
  <2>2. request.need # -1 \/ token.kind = "head" =>
          Read(script, decoder, m + 1) /\ Position(decoder) = Position(request) + 1
    BY <2>1
  <2> HIDE DEF decoder
  <2>3. CASE FailParsing /\ UNCHANGED discarded
    <3>2. discarded' \in Nat
      BY <2>3 DEF State, Types
    <3> QED
      BY <1>1, <2>1, <2>3, <3>2, FailingState
  <2>4. CASE /\ Read(script, decoder, m + 1) /\ Position(decoder) = Position(request) + 1
             /\ decoder.need = 0 /\ EnqueueRequest(decoder)
    <3>1. discarded' = discarded + IF Taken(decoder).dropped THEN 1 ELSE 0
      BY <2>4 DEF EnqueueRequest
    <3>2. CASE FailParsing
      <4>1. discarded' \in Nat
        <5>1. discarded \in Nat
          BY DEF State, Types
        <5> QED
          BY <3>1, <5>1
      <4> QED
        BY <1>1, <2>1, <3>2, <4>1, FailingState
    <3>3. CASE /\ requests' = Append(requests, Taken(decoder))
               /\ requestBytes' = requestBytes + Len(Taken(decoder).bytes)
               /\ clientUpgrade' = script[Taken(decoder).head.of].upgrade
               /\ request' = AfterTake(decoder)
               /\ UNCHANGED <<response, backlog, upgradeClient, upgraded, failed, emitted>>
      <4>1. UNCHANGED <<response, responses, responseBytes, upgradeClient, upgraded, failed, emitted>>
        BY <3>3 DEF backlog
      <4>2. Position(decoder) <= x /\ rest' = Slice(ClientWire(script), Position(decoder), x)
        BY <2>1, <2>4
      <4> QED
        BY <1>1, <1>4, <2>1, <2>4, <3>1, <3>3, <4>1, <4>2, EnqueuedState
    <3> QED
      BY <2>4, <3>2, <3>3 DEF EnqueueRequest
  <2>5. CASE /\ Read(script, decoder, m + 1) /\ Position(decoder) = Position(request) + 1
             /\ decoder.need # 0 /\ request' = decoder
             /\ UNCHANGED <<response, queue, backlog, upgrade, failed, discarded, emitted>>
    <3>1. UNCHANGED <<response, requests, requestBytes, responses, responseBytes, clientUpgrade,
                      upgradeClient, upgraded, failed, discarded, emitted>>
      BY <2>5 DEF queue, backlog, upgrade
    <3>2. Types'
      BY <1>1, <2>1, <2>5, <3>1 DEF State, Types, Read
    <3>3. Fed(x, y)' /\ Queue(m)' /\ Steering(y)' /\ Handed(m)' /\ Accounted(m)'
      BY <1>1, <3>1 DEF State, Fed, Queue, Steering, Handed, Accounted
    <3>4. Replying(m, y, at)'
      BY <1>1, <3>1 DEF State, Replying, Live, Backlog, Placed, Laid, Position
    <3>5. Reading(m, x)'
      <4>1. PICK d \in Decoders : d = decoder
        BY <2>5 DEF Read
      <4>2. d.need \in Int /\ d.need > 0
        BY <2>5, <4>1 DEF Read, Decoders
      <4>3. Asking(script, d, m + 1) /\ d.consumed = AskAt(script, m + 1)
        BY <2>5, <4>1, <4>2 DEF Read, Asking
      <4>4. Position(d) <= x /\ rest' = Slice(ClientWire(script), Position(d), x)
        BY <2>1, <2>5, <4>1
      <4>5. request' = d /\ Position(request)' = Position(d) /\ Asking(script, request, m + 1)'
        BY <1>1, <2>5, <4>1, <4>3 DEF Position
      <4> QED
        BY <1>1, <4>3, <4>4, <4>5 DEF Reading
    <3> QED
      BY <3>2, <3>3, <3>4, <3>5 DEF State
  <2> QED
    BY <1>1, <1>4, <2>2, <2>3, <2>4, <2>5
<1> QED
  BY <1>3, <1>4

-----------------------------------------------------------------------------
(* The responses. *)

LEMMA DroppedTail ==
  ASSUME NEW q \in Seq(Messages), q # <<>>
  PROVE  /\ Cardinality(Dropped(q)) \in Nat /\ Cardinality(Dropped(Tail(q))) \in Nat
         /\ Cardinality(Dropped(q)) =
              Cardinality(Dropped(Tail(q))) + IF q[1].dropped THEN 1 ELSE 0
<1>1. PICK r \in Seq(Messages), n \in Nat :
        /\ r = Tail(q) /\ n = Len(r) /\ Len(q) = n + 1 /\ q[1] \in Messages
        /\ \A j \in 1..n : r[j] = q[j + 1]
  <2>1. /\ Tail(q) \in Seq(Messages) /\ Len(Tail(q)) = Len(q) - 1 /\ Len(q) \in Nat \ {0}
        /\ Head(q) = q[1] /\ Head(q) \in Messages
        /\ \A i \in DOMAIN Tail(q) : i + 1 \in DOMAIN q /\ Tail(q)[i] = q[i + 1]
    BY TailOf
  <2>2. PICK r \in Seq(Messages) : r = Tail(q)
    BY <2>1
  <2>3. PICK n \in Nat : n = Len(r)
    OBVIOUS
  <2>4. DOMAIN r = 1..n /\ Len(q) = n + 1
    BY <2>1, <2>2, <2>3
  <2> QED
    BY <2>1, <2>2, <2>3, <2>4
<1>2. DOMAIN q = 1..(n + 1) /\ DOMAIN r = 1..n
  BY <1>1
<1> DEFINE later == {j \in Dropped(q) : j # 1}
           shift == [j \in Dropped(r) |-> j + 1]
<1>3. Dropped(q) \subseteq 1..(n + 1) /\ Dropped(r) \subseteq 1..n
  BY <1>2 DEF Dropped
<1>4. IsFiniteSet(Dropped(q)) /\ IsFiniteSet(Dropped(r)) /\ IsFiniteSet(later)
  <2>1. IsFiniteSet(1..(n + 1)) /\ IsFiniteSet(1..n)
    BY FS_Interval
  <2>2. later \subseteq Dropped(q)
    OBVIOUS
  <2> QED
    BY <1>3, <2>1, <2>2, FS_Subset
<1>5. /\ Cardinality(Dropped(q)) \in Nat /\ Cardinality(Dropped(r)) \in Nat
      /\ Cardinality(later) \in Nat
  BY <1>4, FS_CardinalityType
<1>6. ASSUME NEW j \in Dropped(r)
      PROVE  j + 1 \in later
  <2>1. j \in 1..n /\ r[j].dropped
    BY <1>3 DEF Dropped
  <2>2. j + 1 \in 1..(n + 1) /\ j + 1 # 1 /\ q[j + 1].dropped
    BY <1>1, <2>1
  <2> QED
    BY <1>2, <2>2 DEF Dropped
<1>7. ASSUME NEW k \in later
      PROVE  k - 1 \in Dropped(r) /\ (k - 1) + 1 = k
  <2>1. k \in 1..(n + 1) /\ k # 1 /\ q[k].dropped
    BY <1>3 DEF Dropped
  <2>2. k - 1 \in 1..n /\ (k - 1) + 1 = k
    BY <2>1
  <2>3. r[k - 1].dropped
    BY <1>1, <2>1, <2>2
  <2> QED
    BY <1>2, <2>2, <2>3 DEF Dropped
<1>8. shift \in Bijection(Dropped(r), later)
  <2>1. shift \in [Dropped(r) -> later]
    BY <1>6
  <2>2. \A j, k \in Dropped(r) : shift[j] = shift[k] => j = k
    BY <1>3
  <2>3. \A k \in later : \E j \in Dropped(r) : shift[j] = k
    BY <1>7
  <2> HIDE DEF shift, later
  <2> QED
    BY <2>1, <2>2, <2>3, Fun_IsBij
<1>9. Cardinality(later) = Cardinality(Dropped(r))
  <2> HIDE DEF shift, later
  <2>1. ExistsBijection(Dropped(r), later)
    BY <1>8 DEF ExistsBijection
  <2> QED
    BY <1>4, <2>1, FS_Bijection
<1>10. CASE q[1].dropped
  <2>1. Dropped(q) = later \cup {1} /\ 1 \notin later
    <3>1. 1 \in Dropped(q)
      BY <1>2, <1>10 DEF Dropped
    <3> QED
      BY <3>1
  <2>2. Cardinality(later \cup {1}) = Cardinality(later) + 1
    <3> HIDE DEF later
    <3> QED
      BY <1>4, <2>1, FS_AddElement
  <2> HIDE DEF later
  <2> QED
    BY <1>1, <1>5, <1>9, <1>10, <2>1, <2>2
<1>11. CASE ~q[1].dropped
  <2>1. Dropped(q) = later
    BY <1>11 DEF Dropped
  <2> HIDE DEF later
  <2> QED
    BY <1>1, <1>5, <1>9, <1>11, <2>1
<1> QED
  BY <1>1, <1>5, <1>10, <1>11

LEMMA RequestsAre ==
  ASSUME NEW w \in Seq(Exchanges)
  PROVE  \A j \in DOMAIN w : w[j] \in Exchanges /\ w[j].request \in Nat
<1> SUFFICES ASSUME NEW j \in DOMAIN w
             PROVE  w[j] \in Exchanges /\ w[j].request \in Nat
  OBVIOUS
<1>1. PICK e \in Exchanges : e = w[j]
  OBVIOUS
<1>2. e.request \in Nat
  BY DEF Exchanges
<1> QED
  BY <1>1, <1>2

\* Where the response lies on the wire.
LEMMA AnswerSlice ==
  ASSUME NEW s \in Scripts, NEW i \in 1..Len(s)
  PROVE  /\ ReplyAt(s, i) \in Nat /\ Early(s[i]) \in Nat /\ Body(s[i]) \in Nat /\ Late(s[i]) \in Nat
         /\ ReplyAt(s, i + 1) = ReplyAt(s, i) + (Early(s[i]) + (1 + Body(s[i])) + Late(s[i]))
         /\ ReplyAt(s, i + 1) \in 0..Len(ServerWire(s))
         /\ s[i].interim => ServerWire(s)[ReplyAt(s, i) + 1] = Token("interim", i)
         /\ ServerWire(s)[ReplyAt(s, i) + Early(s[i]) + 1] = Token("head", i)
         /\ Answer(s[i], i) \in Seq(Tokens) /\ Len(Answer(s[i], i)) = 1 + Body(s[i])
         /\ \A n \in 1..(1 + Body(s[i])) :
               Slice(ServerWire(s), ReplyAt(s, i) + Early(s[i]), ReplyAt(s, i) + Early(s[i]) + n)
                 = SubSeq(Answer(s[i], i), 1, n)
<1>1. /\ s \in Seq(Exchange) /\ Len(s) \in Nat /\ s[i] \in Exchange
      /\ ServerWire(s) \in Seq(Tokens) /\ Len(ServerWire(s)) \in Nat
  BY ScriptIs
<1>2. /\ i \in 1..(Len(s) + 1) /\ i + 1 \in 1..(Len(s) + 1) /\ i \in Nat
  BY <1>1
<1>3. PICK w \in Seq(Tokens) : w = ServerWire(s)
  BY <1>1
<1>4. PICK a \in 0..Len(w), c \in 0..Len(w) : a = ReplyAt(s, i) /\ c = ReplyAt(s, i + 1)
  BY <1>1, <1>2, <1>3, ServerWireIs
<1>5. PICK h \in Nat, b \in Nat, l \in Nat : h = Early(s[i]) /\ b = Body(s[i]) /\ l = Late(s[i])
  BY <1>1, BodyIs
<1>6. /\ c = a + (h + (1 + b) + l)
      /\ s[i].interim => w[a + 1] = Token("interim", i)
      /\ \A k \in 1..(1 + b) : w[a + (h + k)] = Answer(s[i], i)[k]
  BY <1>1, <1>3, <1>4, <1>5, ServerWireIs
<1>7. PICK t \in Seq(Tokens) : t = Answer(s[i], i) /\ Len(t) = 1 + b /\ t[1] = Token("head", i)
  BY <1>1, <1>2, <1>5, AnswerIs
<1>8. w[a + h + 1] = Token("head", i)
  <2>1. 1 \in 1..(1 + b) /\ a + (h + 1) = a + h + 1 /\ a \in Nat
    BY <1>3, <1>1
  <2> QED
    BY <1>6, <1>7, <2>1
<1>9. ASSUME NEW n \in 1..(1 + b)
      PROVE  Slice(w, a + h, a + h + n) = SubSeq(t, 1, n)
  <2>1. a \in Nat /\ Len(w) \in Nat
    BY <1>1, <1>3
  <2>2. PICK p \in 0..Len(w), e \in 0..Len(w) : p = a + h /\ e = a + h + n /\ e - p = n /\ p <= e
    <3>1. a + h \in 0..Len(w) /\ a + h + n \in 0..Len(w)
      BY <1>6, <2>1
    <3> QED
      BY <2>1, <3>1
  <2>3. /\ 0 \in 0..Len(t) /\ n \in 0..Len(t) /\ n - 0 = n /\ \A k \in 1..n : 0 + k = k
    BY <1>7
  <2>4. PICK u \in Seq(Tokens) : u = Slice(t, 0, n) /\ Len(u) = n /\ \A k \in 1..n : u[k] = t[k]
    <3>1. /\ Slice(t, 0, n) \in Seq(Tokens) /\ Len(Slice(t, 0, n)) = n - 0
          /\ \A k \in 1..(n - 0) : Slice(t, 0, n)[k] = t[0 + k]
      BY <2>3, SliceIs
    <3> QED
      BY <2>3, <3>1
  <2>5. e \in p..Len(w)
    BY <2>2
  <2>6. \A k \in 1..(e - p) : u[k] = w[p + k]
    <3>1. ASSUME NEW k \in 1..n
          PROVE  u[k] = w[p + k]
      <4>1. k \in 1..(1 + b) /\ a + (h + k) = p + k
        BY <2>1, <2>2
      <4> QED
        BY <1>6, <1>7, <2>4, <4>1
    <3> QED
      BY <2>2, <3>1
  <2>7. Len(u) = e - p
    BY <2>2, <2>4
  <2>8. u = Slice(w, p, e)
    BY <2>5, <2>6, <2>7, SliceEqual
  <2>9. Slice(t, 0, n) = SubSeq(t, 1, n)
    BY DEF Slice
  <2> QED
    BY <2>2, <2>4, <2>8, <2>9
<1>10. a \in Nat
  BY <1>1, <1>3
<1> QED
  BY <1>3, <1>4, <1>5, <1>6, <1>7, <1>8, <1>9, <1>10

\* The response decoder has read the message it is about to hand over.
Replied(s, decoder, i, incomplete) ==
  /\ decoder \in Decoders /\ i \in DOMAIN s
  /\ decoder.consumed = ReplyAt(s, i) + Early(s[i])
  /\ decoder.message.head = Token("head", i)
  /\ decoder.message.total \in 1..(1 + Body(s[i]))
  /\ decoder.message.bytes = Slice(ServerWire(s), decoder.consumed,
                                   decoder.consumed + Kept(decoder.message.total))
  /\ ~incomplete => decoder.message.total = 1 + Body(s[i])

\* pair puts together what belongs together.
LEMMA PairIsOwn ==
  ASSUME NEW s \in Scripts, NEW i \in 1..Len(s), NEW asked \in Messages, Queued(s, asked, i),
         ~asked.dropped, NEW decoder, NEW incomplete \in BOOLEAN, Replied(s, decoder, i, incomplete),
         NEW c \in Seq(Tokens), NEW b \in BOOLEAN, NEW protocol \in {"http", "websocket"},
         protocol = "http" => c = asked.bytes /\ b = incomplete,
         NEW e, e = [request |-> asked.head.of, response |-> Taken(decoder).head.of,
                     c2s |-> c, s2c |-> Taken(decoder).bytes,
                     requestOffset |-> asked.offset, responseOffset |-> Taken(decoder).offset,
                     incomplete |-> b, protocol |-> protocol]
  PROVE  e \in Exchanges /\ Own(s, e) /\ e.request = i /\ e.protocol = protocol
<1>1. /\ s[i] \in Exchange /\ s[i].body \in Nat /\ DOMAIN s = 1..Len(s) /\ i \in Nat
  BY ScriptIs
<1>2. Token("head", i).of = i
  BY DEF Token
<1>3. PICK d \in Decoders : d = decoder
  BY DEF Replied
<1>4. /\ Taken(d) \in Messages /\ Taken(d).head.of = i /\ Taken(d).offset = d.consumed
      /\ Taken(d).bytes = d.message.bytes
  BY <1>2, <1>3, TakenIs DEF Replied
<1>5. asked.head.of = i /\ asked.offset = AskAt(s, i) /\ asked.offset \in Nat
  BY <1>2 DEF Queued, Messages
<1>6. /\ e.request = i /\ e.response = i /\ e.c2s = c /\ e.s2c = d.message.bytes
      /\ e.requestOffset = AskAt(s, i) /\ e.responseOffset = ReplyAt(s, i) + Early(s[i])
      /\ e.incomplete = b /\ e.protocol = protocol
  BY <1>3, <1>4, <1>5 DEF Replied
<1>7. e \in Exchanges
  <2>1. PICK o \in Nat, u \in Seq(Tokens) : o = Taken(decoder).offset /\ u = Taken(decoder).bytes
    BY <1>3, <1>4 DEF Messages
  <2>2. e = [request |-> i, response |-> i, c2s |-> c, s2c |-> u, requestOffset |-> asked.offset,
             responseOffset |-> o, incomplete |-> b, protocol |-> protocol]
    BY <1>3, <1>4, <1>5, <2>1
  <2> QED
    BY <1>1, <1>5, <2>2 DEF Exchanges
<1>8. ClientWire(s)[AskAt(s, i) + 1] = Token("head", i)
  BY AskSlice DEF Queued
<1>9. ServerWire(s)[(ReplyAt(s, i) + Early(s[i])) + 1] = Token("head", i)
  BY AnswerSlice
<1>10. ASSUME protocol = "http"
       PROVE  /\ c = Ask(s[i], i)
              /\ \E n \in 1..Len(Answer(s[i], i)) :
                   /\ e.s2c = SubSeq(Answer(s[i], i), 1, n)
                   /\ ~b => n \in {Limit, Len(Answer(s[i], i))}
  <2>1. c = Ask(s[i], i)
    BY <1>10 DEF Queued
  <2>2. PICK t \in Nat, k \in Nat, l \in Nat :
          t = d.message.total /\ k = Body(s[i]) /\ l = Limit /\ l > 0
    <3>1. d.message.total \in Nat
      BY DEF Decoders, Messages
    <3>2. Body(s[i]) \in Nat
      BY AnswerSlice
    <3>3. Limit \in Nat /\ Limit > 0
      BY LimitsAssumption
    <3> QED
      BY <3>1, <3>2, <3>3
  <2>3. t \in 1..(1 + k) /\ (~b => t = 1 + k)
    BY <1>3, <1>10, <2>2 DEF Replied
  <2>4. PICK n \in Nat : n = Kept(t) /\ n = IF t < l THEN t ELSE l
    BY <2>2 DEF Kept
  <2>5. n \in 1..(1 + k) /\ (~b => n = l \/ n = 1 + k)
    BY <2>2, <2>3, <2>4
  <2>6. PICK z \in Nat : z = ReplyAt(s, i) + Early(s[i])
    BY AnswerSlice
  <2>7. e.s2c = Slice(ServerWire(s), z, z + n)
    BY <1>3, <1>6, <2>2, <2>4, <2>6 DEF Replied
  <2>8. Slice(ServerWire(s), z, z + n) = SubSeq(Answer(s[i], i), 1, n)
    BY <2>2, <2>5, <2>6, AnswerSlice
  <2>9. Len(Answer(s[i], i)) = 1 + k
    BY <2>2, AnswerSlice
  <2> QED
    BY <2>1, <2>2, <2>5, <2>7, <2>8, <2>9
<1>11. Own(s, e)
  BY <1>1, <1>6, <1>8, <1>9, <1>10 DEF Own
<1> QED
  BY <1>6, <1>7, <1>11

\* What one more exchange, or one request given up, is to the account.
LEMMA Balance ==
  ASSUME NEW l \in Nat, NEW d \in Nat, NEW gap \in Nat, NEW c1 \in Nat, NEW c2 \in Nat,
         l + (0 + d) = gap + c1
  PROVE  /\ c1 = c2 + 1 => l + d = (gap + 1) + c2
         /\ c1 = c2 => l + (1 + d) = (gap + 1) + c2
         /\ c1 = c2 => (l + 1) + d = (gap + 1) + c2
  OBVIOUS

\* A response that has been read is paired with the oldest request.
LEMMA PairedState ==
  ASSUME NEW m, NEW x, NEW y, NEW at, State(m, x, y, at), NEW at1,
         ~failed, requests # <<>>, phase # "c2s",
         NEW decoder, NEW incomplete \in BOOLEAN,
         Replied(script, decoder, (m - Len(requests)) + 1, incomplete),
         Pair(Taken(decoder), incomplete, AfterTake(decoder)),
         UNCHANGED <<script, c2s, s2c, responseClosed, discarded, finishing>>,
         rest' \in Seq(Tokens), phase' = phase \/ phase' = "idle",
         phase' \in {"idle", "s2c"} => responses = <<>>,
         ~(responseClosed = "unclean" /\ phase' = "idle") =>
           /\ decoder.message.total = 1 + Body(script[(m - Len(requests)) + 1])
           /\ Placed(script, responses, at1, phase', rest', Position(decoder), y)
  PROVE  State(m, x, y, at1)'
<1>1. PICK s \in Scripts : s = script
  BY DEF State, Types
<1>2. /\ s \in Seq(Exchange) /\ Len(s) \in Nat /\ DOMAIN s = 1..Len(s)
      /\ \A j \in 1..Len(s) : s[j] \in Exchange /\ (s[j].status = 101 => s[j].upgrade)
  BY ScriptIs
<1>3. PICK q \in Seq(Messages) : q = requests
  BY DEF State, Types
<1>4. PICK r \in Seq(Messages), n \in Nat :
        /\ r = Tail(q) /\ n = Len(r) /\ Len(q) = n + 1 /\ Head(q) = q[1] /\ q[1] \in Messages
        /\ \A j \in 1..n : r[j] = q[j + 1]
  <2>1. /\ Tail(q) \in Seq(Messages) /\ Len(Tail(q)) = Len(q) - 1 /\ Len(q) \in Nat \ {0}
        /\ Head(q) = q[1] /\ Head(q) \in Messages
        /\ \A i \in DOMAIN Tail(q) : i + 1 \in DOMAIN q /\ Tail(q)[i] = q[i + 1]
    BY <1>3, TailOf
  <2>2. PICK r \in Seq(Messages) : r = Tail(q)
    BY <2>1
  <2>3. PICK n \in Nat : n = Len(r)
    OBVIOUS
  <2>4. DOMAIN r = 1..n /\ Len(q) = n + 1
    BY <2>1, <2>2, <2>3
  <2> QED
    BY <2>1, <2>2, <2>3, <2>4
<1>5. PICK k \in Nat : k = m /\ k \in (n + 1)..Len(s)
  BY <1>1, <1>3, <1>4 DEF State, Queue
<1>6. PICK i \in 1..Len(s) : i = (m - Len(requests)) + 1 /\ i = k - n
  <2>1. k - n \in 1..Len(s) /\ (k - (n + 1)) + 1 = k - n
    BY <1>2, <1>5
  <2> QED
    BY <1>3, <1>4, <1>5, <2>1
<1>7. /\ Replied(s, decoder, i, incomplete)
      /\ ~(responseClosed = "unclean" /\ phase' = "idle") =>
           /\ decoder.message.total = 1 + Body(s[i])
           /\ Placed(s, responses, at1, phase', rest', Position(decoder), y)
  BY <1>1, <1>6
<1>8. PICK asked \in Messages : asked = q[1] /\ Queued(s, asked, i)
  <2>1. 1 \in DOMAIN q /\ (k - (n + 1)) + 1 = i
    BY <1>4, <1>5, <1>6
  <2>2. \A j \in DOMAIN q : Queued(s, q[j], (k - (n + 1)) + j)
    BY <1>1, <1>3, <1>4, <1>5 DEF State, Queue
  <2>3. Queued(s, q[1], i)
    BY <2>1, <2>2
  <2> QED
    BY <1>4, <2>3
<1>9. upgraded = NoExchange
  BY DEF State, Steering
<1>10. /\ asked.head.of = i /\ Taken(decoder).head.of = i /\ Taken(decoder).head.kind # "interim"
       /\ AfterTake(decoder) \in Decoders /\ AfterTake(decoder).need = -1
       /\ AfterTake(decoder).message = NewMessage
       /\ AfterTake(decoder).consumed = Position(decoder)
       /\ Taken(decoder).bytes \in Seq(Tokens)
  <2>1. PICK d \in Decoders : d = decoder
    BY <1>7 DEF Replied
  <2>2. /\ Taken(d).head = d.message.head
        /\ AfterTake(d) \in Decoders /\ AfterTake(d).consumed = d.consumed + d.message.total
        /\ AfterTake(d).need = -1 /\ AfterTake(d).message = NewMessage
        /\ Taken(d).bytes \in Seq(Tokens)
    BY TakenIs DEF Messages
  <2>3. Token("head", i).of = i /\ Token("head", i).kind # "interim"
    BY DEF Token
  <2> QED
    BY <1>7, <1>8, <2>1, <2>2, <2>3 DEF Replied, Queued, Position
<1>11. PICK websocket \in BOOLEAN, tunnel \in BOOLEAN :
         /\ websocket <=> (s[i].status = 101 \/ s[i].upgrade)
         /\ tunnel <=> (s[i].method = "CONNECT" /\ s[i].status = 200)
  OBVIOUS
<1>12. PICK c \in Seq(Tokens) :
         c = IF websocket THEN AppendBounded(asked.bytes, upgradeClient, Limit) ELSE asked.bytes
  <2>1. asked.bytes \in Seq(Tokens) /\ upgradeClient \in Seq(Tokens) /\ Limit \in Nat
    BY LimitsAssumption DEF State, Types, Messages
  <2>2. AppendBounded(asked.bytes, upgradeClient, Limit) \in Seq(Tokens)
    BY <2>1, AppendBoundedIs
  <2> QED
    BY <2>1, <2>2
<1>13. PICK b \in BOOLEAN :
         b = (incomplete \/ (websocket /\ Len(upgradeClient) > Room(asked.bytes, Limit)))
  OBVIOUS
<1>14. PICK protocol \in {"http", "websocket"} :
         protocol = IF websocket THEN "websocket" ELSE "http"
  OBVIOUS
<1>15. PICK e : e = [request |-> asked.head.of, response |-> Taken(decoder).head.of,
                     c2s |-> c, s2c |-> Taken(decoder).bytes,
                     requestOffset |-> asked.offset, responseOffset |-> Taken(decoder).offset,
                     incomplete |-> b, protocol |-> protocol]
  OBVIOUS
<1>16. ASSUME ~asked.dropped
       PROVE  e \in Exchanges /\ Own(s, e) /\ e.request = i /\ e.protocol = protocol
  <2>1. protocol = "http" => c = asked.bytes /\ b = incomplete
    BY <1>12, <1>13, <1>14
  <2> QED
    BY <1>7, <1>8, <1>15, <1>16, <2>1, PairIsOwn
<1>17. /\ upgraded' = IF ~asked.dropped /\ websocket THEN e ELSE upgraded
       /\ emitted' = IF ~asked.dropped /\ ~websocket THEN Append(emitted, e) ELSE emitted
       /\ UNCHANGED clientUpgrade
       /\ IF tunnel THEN Fail
          ELSE /\ requests' = r
               /\ response' = AfterTake(decoder)
               /\ requestBytes' = requestBytes - Len(asked.bytes)
               /\ upgradeClient' = IF ~asked.dropped /\ websocket THEN <<>> ELSE upgradeClient
               /\ UNCHANGED <<request, backlog, failed>>
  <2> DEFINE web == script[Taken(decoder).head.of].status = 101 \/ script[requests[1].head.of].upgrade
             exchange ==
               [request |-> requests[1].head.of, response |-> Taken(decoder).head.of,
                c2s |-> IF web THEN AppendBounded(requests[1].bytes, upgradeClient, Limit)
                        ELSE requests[1].bytes,
                s2c |-> Taken(decoder).bytes,
                requestOffset |-> requests[1].offset, responseOffset |-> Taken(decoder).offset,
                incomplete |-> \/ incomplete
                               \/ web /\ Len(upgradeClient) > Room(requests[1].bytes, Limit),
                protocol |-> IF web THEN "websocket" ELSE "http"]
  <2>1. /\ upgraded' = IF ~requests[1].dropped /\ web THEN exchange ELSE upgraded
        /\ emitted' = IF ~requests[1].dropped /\ ~web THEN Append(emitted, exchange) ELSE emitted
        /\ UNCHANGED clientUpgrade
        /\ IF script[requests[1].head.of].method = "CONNECT"
              /\ script[Taken(decoder).head.of].status = 200
           THEN Fail
           ELSE /\ requests' = Tail(requests)
                /\ requestBytes' = requestBytes - Len(requests[1].bytes)
                /\ upgradeClient' = IF ~requests[1].dropped /\ web THEN <<>> ELSE upgradeClient
                /\ response' = AfterTake(decoder)
                /\ UNCHANGED <<request, backlog, failed>>
    BY <1>10, Zenon DEF Pair
  <2>2. requests[1] = asked /\ Tail(requests) = r
    BY <1>3, <1>4, <1>8
  <2>20. script[Taken(decoder).head.of] = s[i] /\ script[requests[1].head.of] = s[i]
    BY <1>1, <1>10, <2>2
  <2>3. web <=> websocket
    <3>1. web <=> (s[i].status = 101 \/ s[i].upgrade)
      <4>1. script[Taken(decoder).head.of].status = s[i].status
        BY <2>20
      <4>2. script[requests[1].head.of].upgrade <=> s[i].upgrade
        BY <2>20, Zenon
      <4> QED
        BY <4>1, <4>2, Zenon
    <3> HIDE DEF web
    <3> QED
      BY <1>11, <3>1, Zenon
  <2>4. exchange.incomplete = b
    BY <1>13, <2>2, <2>3
  <2>5. exchange = e
    BY <1>12, <1>14, <1>15, <2>2, <2>3, <2>4
  <2>6. tunnel <=> script[requests[1].head.of].method = "CONNECT"
                   /\ script[Taken(decoder).head.of].status = 200
    <3>1. /\ script[requests[1].head.of].method = s[i].method
          /\ script[Taken(decoder).head.of].status = s[i].status
      BY <2>20
    <3> QED
      BY <1>11, <3>1, Zenon
  <2> HIDE DEF exchange, web
  <2> QED
    BY <2>1, <2>2, <2>3, <2>5, <2>6
<1>61. /\ k - n \in Int /\ (k - (n + 1)) + 1 = k - n /\ k - (n + 1) \in Int /\ i = k - n
       /\ i \in Int
  <2>1. k - n \in Int /\ (k - (n + 1)) + 1 = k - n /\ k - (n + 1) \in Int
    OBVIOUS
  <2>2. i = k - n
    BY <1>6
  <2> QED
    BY <2>1, <2>2
<1>18. PICK u \in Seq(Exchanges) : u = emitted
  BY DEF State, Types
<1>19. /\ \A j \in DOMAIN u : Own(s, u[j]) /\ u[j].request < i
       /\ \A h, j \in DOMAIN u : h < j => u[h].request < u[j].request
  <2>1. /\ \A j \in DOMAIN u : Own(s, u[j])
        /\ \A h, j \in DOMAIN u : h < j => u[h].request < u[j].request
        /\ \A j \in DOMAIN u : u[j].request <= k - (n + 1)
    BY <1>1, <1>3, <1>4, <1>5, <1>18 DEF State, Handed
  <2>2. \A j \in DOMAIN u : u[j].request \in Nat
    BY RequestsAre
  <2>3. (k - (n + 1)) + 1 = i /\ k - (n + 1) \in Int /\ i \in Int
    BY <1>61
  <2> QED
    BY <2>1, <2>2, <2>3
<1>20. PICK v \in Seq(Exchanges) :
         /\ v = emitted'
         /\ \A j \in DOMAIN v : Own(s, v[j]) /\ v[j].request <= i
         /\ \A h, j \in DOMAIN v : h < j => v[h].request < v[j].request
         /\ Len(v) = Len(u) + IF ~asked.dropped /\ ~websocket THEN 1 ELSE 0
         /\ asked.dropped \/ websocket => v = u
  <2>1. CASE ~asked.dropped /\ ~websocket
    <3>1. PICK v \in Seq(Exchanges) : v = Append(u, e)
      <4>1. PICK g \in Exchanges : g = e
        BY <1>16, <2>1
      <4>2. Append(u, g) \in Seq(Exchanges)
        BY AppendedIs
      <4> QED
        BY <4>1, <4>2
    <3>2. /\ Len(u) \in Nat /\ DOMAIN u = 1..Len(u) /\ DOMAIN v = 1..(Len(u) + 1)
          /\ Len(v) = Len(u) + 1
          /\ \A j \in DOMAIN u : v[j] = u[j]
          /\ v[Len(u) + 1] = e
      BY <1>16, <2>1, <3>1, AppendedIs
    <3>3. \A j \in DOMAIN v : Own(s, v[j]) /\ v[j].request <= i
      <4>1. e.request <= i /\ Own(s, e)
        BY <1>16, <2>1
      <4>2. \A j \in DOMAIN u : u[j].request <= i
        <5>1. \A j \in DOMAIN u : u[j].request \in Nat
          BY RequestsAre
        <5> QED
          BY <1>19, <5>1
      <4> QED
        BY <1>19, <3>2, <4>1, <4>2
    <3>4. \A h, j \in DOMAIN v : h < j => v[h].request < v[j].request
      <4>1. e.request = i
        BY <1>16, <2>1
      <4>2. SUFFICES ASSUME NEW h \in DOMAIN v, NEW j \in DOMAIN v, h < j
                     PROVE  v[h].request < v[j].request
        OBVIOUS
      <4>3. h \in DOMAIN u
        BY <3>2, <4>2
      <4>4. CASE j \in DOMAIN u
        BY <1>19, <3>2, <4>2, <4>3, <4>4
      <4>5. CASE j = Len(u) + 1
        BY <1>19, <3>2, <4>1, <4>3, <4>5
      <4> QED
        BY <3>2, <4>4, <4>5
    <3>5. v = emitted'
      BY <1>17, <1>18, <2>1, <3>1
    <3> QED
      BY <2>1, <3>2, <3>3, <3>4, <3>5
  <2>2. CASE asked.dropped \/ websocket
    <3>1. u = emitted' /\ Len(u) \in Nat
      BY <1>17, <1>18, <2>2
    <3>2. \A j \in DOMAIN u : u[j].request <= i
      <4>1. \A j \in DOMAIN u : u[j].request \in Nat
        BY RequestsAre
      <4> QED
        BY <1>19, <4>1
    <3> QED
      BY <1>19, <2>2, <3>1, <3>2
  <2> QED
    BY <2>1, <2>2
<1>21. /\ upgraded' \in Exchanges \cup {NoExchange}
       /\ upgraded' # NoExchange <=> ~asked.dropped /\ websocket
       /\ upgraded' # NoExchange =>
            /\ Own(s, upgraded') /\ upgraded'.protocol = "websocket" /\ upgraded'.request = i
            /\ \A j \in DOMAIN v : v[j].request < i
  <2>1. CASE ~asked.dropped /\ websocket
    <3>1. upgraded' = e /\ e \in Exchanges /\ Own(s, e) /\ e.request = i /\ e.protocol = "websocket"
      BY <1>14, <1>16, <1>17, <2>1
    <3>2. e # NoExchange
      BY <3>1, NotNoExchange
    <3>3. \A j \in DOMAIN v : v[j].request < i
      BY <1>19, <1>20, <2>1
    <3> QED
      BY <2>1, <3>1, <3>2, <3>3
  <2>2. CASE asked.dropped \/ ~websocket
    BY <1>9, <1>17, <2>2
  <2> QED
    BY <2>1, <2>2
<1>22. CASE tunnel
  <2>1. Fail /\ failed' = TRUE /\ UNCHANGED clientUpgrade
    BY <1>17, <1>22 DEF Fail
  <2>2. Handed(m)'
    <3>1. \A j \in DOMAIN v : Own(s, v[j])
      BY <1>20
    <3> QED
      BY <1>1, <1>20, <1>21, <2>1, <3>1 DEF Handed
  <2>3. discarded' \in Nat
    BY DEF State, Types
  <2> QED
    BY <1>20, <1>21, <2>1, <2>2, <2>3, FailedState
<1>23. CASE ~tunnel
  <2>1. /\ requests' = r /\ response' = AfterTake(decoder) /\ requestBytes' = requestBytes - Len(asked.bytes)
        /\ upgradeClient' = IF ~asked.dropped /\ websocket THEN <<>> ELSE upgradeClient
        /\ UNCHANGED <<request, responses, responseBytes, failed, clientUpgrade>>
    BY <1>17, <1>23 DEF backlog
  <2>2. Types'
    <3>1. upgradeClient' \in Seq(Tokens)
      BY <2>1, EmptySeq DEF State, Types
    <3>2. requestBytes' \in Int
      <4>1. PICK l \in Nat, g \in Int : l = Len(asked.bytes) /\ g = requestBytes
        BY DEF State, Types, Messages
      <4> QED
        BY <2>1, <4>1
    <3>3. requests' \in Seq(Messages) /\ response' \in Decoders
      BY <1>10, <2>1
    <3>4. phase' \in Phases
      BY DEF State, Types, Phases
    <3> QED
      BY <1>20, <1>21, <2>1, <3>1, <3>2, <3>3, <3>4 DEF State, Types
  <2>3. Fed(x, y)'
    BY DEF State, Fed
  <2>4. Queue(m)'
    <3>1. ASSUME NEW j \in DOMAIN r
          PROVE  Queued(s, r[j], (k - n) + j)
      <4>0. j \in 1..n /\ DOMAIN q = 1..(n + 1)
        BY <1>4
      <4>1. j \in 1..n /\ j + 1 \in DOMAIN q /\ (k - (n + 1)) + (j + 1) = (k - n) + j
        BY <4>0
      <4>2. Queued(s, q[j + 1], (k - (n + 1)) + (j + 1))
        BY <1>1, <1>3, <1>4, <1>5, <4>1 DEF State, Queue
      <4> QED
        BY <1>4, <4>1, <4>2
    <3>2. k \in n..Len(s)
      BY <1>2, <1>5
    <3>3. /\ \A j \in 1..k : s[j].upgrade <=> clientUpgrade /\ j = k
          /\ clientUpgrade => k > 0
      BY <1>1, <1>5 DEF State, Queue
    <3> QED
      BY <1>1, <1>4, <1>5, <2>1, <3>1, <3>2, <3>3 DEF Queue
  <2>5. Reading(m, x)'
    BY <2>1 DEF State, Reading, Position
  <2>6. Replying(m, y, at1)'
    <3>1. SUFFICES ASSUME Live'
                   PROVE  /\ Answering(s, response', i + 1)
                          /\ response'.need # -1 => requests' # <<>>
                          /\ Backlog(y, at1)'
      <4>1. (m - Len(requests)) + 1 = i /\ (m - Len(requests')) + 1 = i + 1
        BY <1>4, <1>5, <1>6, <2>1
      <4> QED
        BY <1>1, <4>1 DEF Replying
    <3>2. ~(responseClosed = "unclean" /\ phase' = "idle") /\ (clientUpgrade => r # <<>>)
      BY <2>1, <3>1 DEF Live
    <3>3. /\ decoder.message.total = 1 + Body(s[i])
          /\ Placed(s, responses, at1, phase', rest', Position(decoder), y)
      BY <1>7, <3>2
    <3>4. ~Tunnels(s[i])
      <4>1. ASSUME s[i].upgrade
            PROVE  FALSE
        <5>1. clientUpgrade /\ i = k
          BY <1>1, <1>5, <1>6, <4>1 DEF State, Queue
        <5>2. n = 0
          BY <1>6, <5>1
        <5>3. r = <<>>
          BY <1>4, <5>2, EmptySeq
        <5> QED
          BY <3>2, <5>1, <5>3
      <4> QED
        BY <1>11, <1>23, <4>1, Zenon DEF Tunnels
    <3>5. Position(decoder) = ReplyAt(s, i + 1)
      <4>1. Late(s[i]) = 0
        BY <3>4 DEF Late
      <4>2. PICK a \in Nat, h \in Nat, l \in Nat :
              a = ReplyAt(s, i) /\ h = Early(s[i]) /\ l = Body(s[i])
        BY AnswerSlice
      <4>3. ReplyAt(s, i + 1) = a + (h + (1 + l) + 0)
        BY <4>1, <4>2, AnswerSlice
      <4>4. Position(decoder) = (a + h) + (1 + l)
        BY <1>7, <3>3, <4>2 DEF Replied, Position
      <4> QED
        BY <4>3, <4>4
    <3>6. Answering(s, response', i + 1)
      BY <1>10, <2>1, <3>5 DEF Answering
    <3>7. Position(response)' = Position(decoder)
      <4>1. PICK p \in Nat : p = Position(decoder)
        BY <3>5, <1>2, <1>10 DEF Decoders
      <4>2. response'.consumed = p /\ response'.message.total = 0
        BY <1>10, <2>1, <4>1, FreshIs
      <4> QED
        BY <4>1, <4>2 DEF Position
    <3> QED
      BY <1>1, <1>10, <2>1, <3>3, <3>6, <3>7 DEF Backlog
  <2>7. Steering(y)'
    <3>1. /\ phase' \in {"idle", "s2c"} => responses' = <<>>
          /\ response'.need = -1
      BY <1>10, <2>1
    <3>2. upgraded' # NoExchange => requests' = <<>> /\ clientUpgrade'
      <4>1. ASSUME websocket
            PROVE  r = <<>> /\ clientUpgrade
        <5>1. s[i].upgrade
          BY <1>2, <1>11, <4>1
        <5>2. clientUpgrade /\ i = k
          BY <1>1, <1>5, <1>6, <5>1 DEF State, Queue
        <5>3. n = 0
          BY <1>6, <5>2
        <5> QED
          BY <1>4, <5>2, <5>3, EmptySeq
      <4> QED
        BY <1>21, <2>1, <4>1
    <3> QED
      BY <3>1, <3>2 DEF State, Steering
  <2>8. m - Len(requests') = i
    BY <1>4, <1>5, <1>6, <2>1
  <2>9. Handed(m)'
    BY <1>1, <1>20, <1>21, <2>8 DEF Handed
  <2>10. Accounted(m)'
    <3>1. PICK c1 \in Nat, c2 \in Nat, l \in Nat, d \in Nat :
            /\ c1 = Cardinality(Dropped(q)) /\ c2 = Cardinality(Dropped(r))
            /\ l = Len(u) /\ d = discarded
      <4>1. Cardinality(Dropped(q)) \in Nat /\ Cardinality(Dropped(r)) \in Nat
        BY <1>3, <1>4, DroppedTail
      <4>2. Len(u) \in Nat /\ discarded \in Nat
        BY DEF State, Types
      <4> QED
        BY <4>1, <4>2
    <3>2. c1 = c2 + IF asked.dropped THEN 1 ELSE 0
      BY <1>3, <1>4, <1>8, <3>1, DroppedTail
    <3>3. l + (0 + d) = (k - (n + 1)) + c1
      BY <1>3, <1>4, <1>5, <1>9, <1>18, <3>1 DEF State, Accounted
    <3>30. PICK gap \in Nat : gap = k - (n + 1) /\ i = gap + 1
      <4>1. k - (n + 1) \in Nat /\ k - n = (k - (n + 1)) + 1
        BY <1>2, <1>5
      <4> QED
        BY <1>6, <4>1
    <3>31. l + (0 + d) = gap + c1
      BY <3>3, <3>30
    <3>32. /\ c1 = c2 + 1 => l + d = (gap + 1) + c2
           /\ c1 = c2 => l + (1 + d) = (gap + 1) + c2
           /\ c1 = c2 => (l + 1) + d = (gap + 1) + c2
      BY <3>31, Balance
    <3>4. Len(v) + ((IF upgraded' = NoExchange THEN 0 ELSE 1) + d) = i + c2
      <4>1. CASE asked.dropped
        <5>1. Len(v) = l + 0 /\ upgraded' = NoExchange /\ c1 = c2 + 1
          BY <1>20, <1>21, <3>1, <3>2, <4>1
        <5>2. l + d = i + c2
          BY <3>30, <3>32, <5>1
        <5> QED
          BY <5>1, <5>2
      <4>2. CASE ~asked.dropped /\ websocket
        <5>1. Len(v) = l + 0 /\ upgraded' # NoExchange /\ c1 = c2
          BY <1>20, <1>21, <3>1, <3>2, <4>2
        <5>2. l + (1 + d) = i + c2
          BY <3>30, <3>32, <5>1
        <5> QED
          BY <5>1, <5>2
      <4>3. CASE ~asked.dropped /\ ~websocket
        <5>1. Len(v) = l + 1 /\ upgraded' = NoExchange /\ c1 = c2
          BY <1>20, <1>21, <3>1, <3>2, <4>3
        <5>2. (l + 1) + d = i + c2
          BY <3>30, <3>32, <5>1
        <5> QED
          BY <5>1, <5>2
      <4> QED
        BY <4>1, <4>2, <4>3
    <3> QED
      BY <1>20, <2>1, <2>8, <3>1, <3>4 DEF Accounted
  <2> QED
    BY <2>2, <2>3, <2>4, <2>5, <2>6, <2>7, <2>9, <2>10 DEF State
<1> QED
  BY <1>22, <1>23

\* What of a response is kept grows with the first bytes only.
LEMMA KeptGrows ==
  ASSUME NEW w \in Seq(Tokens), NEW a \in Nat, NEW total \in Nat, a + total < Len(w),
         NEW message \in Messages, message.total = total,
         message.bytes = Slice(w, a, a + Kept(total))
  PROVE  RetainResponse(message, w[(a + total) + 1]).bytes = Slice(w, a, a + Kept(total + 1))
<1>1. PICK l \in Nat : l = Limit
  BY LimitsAssumption
<1>2. PICK p \in Nat : p = a + total /\ p + 1 \in 1..Len(w) /\ w[p + 1] \in Tokens
  <2>1. a + total \in Nat /\ (a + total) + 1 \in 1..Len(w)
    OBVIOUS
  <2> QED
    BY <2>1, ElementOfSeq
<1>3. RetainResponse(message, w[p + 1]).bytes =
        IF Len(message.bytes) < l THEN Append(message.bytes, w[p + 1]) ELSE message.bytes
  BY <1>1, <1>2, RetainResponseIs
<1>4. Kept(total) = (IF total < l THEN total ELSE l)
      /\ Kept(total + 1) = IF total + 1 < l THEN total + 1 ELSE l
  BY <1>1 DEF Kept
<1>5. CASE total < l
  <2>1. Kept(total) = total /\ Kept(total + 1) = total + 1 /\ a + (total + 1) = p + 1
    BY <1>2, <1>4, <1>5
  <2>2. a \in 0..Len(w) /\ p \in a..Len(w) /\ p < Len(w) /\ p - a = total
    BY <1>2
  <2>3. Len(Slice(w, a, p)) = total
    BY <2>2, SliceIs
  <2>4. Append(Slice(w, a, p), w[p + 1]) = Slice(w, a, p + 1)
    BY <2>2, SliceGrown
  <2> QED
    BY <1>2, <1>3, <1>5, <2>1, <2>3, <2>4
<1>6. CASE ~(total < l)
  <2>1. Kept(total) = l /\ Kept(total + 1) = l
    BY <1>4, <1>6
  <2>2. a \in 0..Len(w) /\ a + l \in a..Len(w) /\ (a + l) - a = l
    BY <1>6
  <2>3. PICK b \in a..Len(w) : b = a + l /\ b - a = l
    BY <2>2
  <2>4. Len(Slice(w, a, b)) = l
    BY <2>2, <2>3, SliceIs
  <2> QED
    BY <1>2, <1>3, <2>1, <2>3, <2>4
<1> QED
  BY <1>5, <1>6

\* A response begins with its interim responses, if it has any, and its head.
LEMMA ReplyBegins ==
  ASSUME NEW s \in Scripts, NEW i \in 1..Len(s), NEW d \in Decoders, Answering(s, d, i), d.need = -1,
         NEW token, token = ServerWire(s)[Position(d) + 1]
  PROVE  /\ d.message = NewMessage /\ Position(d) = d.consumed
         /\ \/ s[i].interim /\ d.consumed = ReplyAt(s, i) /\ token = Token("interim", i)
            \/ d.consumed = ReplyAt(s, i) + Early(s[i]) /\ token = Token("head", i)
<1>1. /\ d.message = NewMessage
      /\ d.consumed = ReplyAt(s, i) \/ (s[i].interim /\ d.consumed = ReplyAt(s, i) + 1)
  BY DEF Answering, UntilClose
<1>2. PICK p \in Nat : p = d.consumed /\ Position(d) = p
  <2>1. d.consumed \in Nat /\ d.message.total = 0
    BY <1>1, FreshIs DEF Decoders
  <2> QED
    BY <2>1 DEF Position
<1>3. PICK a \in Nat, h \in Nat : a = ReplyAt(s, i) /\ h = Early(s[i])
  BY AnswerSlice
<1>4. /\ s[i].interim => ServerWire(s)[a + 1] = Token("interim", i)
      /\ ServerWire(s)[a + h + 1] = Token("head", i)
      /\ h = IF s[i].interim THEN 1 ELSE 0
  BY <1>3, AnswerSlice DEF Early
<1>5. CASE s[i].interim
  BY <1>1, <1>2, <1>3, <1>4, <1>5
<1>6. CASE ~s[i].interim
  <2>1. h = 0 /\ p = a
    BY <1>1, <1>2, <1>3, <1>4, <1>6
  <2> QED
    BY <1>1, <1>2, <1>3, <1>4, <2>1
<1> QED
  BY <1>5, <1>6

\* The head of the response to the request asked: its body's length is the
\* one the server sends.
LEMMA HeadOfReplyIs ==
  ASSUME NEW s \in Scripts, NEW i \in 1..Len(s), s = script, response \in Decoders,
         Answering(s, response, i), response.need = -1, NEW asked, asked.of = i,
         NEW token \in Tokens, token = ServerWire(s)[Position(response) + 1], token.kind = "head"
  PROVE  LET d == HeadOfResponse(token, asked)
         IN  /\ d \in Decoders /\ Position(d) = Position(response) + 1
             /\ d.need = 0 => Replied(s, d, i, FALSE)
             /\ d.need # 0 => Answering(s, d, i) /\ d.need # -1
<1>1. PICK r \in Decoders : r = response
  OBVIOUS
<1>2. /\ r.message = NewMessage /\ Position(r) = r.consumed
      /\ r.consumed = ReplyAt(s, i) + Early(s[i]) /\ token = Token("head", i)
  <2>1. Token("interim", i).kind = "interim"
    BY DEF Token
  <2>2. /\ r.message = NewMessage /\ Position(r) = r.consumed
        /\ \/ s[i].interim /\ r.consumed = ReplyAt(s, i) /\ token = Token("interim", i)
           \/ r.consumed = ReplyAt(s, i) + Early(s[i]) /\ token = Token("head", i)
    BY <1>1, ReplyBegins
  <2> QED
    BY <2>1, <2>2
<1>3. token.of = i /\ token.kind = "head"
  BY <1>2 DEF Token
<1>4. /\ s \in Seq(Exchange) /\ s[i] \in Exchange /\ DOMAIN s = 1..Len(s)
      /\ s[i].status = 101 => s[i].upgrade
  BY ScriptIs
<1>5. PICK b \in Nat, l \in Nat : b = Body(s[i]) /\ l = Limit /\ l > 0
  <2>1. Body(s[i]) \in Nat
    BY AnswerSlice
  <2>2. Limit \in Nat /\ Limit > 0
    BY LimitsAssumption
  <2> QED
    BY <2>1, <2>2
<1>6. PICK need \in Int :
        /\ HeadOfResponse(token, asked) = ReadHead(r, token, need)
        /\ \/ need = b
           \/ need = UntilClose /\ s[i].reply = UntilClose /\ b = 2 /\ ~Tunnels(s[i])
  <2> DEFINE noBody == s[i].method = "HEAD" \/ s[i].status = 101
                       \/ (s[i].method = "CONNECT" /\ s[i].status = 200)
             need == IF noBody THEN 0 ELSE s[i].reply
  <2>1. HeadOfResponse(token, asked) = ReadHead(r, token, need)
    BY <1>1, <1>3 DEF HeadOfResponse
  <2>2. noBody <=> s[i].method = "HEAD" \/ Tunnels(s[i])
    BY <1>4, Zenon DEF Tunnels
  <2>3. s[i].reply \in Nat \/ s[i].reply = UntilClose
    BY <1>4 DEF Exchange
  <2> HIDE DEF noBody
  <2>4. CASE noBody
    BY <1>5, <2>1, <2>2, <2>4 DEF Body
  <2>5. CASE ~noBody /\ s[i].reply = UntilClose
    BY <1>5, <2>1, <2>2, <2>5 DEF Body, UntilClose
  <2>6. CASE ~noBody /\ s[i].reply # UntilClose
    BY <1>5, <2>1, <2>2, <2>3, <2>6 DEF Body
  <2> QED
    BY <2>4, <2>5, <2>6
<1>7. PICK d \in Decoders :
        /\ d = HeadOfResponse(token, asked) /\ d.consumed = r.consumed /\ d.need = need
        /\ d.message.total = 1 /\ d.message.head = token /\ d.message.bytes = Append(<<>>, token)
  <2>1. ReadHead(r, token, need) \in Decoders /\ ReadHead(r, token, need).consumed = r.consumed
    BY ReadHeadIs
  <2>2. ReadHead(r, token, need).need = need /\ ReadHead(r, token, need).message.head = token
    BY ReadHeadIs
  <2>3. ReadHead(r, token, need).message.total = r.message.total + 1
    <3>1. ASSUME NEW c \in Decoders, NEW t \in Tokens, NEW n \in Int
          PROVE  ReadHead(c, t, n).message.total = c.message.total + 1
      BY ReadHeadIs
    <3> QED
      BY <3>1, Zenon
  <2>4. ReadHead(r, token, need).message.bytes = Append(r.message.bytes, token)
    BY ReadHeadIs
  <2>5. r.message.total = 0 /\ r.message.bytes = <<>>
    BY <1>2, FreshIs
  <2> QED
    BY <1>6, <2>1, <2>2, <2>3, <2>4, <2>5
<1>8. PICK p \in Nat : p = r.consumed
  BY DEF Decoders
<1>9. Position(d) = p + 1
  BY <1>7, <1>8 DEF Position
<1>10. Kept(1) = 1
  BY <1>5 DEF Kept
<1>11. d.message.bytes = Slice(ServerWire(s), d.consumed, d.consumed + Kept(d.message.total))
  <2>1. PICK w \in Seq(Tokens) : w = ServerWire(s) /\ Len(w) \in Nat
    BY ScriptIs
  <2>2. p < Len(w)
    <3>1. PICK a \in Nat, h \in Nat, g \in Nat :
            a = ReplyAt(s, i) /\ h = Early(s[i]) /\ g = Late(s[i])
      BY AnswerSlice
    <3>2. PICK c \in Nat : c = ReplyAt(s, i + 1) /\ c <= Len(w)
      <4>1. ReplyAt(s, i + 1) \in 0..Len(w)
        BY <2>1, AnswerSlice
      <4> QED
        BY <2>1, <4>1
    <3>3. c = a + (h + (1 + b) + g)
      BY <1>5, <3>1, <3>2, AnswerSlice
    <3>4. p = a + h
      BY <1>2, <1>8, <3>1
    <3> QED
      BY <2>1, <3>2, <3>3, <3>4
  <2>3. p \in 0..Len(w) /\ p \in p..Len(w)
    BY <2>1, <2>2
  <2>4. /\ Append(Slice(w, p, p), w[p + 1]) = Slice(w, p, p + 1)
        /\ Slice(w, p, p) = <<>>
    <3>1. Append(Slice(w, p, p), w[p + 1]) = Slice(w, p, p + 1)
      BY <2>2, <2>3, SliceGrown
    <3>2. Slice(w, p, p) = <<>>
      BY <2>3, SliceEmpty
    <3> QED
      BY <3>1, <3>2
  <2>5. token = w[p + 1]
    BY <1>1, <1>2, <1>8, <2>1
  <2> QED
    BY <1>7, <1>8, <1>10, <2>1, <2>4, <2>5
<1>12. d.need = 0 => Replied(s, d, i, FALSE)
  <2>1. ASSUME need = 0
        PROVE  b = 0
    BY <1>6, <2>1 DEF UntilClose
  <2>2. 1 \in 1..(1 + b)
    OBVIOUS
  <2> QED
    BY <1>2, <1>4, <1>5, <1>7, <1>11, <2>1, <2>2 DEF Replied
<1>13. d.need # 0 => Answering(s, d, i) /\ d.need # -1
  <2>1. ASSUME need # 0
        PROVE  \/ need > 0 /\ 1 + need = 1 + b
               \/ need = UntilClose /\ s[i].reply = UntilClose /\ b = 2 /\ ~Tunnels(s[i])
    BY <1>6, <2>1
  <2> QED
    BY <1>2, <1>4, <1>5, <1>7, <1>11, <2>1 DEF Answering, UntilClose
<1> QED
  BY <1>1, <1>2, <1>7, <1>8, <1>9, <1>12, <1>13

\* The next byte of its body.
LEMMA BodyOfReplyIs ==
  ASSUME NEW s \in Scripts, NEW i \in 1..Len(s), NEW r \in Decoders,
         Answering(s, r, i), r.need # -1, Position(r) < Len(ServerWire(s)),
         NEW token \in Tokens, token = ServerWire(s)[Position(r) + 1]
  PROVE  LET d == ReadBody(r, RetainResponse(r.message, token))
         IN  /\ d \in Decoders /\ Position(d) = Position(r) + 1
             /\ d.need = 0 => Replied(s, d, i, FALSE)
             /\ d.need # 0 => Answering(s, d, i) /\ d.need # -1
<1>1. /\ r.message.total > 0 /\ r.consumed = ReplyAt(s, i) + Early(s[i])
      /\ r.message.head = Token("head", i)
      /\ r.message.bytes = Slice(ServerWire(s), r.consumed, r.consumed + Kept(r.message.total))
      /\ \/ r.need = UntilClose /\ s[i].reply = UntilClose /\ Body(s[i]) = 2 /\ ~Tunnels(s[i])
         \/ r.need > 0 /\ r.message.total + r.need = 1 + Body(s[i])
  BY DEF Answering
<1>2. PICK message \in Messages : message = r.message
  BY DEF Decoders
<1>3. PICK a \in Nat, total \in Nat, need \in Int :
        a = r.consumed /\ total = message.total /\ need = r.need
  <2>1. r.consumed \in Nat /\ r.need \in Int
    BY DEF Decoders
  <2>2. message.total \in Nat
    BY DEF Messages
  <2> QED
    BY <2>1, <2>2
<1>4. PICK w \in Seq(Tokens) : w = ServerWire(s) /\ Len(w) \in Nat
  BY ScriptIs
<1>5. Position(r) = a + total
  BY <1>2, <1>3 DEF Position
<1>6. PICK kept \in Messages :
        /\ kept = RetainResponse(message, token)
        /\ kept.total = message.total + 1 /\ kept.head = message.head
  BY RetainResponseIs
<1>7. kept.bytes = Slice(w, a, a + Kept(total + 1))
  <2>1. a + total < Len(w) /\ message.total = total /\ token = w[(a + total) + 1]
    BY <1>3, <1>4, <1>5
  <2>2. message.bytes = Slice(w, a, a + Kept(total))
    BY <1>1, <1>2, <1>3, <1>4
  <2>3. RetainResponse(message, w[(a + total) + 1]).bytes = Slice(w, a, a + Kept(total + 1))
    BY <2>1, <2>2, KeptGrows
  <2> QED
    BY <1>6, <2>1, <2>3
<1>8. PICK d \in Decoders :
        /\ d = ReadBody(r, kept) /\ d.consumed = a /\ d.message = kept
        /\ d.need = IF need = UntilClose THEN UntilClose ELSE need - 1
  <2>1. ReadBody(r, kept) \in Decoders
    BY ReadBodyIs
  <2>2. ReadBody(r, kept).consumed = a /\ ReadBody(r, kept).message = kept
    BY <1>3, ReadBodyIs
  <2>3. ReadBody(r, kept).need = IF r.need = UntilClose THEN UntilClose ELSE r.need - 1
    BY ReadBodyIs
  <2> QED
    BY <1>3, <2>1, <2>2, <2>3
<1>9. PICK l \in Nat : l = total + 1 /\ l = d.message.total
  BY <1>3, <1>6, <1>8
<1>10. Position(d) = Position(r) + 1
  BY <1>5, <1>8, <1>9 DEF Position
<1>11. /\ i \in DOMAIN s /\ d.consumed = ReplyAt(s, i) + Early(s[i])
       /\ d.message.head = Token("head", i)
       /\ d.message.bytes = Slice(ServerWire(s), d.consumed, d.consumed + Kept(l))
  <2>1. i \in DOMAIN s
    BY ScriptIs
  <2> QED
    BY <1>1, <1>2, <1>3, <1>4, <1>6, <1>7, <1>8, <1>9, <2>1
<1>12. PICK b \in Nat : b = Body(s[i])
  BY AnswerSlice
<1>13. CASE need = UntilClose
  <2>1. /\ d.need = UntilClose /\ s[i].reply = UntilClose /\ Body(s[i]) = 2 /\ ~Tunnels(s[i])
    BY <1>1, <1>3, <1>8, <1>13 DEF UntilClose
  <2>2. d.need # 0 /\ d.need # -1 /\ d.message.total > 0
    BY <1>9, <2>1 DEF UntilClose
  <2>3. Answering(s, d, i)
    BY <1>9, <1>11, <2>1, <2>2 DEF Answering
  <2> QED
    BY <1>2, <1>6, <1>8, <1>10, <2>2, <2>3
<1>14. CASE need # UntilClose
  <2>1. need > 0 /\ total + need = 1 + b /\ d.need = need - 1
    BY <1>1, <1>2, <1>3, <1>8, <1>12, <1>14
  <2>2. ASSUME d.need = 0
        PROVE  Replied(s, d, i, FALSE)
    <3>1. l = 1 + b /\ l \in 1..(1 + b)
      BY <1>9, <2>1, <2>2
    <3> QED
      BY <1>9, <1>11, <1>12, <3>1 DEF Replied
  <2>3. ASSUME d.need # 0
        PROVE  Answering(s, d, i) /\ d.need # -1
    <3>1. d.need > 0 /\ l > 0 /\ l + d.need = 1 + b
      BY <1>9, <2>1, <2>3
    <3> QED
      BY <1>9, <1>11, <1>12, <3>1 DEF Answering
  <2> QED
    BY <1>2, <1>6, <1>8, <1>10, <2>2, <2>3
<1> QED
  BY <1>13, <1>14

\* A chunk joins the backlog behind the others, or in front of them.
LEMMA LaidBehind ==
  ASSUME NEW s \in Scripts, NEW chunks \in Seq(Seq(Tokens)), NEW at, Laid(s, chunks, at),
         NEW y \in 0..Len(ServerWire(s)), at[Len(chunks) + 1] <= y,
         NEW chunk \in Seq(Tokens), chunk = Slice(ServerWire(s), at[Len(chunks) + 1], y)
  PROVE  \E at1 : /\ Laid(s, Append(chunks, chunk), at1) /\ at1[1] = at[1]
                  /\ at1[Len(Append(chunks, chunk)) + 1] = y
<1>1. PICK n \in Nat : n = Len(chunks)
  OBVIOUS
<1>2. PICK r \in Seq(Seq(Tokens)) :
        /\ r = Append(chunks, chunk) /\ Len(r) = n + 1 /\ r[n + 1] = chunk
        /\ \A j \in 1..n : r[j] = chunks[j]
  <2>1. /\ Append(chunks, chunk) \in Seq(Seq(Tokens)) /\ Append(chunks, chunk)[n + 1] = chunk
        /\ \A j \in 1..n : Append(chunks, chunk)[j] = chunks[j]
    BY <1>1, AppendedIs
  <2>2. Len(Append(chunks, chunk)) = n + 1
    BY <1>1
  <2> QED
    BY <2>1, <2>2
<1>3. PICK w : w = ServerWire(s)
  OBVIOUS
<1>4. /\ at \in [1..(n + 1) -> 0..Len(w)]
      /\ \A j \in 1..n : at[j] <= at[j + 1] /\ chunks[j] = Slice(w, at[j], at[j + 1])
  BY <1>1, <1>3 DEF Laid
<1> DEFINE at1 == [j \in 1..((n + 1) + 1) |-> IF j <= n + 1 THEN at[j] ELSE y]
<1>5. /\ \A j \in 1..(n + 1) : at1[j] = at[j]
      /\ at1[(n + 1) + 1] = y
  <2>1. \A j \in 1..(n + 1) : j \in 1..((n + 1) + 1) /\ j <= n + 1
    OBVIOUS
  <2>2. (n + 1) + 1 \in 1..((n + 1) + 1) /\ ~((n + 1) + 1 <= n + 1)
    OBVIOUS
  <2> QED
    BY <2>1, <2>2
<1>6. at1 \in [1..((n + 1) + 1) -> 0..Len(w)]
  BY <1>3, <1>4
<1> HIDE DEF at1
<1>7. ASSUME NEW j \in 1..(n + 1)
      PROVE  at1[j] <= at1[j + 1] /\ r[j] = Slice(w, at1[j], at1[j + 1])
  <2>1. CASE j = n + 1
    <3>1. at1[j] = at[n + 1] /\ at1[j + 1] = y
      BY <1>5, <2>1
    <3> QED
      BY <1>1, <1>2, <1>3, <2>1, <3>1
  <2>2. CASE j # n + 1
    <3>1. j \in 1..n /\ j + 1 \in 1..(n + 1)
      BY <2>2
    <3>2. at1[j] = at[j] /\ at1[j + 1] = at[j + 1]
      BY <1>5, <3>1
    <3> QED
      BY <1>2, <1>4, <3>1, <3>2
  <2> QED
    BY <2>1, <2>2
<1>8. Laid(s, r, at1)
  BY <1>2, <1>3, <1>6, <1>7 DEF Laid
<1>9. at1[1] = at[1]
  BY <1>5
<1> QED
  BY <1>2, <1>5, <1>8, <1>9

LEMMA LaidInFront ==
  ASSUME NEW s \in Scripts, NEW chunks \in Seq(Seq(Tokens)), NEW at, Laid(s, chunks, at),
         NEW p \in 0..Len(ServerWire(s)), p <= at[1],
         NEW chunk \in Seq(Tokens), chunk = Slice(ServerWire(s), p, at[1])
  PROVE  \E at1 : /\ Laid(s, <<chunk>> \o chunks, at1) /\ at1[1] = p
                  /\ at1[Len(<<chunk>> \o chunks) + 1] = at[Len(chunks) + 1]
<1>1. PICK n \in Nat : n = Len(chunks)
  OBVIOUS
<1>2. PICK r \in Seq(Seq(Tokens)) :
        /\ r = <<chunk>> \o chunks /\ Len(r) = n + 1 /\ r[1] = chunk
        /\ \A j \in 1..n : r[j + 1] = chunks[j]
  <2>1. PICK u \in Seq(Seq(Tokens)) : u = <<chunk>> /\ Len(u) = 1 /\ u[1] = chunk
    <3>1. <<chunk>> \in Seq(Seq(Tokens)) /\ Len(<<chunk>>) = 1 /\ <<chunk>>[1] = chunk
      OBVIOUS
    <3> QED
      BY <3>1
  <2>2. /\ u \o chunks \in Seq(Seq(Tokens)) /\ Len(u \o chunks) = 1 + n
        /\ \A j \in 1..(1 + n) : (u \o chunks)[j] = IF j <= 1 THEN u[j] ELSE chunks[j - 1]
    BY <1>1, <2>1, ConcatProperties
  <2>3. (u \o chunks)[1] = chunk
    BY <2>1, <2>2
  <2>4. ASSUME NEW j \in 1..n
        PROVE  (u \o chunks)[j + 1] = chunks[j]
    <3>1. j + 1 \in 1..(1 + n) /\ ~(j + 1 <= 1) /\ (j + 1) - 1 = j
      OBVIOUS
    <3> QED
      BY <2>2, <3>1
  <2>5. PICK r \in Seq(Seq(Tokens)) : r = u \o chunks
    BY <2>2
  <2>6. Len(r) = n + 1 /\ r[1] = chunk /\ r = <<chunk>> \o chunks
    BY <2>1, <2>2, <2>3, <2>5
  <2> QED
    BY <2>4, <2>5, <2>6
<1>3. PICK w : w = ServerWire(s)
  OBVIOUS
<1>4. /\ at \in [1..(n + 1) -> 0..Len(w)]
      /\ \A j \in 1..n : at[j] <= at[j + 1] /\ chunks[j] = Slice(w, at[j], at[j + 1])
  BY <1>1, <1>3 DEF Laid
<1> DEFINE at1 == [j \in 1..((n + 1) + 1) |-> IF j = 1 THEN p ELSE at[j - 1]]
<1>5. /\ \A j \in 1..(n + 1) : at1[j + 1] = at[j]
      /\ at1[1] = p
  <2>1. \A j \in 1..(n + 1) : j + 1 \in 1..((n + 1) + 1) /\ j + 1 # 1 /\ (j + 1) - 1 = j
    OBVIOUS
  <2>2. 1 \in 1..((n + 1) + 1)
    OBVIOUS
  <2> QED
    BY <2>1, <2>2
<1>6. at1 \in [1..((n + 1) + 1) -> 0..Len(w)]
  <2>1. ASSUME NEW j \in 1..((n + 1) + 1)
        PROVE  (IF j = 1 THEN p ELSE at[j - 1]) \in 0..Len(w)
    <3>1. j # 1 => j - 1 \in 1..(n + 1)
      OBVIOUS
    <3> QED
      BY <1>3, <1>4, <3>1
  <2> QED
    BY <2>1
<1> HIDE DEF at1
<1>7. ASSUME NEW j \in 1..(n + 1)
      PROVE  at1[j] <= at1[j + 1] /\ r[j] = Slice(w, at1[j], at1[j + 1])
  <2>1. CASE j = 1
    <3>1. at1[j] = p /\ at1[j + 1] = at[1]
      BY <1>5, <2>1
    <3> QED
      BY <1>2, <1>3, <2>1, <3>1
  <2>2. CASE j # 1
    <3>1. PICK i \in 1..n : j = i + 1
      <4>1. j - 1 \in 1..n /\ j = (j - 1) + 1
        BY <2>2
      <4> QED
        BY <4>1
    <3>2. i \in 1..(n + 1) /\ i + 1 \in 1..(n + 1)
      OBVIOUS
    <3>3. at1[j] = at[i] /\ at1[j + 1] = at[i + 1]
      BY <1>5, <3>1, <3>2
    <3> QED
      BY <1>2, <1>4, <3>1, <3>3
  <2> QED
    BY <2>1, <2>2
<1>8. Laid(s, r, at1)
  BY <1>2, <1>3, <1>6, <1>7 DEF Laid
<1>9. at1[(n + 1) + 1] = at[n + 1]
  <2>1. n + 1 \in 1..(n + 1)
    OBVIOUS
  <2> QED
    BY <1>5, <2>1
<1> QED
  BY <1>1, <1>2, <1>5, <1>8, <1>9

\* The bytes of an upgraded connection join its exchange.
LEMMA TunnelledState ==
  ASSUME NEW m, NEW x, NEW y, NEW at, State(m, x, y, at),
         ~failed, phase # "c2s", upgraded # NoExchange,
         AppendUpgraded("s2c", rest), rest' = <<>>,
         UNCHANGED <<script, c2s, s2c, request, response, requests, requestBytes, responses,
                     responseBytes, responseClosed, clientUpgrade, upgradeClient, failed,
                     discarded, phase, finishing, emitted>>
  PROVE  State(m, x, y, at)'
<1>1. /\ requests = <<>> /\ clientUpgrade /\ upgraded \in Exchanges /\ script \in Scripts
      /\ Own(script, upgraded) /\ upgraded.protocol = "websocket" /\ rest \in Seq(Tokens)
  BY DEF State, Steering, Types, Handed
<1>2. PICK b \in BOOLEAN : upgraded' = Grown(upgraded, "s2c", rest, b)
  <2>1. upgraded.incomplete \in BOOLEAN
    BY <1>1 DEF Exchanges
  <2> QED
    BY <2>1 DEF AppendUpgraded, Grown
<1>3. /\ upgraded' \in Exchanges /\ Own(script, upgraded') /\ upgraded'.protocol = "websocket"
      /\ upgraded'.request = upgraded.request
  <2>1. "s2c" \in {"c2s", "s2c"}
    OBVIOUS
  <2> QED
    BY <1>1, <1>2, <2>1, UpgradedGrows
<1>4. upgraded' # NoExchange
  BY <1>3, NotNoExchange
<1>5. Types'
  <2>1. rest' \in Seq(Tokens)
    BY EmptySeq
  <2> QED
    BY <1>3, <2>1 DEF State, Types
<1>6. Fed(x, y)' /\ Queue(m)'
  BY DEF State, Fed, Queue
<1>7. Reading(m, x)' /\ Replying(m, y, at)'
  BY <1>1 DEF Reading, Replying, Live
<1>8. Steering(y)'
  BY <1>1 DEF State, Steering
<1>9. Handed(m)'
  BY <1>3 DEF State, Handed
<1>10. Accounted(m)'
  BY <1>4 DEF State, Accounted
<1> QED
  BY <1>5, <1>6, <1>7, <1>8, <1>9, <1>10 DEF State

\* What there is no request for yet joins the backlog.
LEMMA BufferedState ==
  ASSUME NEW m, NEW x, NEW y, NEW at, State(m, x, y, at),
         ~failed, phase \in {"s2c", "backlog"}, upgraded = NoExchange, requests = <<>>,
         responses' = IF phase = "backlog" THEN <<rest>> \o responses ELSE Append(responses, rest),
         rest' = <<>>,
         UNCHANGED <<script, c2s, s2c, request, response, requests, requestBytes,
                     responseClosed, clientUpgrade, upgradeClient, upgraded, failed,
                     discarded, phase, finishing, emitted>>
  PROVE  \E at1 : State(m, x, y, at1)'
<1>1. PICK s \in Scripts : s = script
  BY DEF State, Types
<1>2. PICK chunks \in Seq(Seq(Tokens)) : chunks = responses
  BY DEF State, Types
<1>3. PICK chunk \in Seq(Tokens) : chunk = rest
  BY DEF State, Types
<1>4. PICK w \in Seq(Tokens) : w = ServerWire(s) /\ y \in 0..Len(w) /\ Len(w) \in Nat /\ y \in Nat
  BY <1>1, StateTypes
<1>5. Types'
  <2>1. <<chunk>> \o chunks \in Seq(Seq(Tokens)) /\ Append(chunks, chunk) \in Seq(Seq(Tokens))
    <3>1. <<chunk>> \in Seq(Seq(Tokens))
      OBVIOUS
    <3> QED
      BY <3>1, ConcatProperties
  <2>2. responses' \in Seq(Seq(Tokens)) /\ rest' \in Seq(Tokens)
    BY <1>2, <1>3, <2>1, EmptySeq
  <2> QED
    BY <2>2 DEF State, Types
<1>6. Fed(x, y)' /\ Queue(m)' /\ Handed(m)' /\ Accounted(m)' /\ Steering(y)'
  BY DEF State, Fed, Queue, Handed, Accounted, Steering
<1>7. Reading(m, x)'
  BY DEF State, Reading, Position
<1>8. CASE ~Live
  <2>1. Replying(m, y, at)'
    BY <1>8 DEF Replying, Live
  <2>2. State(m, x, y, at)'
    BY <1>5, <1>6, <1>7, <2>1 DEF State
  <2> QED
    BY <2>2
<1>9. CASE Live
  <2>1. /\ Placed(s, chunks, at, phase, chunk, Position(response), y)
        /\ Answering(s, response, (m - Len(requests)) + 1)
        /\ response.need = -1
    BY <1>1, <1>2, <1>3, <1>9 DEF State, Replying, Backlog
  <2>2. SUFFICES \E at1 : Placed(script', responses', at1, phase', rest', Position(response), y)
    <3>1. PICK at1 : Placed(script', responses', at1, phase', rest', Position(response), y)
      BY <2>2
    <3>2. Replying(m, y, at1)'
      BY <1>1, <2>1, <3>1 DEF Replying, Backlog, Position
    <3>3. State(m, x, y, at1)'
      BY <1>5, <1>6, <1>7, <3>2 DEF State
    <3> QED
      BY <3>3
  <2>3. CASE phase = "s2c"
    <3>1. /\ Position(response) = at[1] /\ Laid(s, chunks, at)
          /\ at[Len(chunks) + 1] <= y /\ chunk = Slice(w, at[Len(chunks) + 1], y)
      BY <1>4, <2>1, <2>3 DEF Placed
    <3>2. PICK at1 : /\ Laid(s, Append(chunks, chunk), at1) /\ at1[1] = at[1]
                     /\ at1[Len(Append(chunks, chunk)) + 1] = y
      BY <1>4, <3>1, LaidBehind
    <3>3. Slice(w, y, y) = <<>>
      <4>1. y \in 0..Len(w) /\ y \in y..Len(w)
        BY <1>4
      <4> QED
        BY <4>1, SliceEmpty
    <3>4. /\ responses' = Append(chunks, chunk) /\ phase' = "s2c" /\ y <= y
          /\ rest' = Slice(ServerWire(s), y, y)
      BY <1>2, <1>3, <1>4, <2>3, <3>3
    <3>5. Placed(s, responses', at1, phase', rest', Position(response), y)
      BY <3>1, <3>2, <3>4 DEF Placed
    <3> QED
      BY <1>1, <3>5
  <2>4. CASE phase = "backlog"
    <3>1. /\ Position(response) <= at[1] /\ Laid(s, chunks, at)
          /\ at[Len(chunks) + 1] = y /\ chunk = Slice(w, Position(response), at[1])
      BY <1>4, <2>1, <2>4 DEF Placed
    <3>2. PICK p \in Nat : p = Position(response)
      <4>1. response \in Decoders
        BY DEF State, Types
      <4>2. response.consumed \in Nat /\ response.message \in Messages
        BY <4>1 DEF Decoders
      <4>3. response.message.total \in Nat
        BY <4>2 DEF Messages
      <4> QED
        BY <4>2, <4>3 DEF Position
    <3>3. at[1] \in 0..Len(w)
      <4>1. 1 \in 1..(Len(chunks) + 1)
        <5>1. Len(chunks) \in Nat
          OBVIOUS
        <5> QED
          BY <5>1
      <4>2. at \in [1..(Len(chunks) + 1) -> 0..Len(w)]
        BY <1>4, <3>1 DEF Laid
      <4> QED
        BY <4>1, <4>2
    <3>4. p \in 0..Len(w) /\ p \in p..Len(w) /\ p <= at[1]
      BY <1>4, <3>1, <3>2, <3>3
    <3>5. PICK at1 : /\ Laid(s, <<chunk>> \o chunks, at1) /\ at1[1] = p
                     /\ at1[Len(<<chunk>> \o chunks) + 1] = at[Len(chunks) + 1]
      <4>1. PICK a \in 0..Len(ServerWire(s)) : a = p
        BY <1>4, <3>4
      <4>2. a <= at[1] /\ chunk = Slice(ServerWire(s), a, at[1]) /\ Laid(s, chunks, at)
        BY <1>4, <3>1, <3>2, <3>4, <4>1
      <4>3. \E at1 : /\ Laid(s, <<chunk>> \o chunks, at1) /\ at1[1] = a
                     /\ at1[Len(<<chunk>> \o chunks) + 1] = at[Len(chunks) + 1]
        BY <4>2, LaidInFront
      <4> QED
        BY <4>1, <4>3
    <3>6. Slice(w, p, p) = <<>>
      BY <3>4, SliceEmpty
    <3>7. /\ responses' = <<chunk>> \o chunks /\ phase' = "backlog" /\ p <= p
          /\ rest' = Slice(ServerWire(s), p, p)
      BY <1>2, <1>3, <1>4, <2>4, <3>6
    <3>8. Placed(s, responses', at1, phase', rest', p, y)
      BY <3>1, <3>5, <3>7 DEF Placed
    <3> QED
      BY <1>1, <3>2, <3>8
  <2> QED
    BY <2>3, <2>4
<1> QED
  BY <1>8, <1>9

\* One byte further on the server's wire.
LEMMA NextByte ==
  ASSUME NEW s \in Scripts, NEW chunks \in Seq(Seq(Tokens)), NEW at, NEW loop \in {"s2c", "backlog"},
         NEW chunk \in Seq(Tokens), chunk # <<>>, loop = "s2c" => chunks = <<>>,
         NEW p \in Nat, NEW y \in 0..Len(ServerWire(s)), Placed(s, chunks, at, loop, chunk, p, y)
  PROVE  /\ p < Len(ServerWire(s)) /\ Head(chunk) = ServerWire(s)[p + 1] /\ Head(chunk) \in Tokens
         /\ Tail(chunk) \in Seq(Tokens)
         /\ \E at1 : Placed(s, chunks, at1, loop, Tail(chunk), p + 1, y)
<1>1. PICK w \in Seq(Tokens) : w = ServerWire(s) /\ Len(w) \in Nat
  BY ScriptIs
<1>2. PICK n \in Nat : n = Len(chunks)
  OBVIOUS
<1>3. at \in [1..(n + 1) -> 0..Len(w)] /\ 1 \in 1..(n + 1)
  BY <1>1, <1>2 DEF Placed, Laid
<1>4. at[1] \in 0..Len(w)
  BY <1>3
<1>5. Tail(chunk) \in Seq(Tokens)
  BY TailOf
<1>6. CASE loop = "s2c"
  <2>1. n = 0 /\ n + 1 = 1
    BY <1>2, <1>6, EmptySeq
  <2>2. p = at[1] /\ p <= y /\ chunk = Slice(w, p, y)
    BY <1>1, <1>2, <1>6, <2>1 DEF Placed
  <2>3. p \in 0..Len(w) /\ y \in p..Len(w) /\ p # y
    <3>1. p \in 0..Len(w) /\ y \in p..Len(w)
      BY <1>1, <1>4, <2>2
    <3> QED
      BY <2>2, <3>1, SliceEmpty
  <2>4. /\ Head(chunk) = w[p + 1] /\ w[p + 1] \in Tokens
        /\ Tail(chunk) = Slice(w, p + 1, y) /\ p + 1 \in 0..Len(w)
    <3>1. PICK a \in 0..Len(w) : a = p
      BY <2>3
    <3>2. PICK c \in a..Len(w) : c = y /\ a # c
      BY <2>3, <3>1
    <3>3. w[a + 1] \in Tokens /\ a + 1 \in 0..Len(w)
      BY <3>2, SliceHead
    <3>4. Head(Slice(w, a, c)) = w[a + 1] /\ Tail(Slice(w, a, c)) = Slice(w, a + 1, c)
      BY <3>2, SliceHead
    <3> QED
      BY <2>2, <2>3, <3>1, <3>2, <3>3, <3>4
  <2>5. p < Len(w) /\ p + 1 <= y
    BY <1>1, <2>3
  <2> DEFINE at1 == [j \in 1..1 |-> p + 1]
  <2>6. at1 \in [1..1 -> 0..Len(w)] /\ at1[1] = p + 1
    BY <2>4
  <2> HIDE DEF at1
  <2>7. Laid(s, chunks, at1)
    BY <1>1, <1>2, <2>1, <2>6 DEF Laid
  <2>8. Placed(s, chunks, at1, loop, Tail(chunk), p + 1, y)
    BY <1>1, <1>2, <1>6, <2>1, <2>4, <2>5, <2>6, <2>7 DEF Placed
  <2> QED
    BY <1>1, <1>5, <2>4, <2>5, <2>8
<1>7. CASE loop = "backlog"
  <2>1. /\ p <= at[1] /\ chunk = Slice(w, p, at[1]) /\ Laid(s, chunks, at)
        /\ at[Len(chunks) + 1] = y
    BY <1>1, <1>7 DEF Placed
  <2>2. PICK b \in 0..Len(w) : b = at[1]
    BY <1>4
  <2>3. p \in 0..Len(w) /\ b \in p..Len(w) /\ p # b
    <3>1. p \in 0..Len(w) /\ b \in p..Len(w)
      BY <1>1, <2>1, <2>2
    <3> QED
      BY <2>1, <2>2, <3>1, SliceEmpty
  <2>4. /\ Head(chunk) = w[p + 1] /\ w[p + 1] \in Tokens
        /\ Tail(chunk) = Slice(w, p + 1, b) /\ p + 1 \in 0..Len(w)
    <3>1. PICK a \in 0..Len(w) : a = p
      BY <2>3
    <3>2. PICK c \in a..Len(w) : c = b /\ a # c
      BY <2>3, <3>1
    <3>3. w[a + 1] \in Tokens /\ a + 1 \in 0..Len(w)
      BY <3>2, SliceHead
    <3>4. Head(Slice(w, a, c)) = w[a + 1] /\ Tail(Slice(w, a, c)) = Slice(w, a + 1, c)
      BY <3>2, SliceHead
    <3> QED
      BY <2>1, <2>2, <2>3, <3>1, <3>2, <3>3, <3>4
  <2>5. p < Len(w) /\ p + 1 <= b
    BY <1>1, <2>3
  <2>6. Placed(s, chunks, at, loop, Tail(chunk), p + 1, y)
    BY <1>1, <1>7, <2>1, <2>2, <2>4, <2>5 DEF Placed
  <2> QED
    BY <1>1, <1>5, <2>4, <2>5, <2>6
<1> QED
  BY <1>6, <1>7

\* The response is read on.
LEMMA ContinuedState ==
  ASSUME NEW m, NEW x, NEW y, NEW at, State(m, x, y, at), NEW at1,
         requests # <<>>, phase \in {"s2c", "backlog"},
         response' \in Decoders, Answering(script, response', (m - Len(requests)) + 1),
         rest' \in Seq(Tokens),
         Placed(script, responses, at1, phase, rest', Position(response'), y),
         UNCHANGED <<script, c2s, s2c, request, requests, requestBytes, responses,
                     responseBytes, responseClosed, clientUpgrade, upgradeClient, upgraded,
                     failed, discarded, phase, finishing, emitted>>
  PROVE  State(m, x, y, at1)'
<1>1. Types'
  BY DEF State, Types
<1>2. Fed(x, y)' /\ Queue(m)' /\ Handed(m)' /\ Accounted(m)' /\ Steering(y)'
  BY DEF State, Fed, Queue, Handed, Accounted, Steering
<1>3. Reading(m, x)'
  BY DEF State, Reading, Position
<1>4. Replying(m, y, at1)'
  BY DEF Replying, Backlog, Position
<1> QED
  BY <1>1, <1>2, <1>3, <1>4 DEF State

LEMMA DecodedState ==
  ASSUME NEW m, NEW x, NEW y, NEW at, State(m, x, y, at),
         ~failed, phase \in {"s2c", "backlog"}, rest # <<>>, requests # <<>>, upgraded = NoExchange,
         DecodeResponse(Head(rest)), rest' = Tail(rest),
         UNCHANGED <<script, c2s, s2c, responseClosed, discarded, phase, finishing>>
  PROVE  \E at1 : State(m, x, y, at1)'
<1> DEFINE head == HeadOfResponse(Head(rest), requests[1].head)
           body == ReadBody(response, RetainResponse(response.message, Head(rest)))
           decoder == IF response.need = -1 THEN head ELSE body
<1>1. PICK s \in Scripts : s = script
  BY DEF State, Types
<1>2. PICK i \in 1..Len(s) : i = (m - Len(requests)) + 1 /\ requests[1].head = Token("head", i)
  <2>1. PICK q \in Seq(Messages) : q = requests
    BY DEF State, Types
  <2>2. PICK n \in Nat, k \in Nat : n = Len(q) /\ k = m
    BY StateTypes
  <2>3. Len(s) \in Nat /\ n > 0 /\ k \in n..Len(s)
    <3>1. n # 0
      BY <2>1, <2>2, EmptySeq
    <3> QED
      BY <1>1, <2>1, <2>2, <3>1, StateTypes DEF State, Queue
  <2>4. 1 \in DOMAIN q /\ (k - n) + 1 \in 1..Len(s)
    BY <2>2, <2>3
  <2>5. Queued(s, q[1], (k - n) + 1)
    BY <1>1, <2>1, <2>2, <2>4 DEF State, Queue
  <2> QED
    BY <2>1, <2>2, <2>4, <2>5 DEF Queued
<1>3. Answering(s, response, i) /\ Placed(s, responses, at, phase, rest, Position(response), y)
  <2>1. Live
    BY DEF Live
  <2> QED
    BY <1>1, <1>2, <2>1 DEF State, Replying, Backlog
<1>4. response \in Decoders /\ responses \in Seq(Seq(Tokens)) /\ rest \in Seq(Tokens) /\ discarded' \in Nat
  BY DEF State, Types
<1>5. PICK p \in Nat : p = Position(response)
  <2>1. response.consumed \in Nat /\ response.message \in Messages
    BY <1>4 DEF Decoders
  <2>2. response.message.total \in Nat
    BY <2>1 DEF Messages
  <2> QED
    BY <2>1, <2>2 DEF Position
<1>6. phase = "s2c" => responses = <<>>
  BY DEF State, Steering
<1>7. /\ p < Len(ServerWire(s)) /\ Head(rest) = ServerWire(s)[p + 1] /\ Head(rest) \in Tokens
      /\ Tail(rest) \in Seq(Tokens)
      /\ \E at1 : Placed(s, responses, at1, phase, Tail(rest), p + 1, y)
  <2>1. y \in 0..Len(ServerWire(s))
    BY <1>1, StateTypes
  <2>2. Placed(s, responses, at, phase, rest, p, y)
    BY <1>3, <1>5
  <2> QED
    BY <1>4, <1>6, <2>1, <2>2, NextByte
<1>8. PICK at1 : Placed(s, responses, at1, phase, rest', p + 1, y)
  BY <1>7
<1>9. PICK token \in Tokens : token = Head(rest) /\ token = ServerWire(s)[Position(response) + 1]
  BY <1>5, <1>7
<1>10. ASSUME response.need # -1 \/ token.kind = "head"
       PROVE  /\ decoder \in Decoders /\ Position(decoder) = p + 1
              /\ decoder.need = 0 => Replied(s, decoder, i, FALSE)
              /\ decoder.need # 0 => Answering(s, decoder, i)
  <2>1. CASE response.need # -1
    <3>1. Position(response) < Len(ServerWire(s))
      BY <1>5, <1>7
    <3>2. LET d == ReadBody(response, RetainResponse(response.message, token))
          IN  /\ d \in Decoders /\ Position(d) = Position(response) + 1
              /\ d.need = 0 => Replied(s, d, i, FALSE)
              /\ d.need # 0 => Answering(s, d, i) /\ d.need # -1
      BY <1>3, <1>4, <1>9, <2>1, <3>1, BodyOfReplyIs
    <3>3. decoder = ReadBody(response, RetainResponse(response.message, token))
      BY <1>9, <2>1
    <3> HIDE DEF decoder
    <3> QED
      BY <1>5, <3>2, <3>3
  <2>2. CASE response.need = -1 /\ token.kind = "head"
    <3>1. PICK asked : asked = requests[1].head /\ asked.of = i
      BY <1>2 DEF Token
    <3>2. LET d == HeadOfResponse(token, asked)
          IN  /\ d \in Decoders /\ Position(d) = Position(response) + 1
              /\ d.need = 0 => Replied(s, d, i, FALSE)
              /\ d.need # 0 => Answering(s, d, i) /\ d.need # -1
      BY <1>1, <1>3, <1>4, <1>9, <2>2, <3>1, HeadOfReplyIs
    <3>3. decoder = HeadOfResponse(token, asked)
      BY <1>9, <2>2, <3>1
    <3> HIDE DEF decoder
    <3> QED
      BY <1>5, <3>2, <3>3
  <2> QED
    BY <1>10, <2>1, <2>2
<1>11. ASSUME response.need = -1, token.kind = "interim"
       PROVE  /\ decoder.need = 0 /\ Taken(decoder).head.kind = "interim"
              /\ AfterTake(decoder) \in Decoders /\ Answering(s, AfterTake(decoder), i)
              /\ Position(AfterTake(decoder)) = p + 1
  <2>1. PICK r \in Decoders : r = response
    BY <1>4
  <2>2. /\ r.message = NewMessage /\ Position(r) = r.consumed
        /\ s[i].interim /\ r.consumed = ReplyAt(s, i)
    <3>1. /\ r.message = NewMessage /\ Position(r) = r.consumed
          /\ \/ s[i].interim /\ r.consumed = ReplyAt(s, i) /\ token = Token("interim", i)
             \/ r.consumed = ReplyAt(s, i) + Early(s[i]) /\ token = Token("head", i)
      BY <1>3, <1>9, <1>11, <2>1, ReplyBegins
    <3>2. Token("head", i).kind = "head"
      BY DEF Token
    <3> QED
      BY <1>11, <3>1, <3>2
  <2>3. decoder = ReadHead(r, token, 0)
    BY <1>9, <1>11, <2>1 DEF HeadOfResponse
  <2> HIDE DEF decoder
  <2>4. PICK d \in Decoders : d = decoder /\ d.consumed = r.consumed /\ d.need = 0
                              /\ d.message.head = token /\ d.message.total = 1
    <3>1. ASSUME NEW c \in Decoders, NEW t \in Tokens, NEW n \in Int
          PROVE  /\ ReadHead(c, t, n) \in Decoders /\ ReadHead(c, t, n).consumed = c.consumed
                 /\ ReadHead(c, t, n).need = n /\ ReadHead(c, t, n).message.head = t
      <4>1. ReadHead(c, t, n) \in Decoders
        BY ReadHeadIs
      <4>2. ReadHead(c, t, n).consumed = c.consumed
        BY ReadHeadIs
      <4>3. ReadHead(c, t, n).need = n /\ ReadHead(c, t, n).message.head = t
        BY ReadHeadIs
      <4> QED
        BY <4>1, <4>2, <4>3
    <3>2. ASSUME NEW c \in Decoders, NEW t \in Tokens, NEW n \in Int
          PROVE  ReadHead(c, t, n).message.total = c.message.total + 1
      BY ReadHeadIs
    <3>3. 0 \in Int
      OBVIOUS
    <3>4. ReadHead(r, token, 0).message.total = r.message.total + 1
      BY <3>2, <3>3, Zenon
    <3>5. r.message.total = 0
      BY <2>2, FreshIs
    <3>6. ReadHead(r, token, 0).message.total = 1
      BY <3>4, <3>5
    <3> QED
      BY <2>3, <3>1, <3>3, <3>6
  <2>5. /\ Taken(d).head = token /\ AfterTake(d) \in Decoders
        /\ AfterTake(d).consumed = d.consumed + d.message.total
        /\ AfterTake(d).need = -1 /\ AfterTake(d).message = NewMessage
    BY <2>4, TakenIs
  <2>6. AfterTake(d).consumed = p + 1 /\ p = ReplyAt(s, i)
    BY <1>5, <2>1, <2>2, <2>4, <2>5
  <2>7. Position(AfterTake(d)) = p + 1
    BY <2>5, <2>6, FreshIs DEF Position
  <2>8. i \in DOMAIN s
    BY ScriptIs
  <2>9. Answering(s, AfterTake(d), i)
    BY <2>2, <2>5, <2>6, <2>8 DEF Answering
  <2> QED
    BY <1>11, <2>4, <2>5, <2>7, <2>9
<1>12. \/ FailParsing
       \/ /\ response.need # -1 \/ token.kind \in {"head", "interim"}
          /\ decoder.need = 0
          /\ Pair(Taken(decoder), FALSE, AfterTake(decoder))
       \/ /\ response.need # -1 \/ token.kind \in {"head", "interim"}
          /\ decoder.need # 0
          /\ response' = decoder
          /\ UNCHANGED <<request, queue, backlog, upgrade, failed, emitted>>
  BY <1>9 DEF DecodeResponse
<1> HIDE DEF decoder
<1>13. rest' \in Seq(Tokens)
  BY <1>7
<1>14. CASE FailParsing
  BY <1>4, <1>13, <1>14, FailingState
<1>15. CASE /\ response.need # -1 \/ token.kind = "head"
            /\ decoder.need = 0
            /\ Pair(Taken(decoder), FALSE, AfterTake(decoder))
  <2>1. Replied(script, decoder, (m - Len(requests)) + 1, FALSE)
    BY <1>1, <1>2, <1>10, <1>15
  <2>2. /\ decoder.message.total = 1 + Body(script[(m - Len(requests)) + 1])
        /\ Placed(script, responses, at1, phase', rest', Position(decoder), y)
    <3>1. Placed(script, responses, at1, phase', rest', Position(decoder), y)
      BY <1>1, <1>8, <1>10, <1>15
    <3>2. decoder.message.total = 1 + Body(script[(m - Len(requests)) + 1])
      BY <2>1 DEF Replied
    <3> QED
      BY <3>1, <3>2
  <2>3. phase # "c2s" /\ (phase' \in {"idle", "s2c"} => responses = <<>>)
    BY <1>6
  <2>4. FALSE \in BOOLEAN
    OBVIOUS
  <2>5. State(m, x, y, at1)'
    BY <1>13, <1>15, <2>1, <2>2, <2>3, <2>4, PairedState
  <2> QED
    BY <2>5
<1>16. CASE /\ response.need = -1 /\ token.kind = "interim"
            /\ Pair(Taken(decoder), FALSE, AfterTake(decoder))
  <2>1. /\ response' = AfterTake(decoder)
        /\ UNCHANGED <<request, requests, requestBytes, responses, responseBytes, clientUpgrade,
                       upgradeClient, upgraded, failed, emitted>>
    BY <1>11, <1>16 DEF Pair, queue, backlog, upgrade
  <2>2. /\ response' \in Decoders /\ Answering(script, response', (m - Len(requests)) + 1)
        /\ Placed(script, responses, at1, phase, rest', Position(response'), y)
    BY <1>1, <1>2, <1>8, <1>11, <1>16, <2>1
  <2>3. State(m, x, y, at1)'
    BY <1>13, <2>1, <2>2, ContinuedState
  <2> QED
    BY <2>3
<1>17. CASE /\ response.need # -1 \/ token.kind = "head"
            /\ decoder.need # 0 /\ response' = decoder
            /\ UNCHANGED <<request, queue, backlog, upgrade, failed, emitted>>
  <2>1. UNCHANGED <<request, requests, requestBytes, responses, responseBytes, clientUpgrade,
                    upgradeClient, upgraded, failed, emitted>>
    BY <1>17 DEF queue, backlog, upgrade
  <2>2. /\ response' \in Decoders /\ Answering(script, response', (m - Len(requests)) + 1)
        /\ Placed(script, responses, at1, phase, rest', Position(response'), y)
    BY <1>1, <1>2, <1>8, <1>10, <1>17
  <2>3. State(m, x, y, at1)'
    BY <1>13, <2>1, <2>2, ContinuedState
  <2> QED
    BY <2>3
<1> QED
  BY <1>11, <1>12, <1>14, <1>15, <1>16, <1>17

LEMMA ReadResponseState ==
  ASSUME NEW m, NEW x, NEW y, NEW at, State(m, x, y, at), ReadResponse
  PROVE  \E at1 : State(m, x, y, at1)'
<1>1. /\ phase \in {"s2c", "backlog"} /\ rest # <<>> /\ ~failed /\ phase # "c2s"
      /\ UNCHANGED <<script, c2s, s2c, responseClosed, discarded, phase, finishing>>
  BY DEF ReadResponse, wire
<1>2. CASE upgraded # NoExchange
  <2>1. /\ AppendUpgraded("s2c", rest) /\ rest' = <<>>
        /\ UNCHANGED <<request, response, requests, requestBytes, responses, responseBytes,
                       clientUpgrade, upgradeClient, failed, emitted>>
    BY <1>2 DEF ReadResponse, queue, backlog
  <2>2. State(m, x, y, at)'
    BY <1>1, <1>2, <2>1, TunnelledState
  <2> QED
    BY <2>2
<1>3. CASE upgraded = NoExchange /\ requests = <<>>
  <2>1. BufferResponse /\ rest' = <<>>
    BY <1>3 DEF ReadResponse
  <2>2. CASE FailParsing
    <3>1. rest' \in Seq(Tokens) /\ discarded' \in Nat
      BY <1>1, <2>1, EmptySeq DEF State, Types
    <3>2. State(m, x, y, at)'
      BY <1>1, <2>2, <3>1, FailingState
    <3> QED
      BY <3>2
  <2>3. CASE /\ responses' = IF phase = "backlog" THEN <<rest>> \o responses
                             ELSE Append(responses, rest)
             /\ UNCHANGED <<request, response, queue, upgrade, failed, emitted>>
    <3>1. UNCHANGED <<request, response, requests, requestBytes, clientUpgrade,
                      upgradeClient, upgraded, failed, emitted>>
      BY <2>3 DEF queue, upgrade
    <3> QED
      BY <1>1, <1>3, <2>1, <2>3, <3>1, BufferedState
  <2> QED
    BY <2>1, <2>2, <2>3 DEF BufferResponse
<1>4. CASE upgraded = NoExchange /\ requests # <<>>
  <2>1. DecodeResponse(Head(rest)) /\ rest' = Tail(rest)
    BY <1>4 DEF ReadResponse
  <2> QED
    BY <1>1, <1>4, <2>1, DecodedState
<1> QED
  BY <1>2, <1>3, <1>4

-----------------------------------------------------------------------------
(* The end of the flush loop. *)

\* What a closed connection makes of an unfinished response.
LEMMA UnfinishedReply ==
  ASSUME NEW s \in Scripts, NEW i \in 1..Len(s), NEW d \in Decoders, Answering(s, d, i),
         d.message.head # NoHead, NEW y \in 0..Len(ServerWire(s)), Position(d) = y,
         NEW clean \in BOOLEAN, clean => y = Len(ServerWire(s)),
         NEW incomplete \in BOOLEAN, incomplete = ~(clean /\ d.need = UntilClose)
  PROVE  Replied(s, d, i, incomplete) /\ (clean => d.message.total = 1 + Body(s[i]))
<1>1. /\ i \in DOMAIN s /\ d.message.total > 0
      /\ d.consumed = ReplyAt(s, i) + Early(s[i]) /\ d.message.head = Token("head", i)
      /\ d.message.bytes = Slice(ServerWire(s), d.consumed, d.consumed + Kept(d.message.total))
      /\ \/ d.need = UntilClose /\ s[i].reply = UntilClose /\ Body(s[i]) = 2 /\ ~Tunnels(s[i])
         \/ d.need > 0 /\ d.message.total + d.need = 1 + Body(s[i])
  BY FreshIs DEF Answering
<1>2. PICK total \in Nat, need \in Int : total = d.message.total /\ need = d.need
  <2>1. d.need \in Int /\ d.message \in Messages
    BY DEF Decoders
  <2>2. d.message.total \in Nat
    BY <2>1 DEF Messages
  <2> QED
    BY <2>1, <2>2
<1>3. PICK a \in Nat, h \in Nat, b \in Nat, g \in Nat :
        a = ReplyAt(s, i) /\ h = Early(s[i]) /\ b = Body(s[i]) /\ g = Late(s[i])
  BY AnswerSlice
<1>4. PICK z \in Nat : z = Len(ServerWire(s))
  BY ScriptIs
<1>5. PICK c \in Nat : c = ReplyAt(s, i + 1) /\ c <= z /\ c = a + (h + (1 + b) + g)
  <2>1. PICK c \in 0..z : c = ReplyAt(s, i + 1)
    BY <1>4, AnswerSlice
  <2>2. c = a + (h + (1 + b) + g)
    BY <1>3, <2>1, AnswerSlice
  <2> QED
    BY <2>1, <2>2
<1>6. y = (a + h) + total /\ y <= z /\ total > 0
  BY <1>1, <1>2, <1>3, <1>4 DEF Position
<1>7. clean => y = z
  BY <1>4
<1>70. incomplete \/ clean
  BY Zenon
<1>8. CASE need = UntilClose
  <2>1. s[i].reply = UntilClose /\ b = 2 /\ ~Tunnels(s[i])
    BY <1>1, <1>2, <1>3, <1>8 DEF UntilClose
  <2>2. i = Len(s) /\ g = 0
    BY <1>3, <2>1, ScriptIs DEF Late
  <2>3. c = z
    <3>1. s \in Seq(Exchange)
      BY ScriptIs
    <3>2. ReplyAt(s, Len(s) + 1) = Len(ServerWire(s))
      BY <3>1, ServerWireIs
    <3> QED
      BY <1>4, <1>5, <2>2, <3>2
  <2>4. total <= 1 + b /\ (clean => total = 1 + b)
    BY <1>5, <1>6, <1>7, <2>2, <2>3
  <2>5. total \in 1..(1 + b)
    BY <1>6, <2>4
  <2>50. ~incomplete => total = 1 + b
    BY <1>70, <2>4, Zenon
  <2>6. Replied(s, d, i, incomplete)
    BY <1>1, <1>2, <1>3, <2>5, <2>50 DEF Replied
  <2> QED
    BY <1>2, <1>3, <2>4, <2>6
<1>9. CASE need # UntilClose
  <2>1. need > 0 /\ total + need = 1 + b
    BY <1>1, <1>2, <1>3, <1>9
  <2>2. ~clean
    BY <1>5, <1>6, <1>7, <2>1
  <2>30. total \in 1..(1 + b)
    BY <1>6, <2>1
  <2>3. total \in 1..(1 + b) /\ incomplete
    BY <1>70, <2>2, <2>30, Zenon
  <2>4. Replied(s, d, i, incomplete)
    BY <1>1, <1>2, <1>3, <2>3 DEF Replied
  <2> QED
    BY <2>2, <2>4
<1> QED
  BY <1>8, <1>9

\* The oldest queued request is one of the conversation.
LEMMA OldestAsked ==
  ASSUME NEW m, NEW x, NEW y, NEW at, State(m, x, y, at), ~failed, requests # <<>>
  PROVE  (m - Len(requests)) + 1 \in 1..Len(script)
<1>1. PICK q \in Seq(Messages) : q = requests
  BY DEF State, Types
<1>2. PICK n \in Nat, k \in Nat : n = Len(q) /\ k = m
  BY StateTypes
<1>3. n # 0
  BY <1>1, <1>2, EmptySeq
<1>4. Len(script) \in Nat /\ k \in n..Len(script)
  BY <1>1, <1>2, StateTypes DEF State, Queue
<1> QED
  BY <1>1, <1>2, <1>3, <1>4

LEMMA FlushDoneState ==
  ASSUME NEW m, NEW x, NEW y, NEW at, State(m, x, y, at), FlushDone
  PROVE  State(m, x, y, at)'
<1> DEFINE ended == ~failed /\ responseClosed # "open" /\ responses = <<>> /\ requests # <<>>
                    /\ response.message.head # NoHead
<1>1. /\ phase = "flush" /\ (~MayFlush \/ responses = <<>>) /\ phase' = "idle"
      /\ UNCHANGED <<script, c2s, s2c, responseClosed, discarded, rest, finishing>>
      /\ IF ended
         THEN Pair(Taken(response), ~(responseClosed = "clean" /\ response.need = UntilClose),
                   AfterTake(response))
         ELSE UNCHANGED <<request, response, queue, backlog, upgrade, failed, emitted>>
  BY DEF FlushDone, wire
<1>2. PICK s \in Scripts : s = script
  BY DEF State, Types
<1>3. ASSUME ~failed, requests # <<>>
      PROVE  /\ Answering(s, response, (m - Len(requests)) + 1)
             /\ Placed(s, responses, at, phase, rest, Position(response), y)
             /\ (m - Len(requests)) + 1 \in 1..Len(s)
  <2>1. Live
    BY <1>1, <1>3 DEF Live
  <2>2. (m - Len(requests)) + 1 \in 1..Len(s)
    BY <1>2, <1>3, OldestAsked
  <2> QED
    BY <1>2, <2>1, <2>2 DEF State, Replying, Backlog
<1>4. CASE ended
  <2>1. PICK i \in 1..Len(s) : i = (m - Len(requests)) + 1
    BY <1>3, <1>4
  <2>2. response \in Decoders /\ Answering(s, response, i) /\ response.message.head # NoHead
    BY <1>3, <1>4, <2>1 DEF State, Types
  <2>3. Placed(s, responses, at, phase', rest', Position(response), y)
    BY <1>1, <1>3, <1>4 DEF Placed
  <2>4. Position(response) = y /\ y \in 0..Len(ServerWire(s))
    <3>1. Len(responses) = 0 /\ Len(responses) + 1 = 1
      <4>1. responses \in Seq(Seq(Tokens))
        BY DEF State, Types
      <4> QED
        BY <1>4, <4>1, EmptySeq
    <3> QED
      BY <1>1, <1>2, <2>3, <3>1, StateTypes DEF Placed
  <2>5. PICK clean \in BOOLEAN : clean <=> responseClosed = "clean"
    OBVIOUS
  <2>6. PICK incomplete \in BOOLEAN : incomplete = ~(responseClosed = "clean" /\ response.need = UntilClose)
    OBVIOUS
  <2>7. clean => y = Len(ServerWire(s))
    BY <1>2, <2>5 DEF State, Steering
  <2>8. incomplete = ~(clean /\ response.need = UntilClose)
    BY <2>5, <2>6, Zenon
  <2>9. Replied(s, response, i, incomplete) /\ (clean => response.message.total = 1 + Body(s[i]))
    BY <2>2, <2>4, <2>7, <2>8, UnfinishedReply
  <2>10. ~(responseClosed = "unclean" /\ phase' = "idle") => clean
    BY <1>1, <1>4, <2>5 DEF State, Types
  <2>11. Pair(Taken(response), incomplete, AfterTake(response))
    BY <1>1, <1>4, <2>6
  <2>12. rest' \in Seq(Tokens)
    BY <1>1 DEF State, Types
  <2>13. Replied(script, response, (m - Len(requests)) + 1, incomplete)
    BY <1>2, <2>1, <2>9
  <2>14. ~(responseClosed = "unclean" /\ phase' = "idle") =>
           /\ response.message.total = 1 + Body(script[(m - Len(requests)) + 1])
           /\ Placed(script, responses, at, phase', rest', Position(response), y)
    BY <1>2, <2>1, <2>3, <2>9, <2>10
  <2>15. ~failed /\ requests # <<>> /\ responses = <<>> /\ phase # "c2s"
    BY <1>1, <1>4
  <2> HIDE DEF ended
  <2> QED
    BY <1>1, <2>11, <2>12, <2>13, <2>14, <2>15, PairedState
<1>5. CASE ~ended
  <2>1. UNCHANGED <<request, response, requests, requestBytes, responses, responseBytes,
                    clientUpgrade, upgradeClient, upgraded, failed, emitted>>
    <3> HIDE DEF ended
    <3> QED
      BY <1>1, <1>5 DEF queue, backlog, upgrade
  <2>2. Types'
    BY <1>1, <2>1 DEF State, Types, Phases
  <2>3. Fed(x, y)' /\ Queue(m)' /\ Handed(m)' /\ Accounted(m)'
    BY <1>1, <2>1 DEF State, Fed, Queue, Handed, Accounted
  <2>4. Reading(m, x)'
    BY <1>1, <2>1 DEF State, Reading, Position
  <2>5. Replying(m, y, at)'
    <3>1. Live' => Live
      BY <1>1, <2>1 DEF Live
    <3>2. Live => Backlog(y, at)'
      BY <1>1, <2>1 DEF State, Replying, Backlog, Placed, Position
    <3> QED
      BY <1>1, <2>1, <3>1, <3>2 DEF State, Replying
  <2>6. Steering(y)'
    <3>1. ASSUME ~failed, requests # <<>>
          PROVE  responses = <<>> /\ (responseClosed # "open" => response.need = -1)
      <4>1. responses = <<>>
        BY <1>1, <3>1 DEF MayFlush
      <4>2. ASSUME responseClosed # "open"
            PROVE  response.need = -1
        <5>1. response.message.head = NoHead
          BY <1>5, <3>1, <4>1, <4>2
        <5>2. \A i : Token("head", i) # NoHead
          BY DEF Token, NoHead
        <5> QED
          BY <1>3, <3>1, <5>1, <5>2 DEF Answering
      <4> QED
        BY <4>1, <4>2
    <3> HIDE DEF ended
    <3> QED
      BY <1>1, <2>1, <3>1 DEF State, Steering
  <2> QED
    BY <2>2, <2>3, <2>4, <2>5, <2>6 DEF State
<1> QED
  BY <1>4, <1>5

-----------------------------------------------------------------------------
(* The invariant is kept, and the properties follow from it. *)

LEMMA NextInv ==
  ASSUME HttpInv, [Next]_vars
  PROVE  HttpInv'
<1>1. PICK m, x, y : \E at : State(m, x, y, at)
  BY DEF HttpInv
<1>2. PICK at : State(m, x, y, at)
  BY <1>1
<1>3. ASSUME NEW m1, NEW x1, NEW y1, NEW at1, State(m1, x1, y1, at1)'
      PROVE  HttpInv'
  BY <1>3 DEF HttpInv
<1>4. ASSUME NEW n \in 1..ChunkMax, FeedClient(n)
      PROVE  HttpInv'
  BY <1>2, <1>3, <1>4, FeedClientState
<1>5. ASSUME NEW n \in 1..ChunkMax, FeedServer(n)
      PROVE  HttpInv'
  BY <1>2, <1>3, <1>5, FeedServerState
<1>6. CASE ReadRequest
  BY <1>2, <1>3, <1>6, ReadRequestState
<1>7. CASE ReadResponse
  BY <1>2, <1>3, <1>7, ReadResponseState
<1>8. CASE ChunkDone
  BY <1>2, <1>3, <1>8, ChunkDoneState
<1>9. CASE FlushChunk
  BY <1>2, <1>3, <1>9, FlushChunkState
<1>10. CASE FlushDone
  BY <1>2, <1>3, <1>10, FlushDoneState
<1>11. CASE CloseResponse
  BY <1>2, <1>3, <1>11, CloseResponseState
<1>12. CASE Finish
  BY <1>2, <1>3, <1>12, FinishState
<1>13. CASE EmitUpgraded
  BY <1>2, <1>3, <1>13, EmitUpgradedState
<1>14. CASE UNCHANGED vars
  <2>1. State(m, x, y, at)'
    <3>1. UNCHANGED <<script, c2s, s2c, request, response, requests, requestBytes,
                      responses, responseBytes, responseClosed, clientUpgrade,
                      upgradeClient, upgraded, failed, discarded, phase, rest,
                      finishing, emitted>>
      BY <1>14 DEF vars
    <3>2. Types' /\ Fed(x, y)' /\ Queue(m)'
      BY <1>2, <3>1 DEF State, Types, Fed, Queue
    <3>3. Reading(m, x)' /\ Replying(m, y, at)'
      BY <1>2, <3>1 DEF State, Reading, Replying, Live, Backlog, Placed, Position
    <3>4. Steering(y)' /\ Handed(m)' /\ Accounted(m)'
      BY <1>2, <3>1 DEF State, Steering, Handed, Accounted
    <3> QED
      BY <3>2, <3>3, <3>4 DEF State
  <2> QED
    BY <1>3, <2>1
<1> QED
  BY <1>4, <1>5, <1>6, <1>7, <1>8, <1>9, <1>10, <1>11, <1>12, <1>13, <1>14 DEF Next

\* Every reachable state of a connection is explained by how far each side
\* has been fed, how many requests have joined the queue and where on the
\* server's wire the chunks of the backlog were cut.
THEOREM Invariance == Spec => []HttpInv
<1>1. Init => HttpInv
  BY InitState
<1>2. HttpInv /\ [Next]_vars => HttpInv'
  BY NextInv
<1> QED
  BY <1>1, <1>2, PTL DEF Spec

\* pair never shows a response with another request than the one it answers,
\* and hands the exchanges on once each in the order of their requests,
\* whatever the conversation and however feed was called.
THEOREM AssociatedAlways == Spec => []Associated
<1>1. HttpInv => Associated
  <2> SUFFICES ASSUME NEW m, NEW x, NEW y, NEW at, State(m, x, y, at)
               PROVE  Associated
    BY DEF HttpInv
  <2> QED
    BY DEF State, Handed, Own, Associated
<1> QED
  BY <1>1, Invariance, PTL

\* An HTTP exchange is the whole request and the first bytes of its own
\* response, all of them up to the limit unless it is marked incomplete, and
\* its offsets are where the two messages start.
THEOREM OwnBytesAlways == Spec => []OwnBytes
<1>1. HttpInv => OwnBytes
  <2> SUFFICES ASSUME NEW m, NEW x, NEW y, NEW at, State(m, x, y, at)
               PROVE  OwnBytes
    BY DEF HttpInv
  <2>1. script \in Scripts /\ \A k \in DOMAIN emitted : Own(script, emitted[k])
    BY DEF State, Types, Handed
  <2>2. Located
    BY <2>1 DEF Own, Located
  <2>3. ASSUME NEW k \in Http
        PROVE  LET e == emitted[k]
                   ask == Ask(script[e.request], e.request)
                   answer == Answer(script[e.response], e.response)
               IN  /\ e.c2s = ask
                   /\ Len(e.s2c) <= Len(answer) /\ e.s2c = SubSeq(answer, 1, Len(e.s2c))
                   /\ ~e.incomplete => \/ Len(e.s2c) = Limit
                                       \/ e.s2c = answer
    <3>1. PICK e : e = emitted[k] /\ Own(script, e) /\ e.protocol = "http"
      BY <2>1, <2>3 DEF Http
    <3>2. PICK i \in 1..Len(script) : i = e.request /\ i = e.response
      BY <2>1, <3>1, ScriptIs DEF Own
    <3>3. PICK answer \in Seq(Tokens) : answer = Answer(script[i], i)
      BY <2>1, <3>2, AnswerSlice
    <3>4. PICK l \in Nat : l = Len(answer)
      OBVIOUS
    <3>5. PICK n \in 1..l : /\ e.s2c = SubSeq(answer, 1, n)
                            /\ ~e.incomplete => n = Limit \/ n = l
      BY <3>1, <3>2, <3>3, <3>4 DEF Own
    <3>6. Len(e.s2c) = n
      <4>1. 0 \in 0..Len(answer) /\ n \in 0..Len(answer) /\ n - 0 = n /\ 0 + 1 = 1
        BY <3>4
      <4>2. Len(Slice(answer, 0, n)) = n
        BY <4>1, SliceIs
      <4> QED
        BY <3>5, <4>1, <4>2 DEF Slice
    <3>7. SubSeq(answer, 1, l) = answer
      BY <3>4, SubSeqFull
    <3>8. e.c2s = Ask(script[i], i)
      BY <3>1, <3>2 DEF Own
    <3>9. ~e.incomplete => Len(e.s2c) = Limit \/ e.s2c = answer
      BY <3>5, <3>6, <3>7
    <3>10. Len(e.s2c) <= Len(answer) /\ e.s2c = SubSeq(answer, 1, Len(e.s2c))
      BY <3>4, <3>5, <3>6
    <3> QED
      BY <3>1, <3>2, <3>3, <3>8, <3>9, <3>10
  <2> QED
    BY <2>2, <2>3 DEF OwnBytes
<1> QED
  BY <1>1, Invariance, PTL

\* At the clean end of a conversation every request has joined the queue,
LEMMA AllQueued ==
  ASSUME NEW m, NEW x, NEW y, NEW at, State(m, x, y, at),
         ~failed, phase = "idle", c2s = <<>>,
         \A i \in DOMAIN script : script[i].upgrade => i = Len(script)
  PROVE  m = Len(script)
<1>1. PICK s \in Scripts : s = script
  BY DEF State, Types
<1>2. /\ s \in Seq(Exchange) /\ Len(s) \in Nat /\ DOMAIN s = 1..Len(s)
      /\ \A i \in 1..Len(s) : s[i] \in Exchange /\ s[i].body \in Nat
  BY ScriptIs
<1>3. PICK w \in Seq(Tokens) : w = ClientWire(s) /\ x \in 0..Len(w) /\ Len(w) \in Nat
  BY <1>1, StateTypes
<1>4. x = Len(w)
  <2>1. Slice(w, x, Len(w)) = <<>>
    BY <1>1, <1>3 DEF State, Fed
  <2>2. PICK b \in x..Len(w) : b = Len(w)
    BY <1>3
  <2> QED
    BY <1>3, <2>1, <2>2, SliceEmpty
<1>5. PICK k \in Nat : k = m /\ k <= Len(s)
  <2>1. PICK k \in Nat, n \in Nat, l \in Nat : k = m /\ n = Len(requests) /\ l = Len(s)
    BY <1>2, StateTypes
  <2>2. k \in n..l
    BY <1>1, <2>1 DEF State, Queue
  <2> QED
    BY <2>1, <2>2
<1>50. k < Len(s) \/ m = Len(script)
  <2>1. PICK l \in Nat : l = Len(s)
    BY <1>2
  <2>2. k < l \/ k = l
    BY <1>5, <2>1
  <2> QED
    BY <1>1, <1>5, <2>1, <2>2
<1>6. CASE clientUpgrade
  <2>1. k > 0 /\ k \in 1..k /\ k \in DOMAIN s
    BY <1>1, <1>2, <1>5, <1>6 DEF State, Queue
  <2>2. s[k].upgrade
    BY <1>1, <1>5, <1>6, <2>1 DEF State, Queue
  <2> QED
    BY <1>1, <1>5, <2>1, <2>2
<1>7. CASE ~clientUpgrade
  <2>1. SUFFICES ASSUME k < Len(s)
                 PROVE  FALSE
    BY <1>50
  <2>2. PICK i \in 1..Len(s) : i = k + 1
    BY <1>2, <1>5, <2>1
  <2>3. PICK a \in Nat, b \in Nat, g \in Nat, c \in Nat :
          /\ a = AskAt(s, i) /\ b = s[i].body /\ g = Late(s[i]) /\ c = AskAt(s, i + 1)
    <3>1. AskAt(s, i) \in 0..Len(w) /\ AskAt(s, i + 1) \in 0..Len(w)
      <4>1. i \in 1..(Len(s) + 1) /\ i + 1 \in 1..(Len(s) + 1)
        BY <1>2
      <4> QED
        BY <1>2, <1>3, <4>1, ClientWireIs
    <3>2. AskAt(s, i) \in Nat /\ AskAt(s, i + 1) \in Nat
      BY <1>3, <3>1
    <3>3. Late(s[i]) \in Nat
      BY <1>2, BodyIs
    <3> QED
      BY <1>2, <3>2, <3>3
  <2>4. c = a + (1 + b + g) /\ c <= Len(w)
    <3>1. AskAt(s, i + 1) = AskAt(s, i) + (1 + s[i].body + Late(s[i]))
      BY <1>2, ClientWireIs
    <3>2. i + 1 \in 1..(Len(s) + 1)
      BY <1>2
    <3>3. AskAt(s, i + 1) \in 0..Len(w)
      BY <1>2, <1>3, <3>2, ClientWireIs
    <3> QED
      BY <1>3, <2>3, <3>1, <3>3
  <2>5. /\ \/ request.consumed = AskAt(s, i) /\ Asking(s, request, i)
           \/ request.consumed + 1 = AskAt(s, i) /\ request.message = NewMessage
        /\ Position(request) = x
    BY <1>1, <1>5, <1>7, <2>2 DEF State, Reading
  <2>6. PICK p \in Nat, t \in Nat, need \in Int :
          p = request.consumed /\ t = request.message.total /\ need = request.need
    <3>1. request.consumed \in Nat /\ request.need \in Int /\ request.message \in Messages
      BY DEF State, Types, Decoders
    <3>2. request.message.total \in Nat
      BY <3>1 DEF Messages
    <3> QED
      BY <3>1, <3>2
  <2>7. p + t = Len(w)
    BY <1>4, <2>5, <2>6 DEF Position
  <2>8. CASE request.message = NewMessage
    <3>1. t = 0
      BY <2>6, <2>8, FreshIs
    <3>2. p = a \/ p + 1 = a
      BY <2>3, <2>5, <2>6
    <3> QED
      BY <1>3, <2>4, <2>7, <3>1, <3>2
  <2>9. CASE request.message # NewMessage
    <3>1. p = a /\ need > 0 /\ t + need = 1 + b
      BY <2>3, <2>5, <2>6, <2>9 DEF Asking
    <3> QED
      BY <1>3, <2>4, <2>7, <3>1
  <2> QED
    BY <2>8, <2>9
<1> QED
  BY <1>6, <1>7

\* and none waits for its response any more.
LEMMA NoneWaits ==
  ASSUME NEW m, NEW x, NEW y, NEW at, State(m, x, y, at),
         ~failed, phase = "idle", responseClosed = "clean"
  PROVE  requests = <<>>
<1> SUFFICES ASSUME requests # <<>>
             PROVE  FALSE
  OBVIOUS
<1>1. PICK s \in Scripts : s = script
  BY DEF State, Types
<1>2. PICK i \in 1..Len(s) : i = (m - Len(requests)) + 1
  BY <1>1, OldestAsked
<1>3. responses = <<>> /\ response.need = -1 /\ y = Len(ServerWire(s))
  BY <1>1 DEF State, Steering
<1>4. Answering(s, response, i) /\ Placed(s, responses, at, phase, rest, Position(response), y)
  <2>1. Live
    BY DEF Live
  <2> QED
    BY <1>1, <1>2, <2>1 DEF State, Replying, Backlog
<1>5. Position(response) = y
  <2>1. Len(responses) + 1 = 1
    BY <1>3, EmptySeq
  <2> QED
    BY <1>4, <2>1 DEF Placed
<1>6. PICK a \in Nat, h \in Nat, b \in Nat, g \in Nat :
        a = ReplyAt(s, i) /\ h = Early(s[i]) /\ b = Body(s[i]) /\ g = Late(s[i])
  BY AnswerSlice
<1>7. PICK z \in Nat : z = Len(ServerWire(s))
  BY ScriptIs
<1>8. a + (h + (1 + b) + g) <= z
  <2>1. PICK c \in 0..z : c = ReplyAt(s, i + 1)
    BY <1>7, AnswerSlice
  <2>2. c = a + (h + (1 + b) + g)
    BY <1>6, <2>1, AnswerSlice
  <2> QED
    BY <2>1, <2>2
<1>9. /\ response.message = NewMessage
      /\ response.consumed = a \/ (response.consumed = a + 1 /\ h = 1)
  BY <1>3, <1>4, <1>6 DEF Answering, UntilClose, Early
<1>10. PICK p \in Nat : p = response.consumed
  <2>1. response \in Decoders
    BY DEF State, Types
  <2> QED
    BY <2>1 DEF Decoders
<1>11. Position(response) = p
  BY <1>9, <1>10, FreshIs DEF Position
<1> QED
  BY <1>3, <1>5, <1>7, <1>8, <1>9, <1>10, <1>11

\* A connection seen to its clean end has an exchange for every request of
\* the conversation, except for those counted as discarded.
THEOREM AllAccountedAlways == Spec => []AllAccounted
<1>1. HttpInv => AllAccounted
  <2> SUFFICES ASSUME NEW m, NEW x, NEW y, NEW at, State(m, x, y, at),
                      phase = "idle", ~failed, upgraded = NoExchange,
                      c2s = <<>>, responseClosed = "clean",
                      \A i \in DOMAIN script : script[i].upgrade => i = Len(script)
               PROVE  Len(emitted) + discarded = Len(script)
    BY DEF HttpInv, AllAccounted
  <2>1. m = Len(script)
    BY AllQueued
  <2>2. requests = <<>>
    BY NoneWaits
  <2>3. Dropped(<<>>) = {}
    BY DEF Dropped
  <2>4. Cardinality(Dropped(requests)) = 0 /\ Len(requests) = 0
    BY <2>2, <2>3, FS_EmptySet, EmptySeq
  <2>5. PICK l \in Nat, d \in Nat, k \in Nat : l = Len(emitted) /\ d = discarded /\ k = m
    <3>1. m \in Nat
      BY StateTypes
    <3>2. emitted \in Seq(Exchanges) /\ discarded \in Nat
      BY DEF State, Types
    <3>3. Len(emitted) \in Nat
      BY <3>2
    <3> QED
      BY <3>1, <3>2, <3>3
  <2>6. l + (0 + d) = (k - 0) + 0
    BY <2>4, <2>5 DEF State, Accounted
  <2> QED
    BY <2>1, <2>5, <2>6
<1> QED
  BY <1>1, Invariance, PTL

-----------------------------------------------------------------------------
(* The byte counters, and the bounds of what a connection makes the        *)
(* analyzer hold back.  The request that is being read counts too: what it *)
(* retains will join the queue, and its budget is what the queue leaves.   *)

Held(q) == [i \in DOMAIN q |-> Len(q[i].bytes)]
Sizes(c) == [i \in DOMAIN c |-> Len(c[i])]

Bounded ==
  /\ SumIs(Held(requests), requestBytes) /\ SumIs(Sizes(responses), responseBytes)
  /\ requestBytes + Len(request.message.bytes) <= Limit /\ responseBytes <= Limit
  /\ Len(requests) <= MaxRequests /\ Len(responses) <= MaxChunks
  /\ failed => requests = <<>>

LEMMA HeldIs ==
  ASSUME NEW q \in Seq(Messages)
  PROVE  /\ Held(q) \in Seq(Nat) /\ Len(Held(q)) = Len(q)
         /\ \A i \in 1..Len(q) : Held(q)[i] = Len(q[i].bytes) /\ Held(q)[i] \in Nat
<1>1. Len(q) \in Nat /\ DOMAIN q = 1..Len(q) /\ \A i \in 1..Len(q) : q[i] \in Messages
  OBVIOUS
<1>2. \A i \in 1..Len(q) : Len(q[i].bytes) \in Nat
  <2> TAKE i \in 1..Len(q)
  <2>1. q[i].bytes \in Seq(Tokens)
    BY <1>1 DEF Messages
  <2> QED
    BY <2>1
<1>3. Held(q) = [i \in 1..Len(q) |-> Len(q[i].bytes)]
  BY <1>1 DEF Held
<1> QED
  BY <1>1, <1>2, <1>3

LEMMA SizesIs ==
  ASSUME NEW c \in Seq(Seq(Tokens))
  PROVE  /\ Sizes(c) \in Seq(Nat) /\ Len(Sizes(c)) = Len(c)
         /\ \A i \in 1..Len(c) : Sizes(c)[i] = Len(c[i]) /\ Sizes(c)[i] \in Nat
<1>1. Len(c) \in Nat /\ DOMAIN c = 1..Len(c) /\ \A i \in 1..Len(c) : c[i] \in Seq(Tokens)
  OBVIOUS
<1>2. \A i \in 1..Len(c) : Len(c[i]) \in Nat
  BY <1>1
<1>3. Sizes(c) = [i \in 1..Len(c) |-> Len(c[i])]
  BY <1>1 DEF Sizes
<1> QED
  BY <1>1, <1>2, <1>3

LEMMA QueueAppended ==
  ASSUME NEW q \in Seq(Messages), NEW p \in Seq(Messages), Len(p) = Len(q) + 1,
         \A i \in 1..Len(q) : p[i] = q[i], NEW n, SumIs(Held(q), n)
  PROVE  SumIs(Held(p), n + Len(p[Len(p)].bytes))
<1>1. Held(q) \in Seq(Nat) /\ Len(Held(q)) = Len(q) /\ \A i \in 1..Len(q) : Held(q)[i] = Len(q[i].bytes)
  BY HeldIs
<1>2. Held(p) \in Seq(Nat) /\ Len(Held(p)) = Len(p) /\ \A i \in 1..Len(p) : Held(p)[i] = Len(p[i].bytes)
  BY HeldIs
<1>3. PICK w \in Seq(Nat), v \in Seq(Nat) : w = Held(q) /\ v = Held(p)
  BY <1>1, <1>2
<1>4. Len(v) = Len(w) + 1
  BY <1>1, <1>2, <1>3
<1>5. \A i \in 1..Len(w) : w[i] = v[i]
  <2> TAKE i \in 1..Len(w)
  <2>1. i \in 1..Len(q) /\ i \in 1..Len(p)
    BY <1>1, <1>3
  <2> QED
    BY <1>1, <1>2, <1>3, <2>1
<1>6. v[Len(v)] = Len(p[Len(p)].bytes)
  <2>1. Len(p) \in 1..Len(p)
    OBVIOUS
  <2> QED
    BY <1>2, <1>3, <2>1
<1>7. SumIs(w, n)
  BY <1>3
<1>8. SumIs(v, n + v[Len(v)])
  BY <1>4, <1>5, <1>7, SumAppended
<1> QED
  BY <1>3, <1>6, <1>8

LEMMA QueueShifted ==
  ASSUME NEW q \in Seq(Messages), NEW p \in Seq(Messages), Len(q) = Len(p) + 1,
         \A i \in 1..Len(p) : p[i] = q[i + 1]
  PROVE  /\ \A n : SumIs(Held(q), n) =>
              /\ SumIs(Held(p), n - Len(q[1].bytes)) /\ n \in Nat
              /\ Len(q[1].bytes) \in Nat /\ Len(q[1].bytes) <= n
         /\ \A n : SumIs(Held(p), n) => SumIs(Held(q), n + Len(q[1].bytes))
<1>1. Held(q) \in Seq(Nat) /\ Len(Held(q)) = Len(q) /\ \A i \in 1..Len(q) : Held(q)[i] = Len(q[i].bytes)
  BY HeldIs
<1>2. Held(p) \in Seq(Nat) /\ Len(Held(p)) = Len(p) /\ \A i \in 1..Len(p) : Held(p)[i] = Len(p[i].bytes)
  BY HeldIs
<1>3. PICK v \in Seq(Nat), w \in Seq(Nat) : v = Held(q) /\ w = Held(p)
  BY <1>1, <1>2
<1>4. Len(v) = Len(w) + 1
  BY <1>1, <1>2, <1>3
<1>5. \A i \in 1..Len(w) : w[i] = v[i + 1]
  <2> TAKE i \in 1..Len(w)
  <2>1. i \in 1..Len(p) /\ i + 1 \in 1..Len(q)
    BY <1>2, <1>3
  <2>2. w[i] = Len(p[i].bytes) /\ v[i + 1] = Len(q[i + 1].bytes) /\ p[i] = q[i + 1]
    BY <1>1, <1>2, <1>3, <2>1
  <2> QED
    BY <2>2
<1>6. v[1] = Len(q[1].bytes) /\ v[1] \in Nat
  <2>1. 1 \in 1..Len(q) /\ 1 \in 1..Len(v)
    BY <1>4
  <2>2. v[1] \in Nat
    BY <2>1
  <2> QED
    BY <1>1, <1>3, <2>1, <2>2
<1>7. ASSUME NEW n, SumIs(v, n)
      PROVE  SumIs(w, n - v[1]) /\ v[1] <= n /\ n \in Nat
  BY <1>4, <1>5, <1>7, SumTail, SumOfSequence
<1>8. ASSUME NEW n, SumIs(w, n)
      PROVE  SumIs(v, n + v[1])
  BY <1>4, <1>5, <1>8, SumPrepended
<1> QED
  BY <1>3, <1>6, <1>7, <1>8

LEMMA BacklogAppended ==
  ASSUME NEW q \in Seq(Seq(Tokens)), NEW p \in Seq(Seq(Tokens)), Len(p) = Len(q) + 1,
         \A i \in 1..Len(q) : p[i] = q[i], NEW n, SumIs(Sizes(q), n)
  PROVE  SumIs(Sizes(p), n + Len(p[Len(p)]))
<1>1. Sizes(q) \in Seq(Nat) /\ Len(Sizes(q)) = Len(q) /\ \A i \in 1..Len(q) : Sizes(q)[i] = Len(q[i])
  BY SizesIs
<1>2. Sizes(p) \in Seq(Nat) /\ Len(Sizes(p)) = Len(p) /\ \A i \in 1..Len(p) : Sizes(p)[i] = Len(p[i])
  BY SizesIs
<1>3. PICK w \in Seq(Nat), v \in Seq(Nat) : w = Sizes(q) /\ v = Sizes(p)
  BY <1>1, <1>2
<1>4. Len(v) = Len(w) + 1
  BY <1>1, <1>2, <1>3
<1>5. \A i \in 1..Len(w) : w[i] = v[i]
  <2> TAKE i \in 1..Len(w)
  <2>1. i \in 1..Len(q) /\ i \in 1..Len(p)
    BY <1>1, <1>3
  <2> QED
    BY <1>1, <1>2, <1>3, <2>1
<1>6. v[Len(v)] = Len(p[Len(p)])
  <2>1. Len(p) \in 1..Len(p)
    OBVIOUS
  <2> QED
    BY <1>2, <1>3, <2>1
<1>7. SumIs(w, n)
  BY <1>3
<1>8. SumIs(v, n + v[Len(v)])
  BY <1>4, <1>5, <1>7, SumAppended
<1> QED
  BY <1>3, <1>6, <1>8

LEMMA BacklogShifted ==
  ASSUME NEW q \in Seq(Seq(Tokens)), NEW p \in Seq(Seq(Tokens)), Len(q) = Len(p) + 1,
         \A i \in 1..Len(p) : p[i] = q[i + 1]
  PROVE  /\ \A n : SumIs(Sizes(q), n) =>
              /\ SumIs(Sizes(p), n - Len(q[1])) /\ n \in Nat
              /\ Len(q[1]) \in Nat /\ Len(q[1]) <= n
         /\ \A n : SumIs(Sizes(p), n) => SumIs(Sizes(q), n + Len(q[1]))
<1>1. Sizes(q) \in Seq(Nat) /\ Len(Sizes(q)) = Len(q) /\ \A i \in 1..Len(q) : Sizes(q)[i] = Len(q[i])
  BY SizesIs
<1>2. Sizes(p) \in Seq(Nat) /\ Len(Sizes(p)) = Len(p) /\ \A i \in 1..Len(p) : Sizes(p)[i] = Len(p[i])
  BY SizesIs
<1>3. PICK v \in Seq(Nat), w \in Seq(Nat) : v = Sizes(q) /\ w = Sizes(p)
  BY <1>1, <1>2
<1>4. Len(v) = Len(w) + 1
  BY <1>1, <1>2, <1>3
<1>5. \A i \in 1..Len(w) : w[i] = v[i + 1]
  <2> TAKE i \in 1..Len(w)
  <2>1. i \in 1..Len(p) /\ i + 1 \in 1..Len(q)
    BY <1>2, <1>3
  <2>2. w[i] = Len(p[i]) /\ v[i + 1] = Len(q[i + 1]) /\ p[i] = q[i + 1]
    BY <1>1, <1>2, <1>3, <2>1
  <2> QED
    BY <2>2
<1>6. v[1] = Len(q[1]) /\ v[1] \in Nat
  <2>1. 1 \in 1..Len(q) /\ 1 \in 1..Len(v)
    BY <1>4
  <2>2. v[1] \in Nat
    BY <2>1
  <2> QED
    BY <1>1, <1>3, <2>1, <2>2
<1>7. ASSUME NEW n, SumIs(v, n)
      PROVE  SumIs(w, n - v[1]) /\ v[1] <= n /\ n \in Nat
  BY <1>4, <1>5, <1>7, SumTail, SumOfSequence
<1>8. ASSUME NEW n, SumIs(w, n)
      PROVE  SumIs(v, n + v[1])
  BY <1>4, <1>5, <1>8, SumPrepended
<1> QED
  BY <1>3, <1>6, <1>7, <1>8

LEMMA QueueGrown ==
  ASSUME NEW q \in Seq(Messages), NEW e \in Messages, NEW n, SumIs(Held(q), n)
  PROVE  SumIs(Held(Append(q, e)), n + Len(e.bytes)) /\ Len(Append(q, e)) = Len(q) + 1
<1>1. /\ Append(q, e) \in Seq(Messages) /\ Len(Append(q, e)) = Len(q) + 1
      /\ (\A i \in 1..Len(q) : Append(q, e)[i] = q[i]) /\ Append(q, e)[Len(q) + 1] = e
  BY AppendProperties
<1>2. PICK p \in Seq(Messages) : p = Append(q, e)
  BY <1>1
<1>3. Len(p) = Len(q) + 1 /\ (\A i \in 1..Len(q) : p[i] = q[i]) /\ p[Len(p)] = e
  BY <1>1, <1>2
<1>4. SumIs(Held(p), n + Len(p[Len(p)].bytes))
  BY <1>3, QueueAppended
<1> QED
  BY <1>2, <1>3, <1>4

LEMMA QueueShrunk ==
  ASSUME NEW q \in Seq(Messages), q # <<>>, NEW n, SumIs(Held(q), n)
  PROVE  /\ SumIs(Held(Tail(q)), n - Len(q[1].bytes)) /\ n \in Nat
         /\ Len(q[1].bytes) \in Nat /\ Len(q[1].bytes) <= n /\ Len(Tail(q)) <= Len(q)
<1>1. PICK p \in Seq(Messages) :
        /\ p = Tail(q) /\ Len(p) = Len(q) - 1 /\ Len(q) \in Nat \ {0}
        /\ \A i \in DOMAIN p : p[i] = q[i + 1]
  BY TailOf
<1>2. Len(q) = Len(p) + 1 /\ Len(p) <= Len(q) /\ \A i \in 1..Len(p) : p[i] = q[i + 1]
  BY <1>1
<1>3. /\ SumIs(Held(p), n - Len(q[1].bytes)) /\ n \in Nat
      /\ Len(q[1].bytes) \in Nat /\ Len(q[1].bytes) <= n
  BY <1>2, QueueShifted
<1> QED
  BY <1>1, <1>2, <1>3

LEMMA BacklogGrown ==
  ASSUME NEW c \in Seq(Seq(Tokens)), NEW r \in Seq(Tokens), NEW n, SumIs(Sizes(c), n)
  PROVE  /\ SumIs(Sizes(Append(c, r)), n + Len(r)) /\ Len(Append(c, r)) = Len(c) + 1
         /\ SumIs(Sizes(<<r>> \o c), n + Len(r)) /\ Len(<<r>> \o c) = Len(c) + 1
<1>1. SumIs(Sizes(Append(c, r)), n + Len(r)) /\ Len(Append(c, r)) = Len(c) + 1
  <2>1. /\ Append(c, r) \in Seq(Seq(Tokens)) /\ Len(Append(c, r)) = Len(c) + 1
        /\ (\A i \in 1..Len(c) : Append(c, r)[i] = c[i]) /\ Append(c, r)[Len(c) + 1] = r
    BY AppendProperties
  <2>2. PICK p \in Seq(Seq(Tokens)) : p = Append(c, r)
    BY <2>1
  <2>3. Len(p) = Len(c) + 1 /\ (\A i \in 1..Len(c) : p[i] = c[i]) /\ p[Len(p)] = r
    BY <2>1, <2>2
  <2>4. SumIs(Sizes(p), n + Len(p[Len(p)]))
    BY <2>3, BacklogAppended
  <2> QED
    BY <2>2, <2>3, <2>4
<1>2. SumIs(Sizes(<<r>> \o c), n + Len(r)) /\ Len(<<r>> \o c) = Len(c) + 1
  <2>1. PICK p : p = <<r>> \o c
    OBVIOUS
  <2>2. p \in Seq(Seq(Tokens)) /\ Len(p) = Len(c) + 1
    BY <2>1, PrependedIs
  <2>3. p[1] = r
    BY <2>1, PrependedIs
  <2>4. \A i \in 1..Len(c) : p[i + 1] = c[i]
    BY <2>1, PrependedIs
  <2>5. SumIs(Sizes(p), n + Len(p[1]))
    BY <2>2, <2>4, BacklogShifted
  <2> QED
    BY <2>1, <2>2, <2>3, <2>5
<1> QED
  BY <1>1, <1>2

LEMMA BacklogShrunk ==
  ASSUME NEW c \in Seq(Seq(Tokens)), c # <<>>, NEW n, SumIs(Sizes(c), n)
  PROVE  /\ SumIs(Sizes(Tail(c)), n - Len(Head(c))) /\ n \in Nat
         /\ Len(Head(c)) \in Nat /\ Len(Head(c)) <= n /\ Len(Tail(c)) <= Len(c)
<1>1. PICK p \in Seq(Seq(Tokens)) :
        /\ p = Tail(c) /\ Len(p) = Len(c) - 1 /\ Len(c) \in Nat \ {0} /\ Head(c) = c[1]
        /\ \A i \in DOMAIN p : p[i] = c[i + 1]
  BY TailOf
<1>2. Len(c) = Len(p) + 1 /\ Len(p) <= Len(c) /\ \A i \in 1..Len(p) : p[i] = c[i + 1]
  BY <1>1
<1>3. /\ SumIs(Sizes(p), n - Len(c[1])) /\ n \in Nat
      /\ Len(c[1]) \in Nat /\ Len(c[1]) <= n
  BY <1>2, BacklogShifted
<1> QED
  BY <1>1, <1>2, <1>3

LEMMA NothingHeld ==
  SumIs(Held(<<>>), 0) /\ SumIs(Sizes(<<>>), 0)
<1>1. <<>> \in Seq(Messages) /\ <<>> \in Seq(Seq(Tokens))
  BY EmptySeq
<1>2. DOMAIN Held(<<>>) = {} /\ DOMAIN Sizes(<<>>) = {}
  BY DEF Held, Sizes
<1>3. ASSUME NEW f, DOMAIN f = {}
      PROVE  SumIs(f, 0)
  <2>1. IsFiniteSet(DOMAIN f)
    BY <1>3, FS_EmptySet
  <2> QED
    BY <1>3, <2>1, SumFacts
<1> QED
  BY <1>2, <1>3

-----------------------------------------------------------------------------
(* What the operations do to the counters. *)

LEMMA FailBounded ==
  ASSUME Fail
  PROVE  Bounded'
<1>1. /\ requests' = <<>> /\ requestBytes' = 0 /\ responses' = <<>> /\ responseBytes' = 0
      /\ request' = NewDecoder
  BY DEF Fail
<1>2. Len(<<>>) = 0 /\ Len(request'.message.bytes) = 0
  BY <1>1, FreshIs
<1>3. SumIs(Held(requests'), requestBytes') /\ SumIs(Sizes(responses'), responseBytes')
  BY <1>1, NothingHeld
<1>4. requestBytes' + Len(request'.message.bytes) <= Limit /\ responseBytes' <= Limit
  BY <1>1, <1>2, LimitsAssumption
<1>5. Len(requests') <= MaxRequests /\ Len(responses') <= MaxChunks
  BY <1>1, <1>2, LimitsAssumption
<1> QED
  BY <1>1, <1>3, <1>4, <1>5 DEF Bounded

LEMMA KeptBounded ==
  ASSUME Bounded,
         UNCHANGED <<request, requests, requestBytes, responses, responseBytes, failed>>
  PROVE  Bounded'
  BY DEF Bounded

\* The budget of a request is what the queue leaves of the limit.
LEMMA RetainedInBudget ==
  ASSUME NEW m \in Messages, NEW t \in Tokens, NEW budget \in Nat
  PROVE  \/ Len(RetainRequest(m, t, budget).bytes) <= Len(m.bytes)
         \/ Len(RetainRequest(m, t, budget).bytes) <= budget
<1> DEFINE seen == [m EXCEPT !.total = @ + 1]
<1>1. m.bytes \in Seq(Tokens) /\ Len(m.bytes) \in Nat
  BY DEF Messages
<1>2. seen \in Messages /\ seen.bytes = m.bytes
  BY DEF Messages
<1>3. RetainRequest(m, t, budget) =
        IF m.dropped THEN seen
        ELSE IF seen.total > budget THEN Discard(seen)
        ELSE [seen EXCEPT !.bytes = AppendBounded(@, <<t>>, budget)]
  BY DEF RetainRequest
<1>4. [seen EXCEPT !.bytes = AppendBounded(@, <<t>>, budget)].bytes = AppendBounded(m.bytes, <<t>>, budget)
  BY <1>2 DEF Messages
<1>5. Discard(seen).bytes = <<>> /\ Len(<<>>) = 0
  BY <1>2 DEF Discard, Messages
<1> HIDE DEF seen
<1>6. CASE m.dropped
  BY <1>1, <1>2, <1>3, <1>6
<1>7. CASE ~m.dropped /\ seen.total > budget
  BY <1>1, <1>3, <1>5, <1>7
<1>8. CASE ~m.dropped /\ ~(seen.total > budget)
  <2>1. RetainRequest(m, t, budget).bytes = AppendBounded(m.bytes, <<t>>, budget)
    BY <1>3, <1>4, <1>8
  <2>2. AppendBounded(m.bytes, <<t>>, budget) =
          IF Len(m.bytes) < budget THEN Append(m.bytes, t) ELSE m.bytes
    BY <1>1, OneAppended
  <2>3. Len(Append(m.bytes, t)) = Len(m.bytes) + 1
    BY <1>1
  <2>4. PICK l \in Nat : l = Len(m.bytes)
    BY <1>1
  <2>5. CASE l < budget
    <3>1. Len(RetainRequest(m, t, budget).bytes) = l + 1
      BY <2>1, <2>2, <2>3, <2>4, <2>5
    <3> QED
      BY <2>4, <2>5, <3>1
  <2>6. CASE ~(l < budget)
    BY <1>1, <2>1, <2>2, <2>4, <2>6
  <2> QED
    BY <2>5, <2>6
<1> QED
  BY <1>6, <1>7, <1>8

LEMMA RetainedIsMessage ==
  ASSUME NEW m \in Messages, NEW t \in Tokens, NEW budget \in Nat
  PROVE  RetainRequest(m, t, budget) \in Messages
<1> DEFINE seen == [m EXCEPT !.total = @ + 1]
<1>1. m.bytes \in Seq(Tokens) /\ <<t>> \in Seq(Tokens)
  BY DEF Messages
<1>2. seen \in Messages /\ seen.bytes = m.bytes
  BY DEF Messages
<1>3. RetainRequest(m, t, budget) =
        IF m.dropped THEN seen
        ELSE IF seen.total > budget THEN Discard(seen)
        ELSE [seen EXCEPT !.bytes = AppendBounded(@, <<t>>, budget)]
  BY DEF RetainRequest
<1> HIDE DEF seen
<1>4. Discard(seen) \in Messages
  BY <1>2, DiscardIs
<1>5. PICK b \in Seq(Tokens) : b = AppendBounded(m.bytes, <<t>>, budget)
  BY <1>1, AppendBoundedIs
<1>6. [seen EXCEPT !.bytes = AppendBounded(@, <<t>>, budget)] = [seen EXCEPT !.bytes = b]
  BY <1>2, <1>5
<1>7. [seen EXCEPT !.bytes = b] \in Messages
  BY <1>2, <1>5 DEF Messages
<1> QED
  BY <1>2, <1>3, <1>4, <1>6, <1>7

LEMMA HeadInBudget ==
  ASSUME request \in Decoders, request.message = NewMessage, NEW t \in Tokens,
         NEW budget \in Nat
  PROVE  LET d == HeadOfRequest(t, budget)
         IN  Len(d.message.bytes) <= budget
<1> DEFINE read == ReadHead(request, t, script[t.of].body)
           e == script[t.of]
<1>1. PICK n : n = script[t.of].body
  OBVIOUS
<1>2. PICK b \in Seq(Tokens) : b = request.message.bytes
  BY DEF Decoders, Messages
<1>3. Append(b, t) \in Seq(Tokens) /\ Len(Append(b, t)) \in Nat
  OBVIOUS
<1> DEFINE r == [request.message EXCEPT !.bytes = Append(@, t), !.head = t, !.total = @ + 1]
<1>11. request.message \in Messages
  BY DEF Decoders
<1>12. PICK g : g = r
  OBVIOUS
<1>4. g.bytes = Append(b, t) /\ Discard(g).bytes = <<>>
  BY <1>2, <1>3, <1>11, <1>12 DEF Messages, Discard
<1>13. ReadHead(request, t, n) = [request EXCEPT !.message = r, !.need = n]
  BY <1>11 DEF ReadHead, Decoders, Messages
<1>5. read = [request EXCEPT !.message = g, !.need = n]
  BY <1>1, <1>12, <1>13
<1> HIDE DEF r, read
<1>10. read.message.bytes = Append(b, t)
  BY <1>4, <1>5 DEF Decoders
<1>6. [read EXCEPT !.message = Discard(@)].message.bytes = <<>> /\ Len(<<>>) = 0
  <2>1. [read EXCEPT !.message = Discard(@)].message = Discard(g)
    BY <1>5 DEF Decoders
  <2> QED
    BY <1>4, <2>1
<1>7. HeadOfRequest(t, budget) =
        IF \/ Len(read.message.bytes) > budget
           \/ ~e.chunked /\ e.body > Room(read.message.bytes, budget)
        THEN [read EXCEPT !.message = Discard(@)]
        ELSE read
  BY DEF HeadOfRequest, read
<1>8. CASE HeadOfRequest(t, budget) = [read EXCEPT !.message = Discard(@)]
  BY <1>6, <1>8
<1>9. CASE HeadOfRequest(t, budget) = read /\ ~(Len(read.message.bytes) > budget)
  BY <1>3, <1>10, <1>9
<1> QED
  BY <1>7, <1>8, <1>9

LEMMA ReadRequestBounded ==
  ASSUME NEW m, NEW x, NEW y, NEW at, State(m, x, y, at), Bounded, ReadRequest
  PROVE  Bounded'
<1> DEFINE token == Head(rest)
           budget == IF requestBytes < Limit THEN Limit - requestBytes ELSE 0
           head == HeadOfRequest(token, budget)
           body == ReadBody(request, RetainRequest(request.message, token, budget))
           decoder == IF request.need = -1 THEN head ELSE body
<1>1. /\ phase = "c2s" /\ rest # <<>> /\ ~failed
      /\ IF clientUpgrade
         THEN UNCHANGED <<request, response, queue, backlog, failed>>
         ELSE \/ /\ request.need = -1 /\ token.kind # "head"
                 /\ FailParsing
              \/ /\ request.need # -1 \/ token.kind = "head"
                 /\ decoder.need = 0
                 /\ EnqueueRequest(decoder)
              \/ /\ request.need # -1 \/ token.kind = "head"
                 /\ decoder.need # 0
                 /\ request' = decoder
                 /\ UNCHANGED <<queue, backlog, failed>>
  BY DEF ReadRequest
<1>2. /\ request \in Decoders /\ request.message \in Messages /\ request.message.bytes \in Seq(Tokens)
      /\ rest \in Seq(Tokens) /\ requests \in Seq(Messages) /\ responses \in Seq(Seq(Tokens))
  BY DEF State, Types, Decoders, Messages
<1>3. PICK n \in Nat, limit \in Nat, l \in Nat :
        /\ n = requestBytes /\ limit = Limit /\ l = Len(request.message.bytes)
        /\ n + l <= limit /\ budget = limit - n /\ budget \in Nat
  <2>1. Held(requests) \in Seq(Nat) /\ SumIs(Held(requests), requestBytes)
    BY <1>2, HeldIs DEF Bounded
  <2>2. requestBytes \in Nat
    BY <2>1, SumOfSequence
  <2>3. Limit \in Nat /\ Len(request.message.bytes) \in Nat
    BY <1>2, LimitsAssumption
  <2>4. requestBytes + Len(request.message.bytes) <= Limit
    BY DEF Bounded
  <2>5. PICK n \in Nat, limit \in Nat, l \in Nat :
          n = requestBytes /\ limit = Limit /\ l = Len(request.message.bytes)
    BY <2>2, <2>3
  <2>6. n + l <= limit
    BY <2>4, <2>5
  <2>7. budget = limit - n /\ limit - n \in Nat
    BY <2>5, <2>6
  <2> QED
    BY <2>5, <2>6, <2>7
<1> HIDE DEF budget
<1>4. CASE clientUpgrade
  BY <1>1, <1>4, KeptBounded DEF queue, backlog
<1>5. CASE ~clientUpgrade
  <2>1. token \in Tokens
    BY <1>1, <1>2, TailOf
  <2>2. ASSUME request.need # -1 \/ token.kind = "head"
        PROVE  decoder \in Decoders /\ n + Len(decoder.message.bytes) <= limit
    <3>1. CASE request.need # -1
      <4>1. Read(script, body, m + 1)
        BY <1>1, <1>3, <1>5, <3>1, RequestRead
      <4>2. PICK r \in Messages : r = RetainRequest(request.message, token, budget)
        BY <1>2, <1>3, <2>1, RetainedIsMessage
      <4>3. body \in Decoders /\ body.message = r
        BY <1>2, <4>2, ReadBodyIs
      <4>4. Len(r.bytes) <= l \/ Len(r.bytes) <= limit - n
        BY <1>2, <1>3, <2>1, <4>2, RetainedInBudget
      <4>5. PICK k \in Nat : k = Len(r.bytes)
        BY DEF Messages
      <4>6. n + k <= limit
        BY <1>3, <4>4, <4>5
      <4> QED
        BY <3>1, <4>3, <4>5, <4>6
    <3>2. CASE request.need = -1 /\ token.kind = "head"
      <4>1. Read(script, head, m + 1)
        BY <1>1, <1>3, <1>5, <3>2, RequestRead
      <4>2. request.message = NewMessage
        BY <1>1, <1>5, <3>2 DEF State, Reading, Asking
      <4>3. head \in Decoders
        BY <4>1 DEF Read
      <4>5. Len(head.message.bytes) <= budget
        BY <1>2, <1>3, <2>1, <4>2, HeadInBudget
      <4>6. PICK k \in Nat : k = Len(head.message.bytes)
        BY <4>3 DEF Decoders, Messages
      <4>7. n + k <= limit
        BY <1>3, <4>5, <4>6
      <4> QED
        BY <3>2, <4>3, <4>6, <4>7
    <3> QED
      BY <2>2, <3>1, <3>2
  <2>3. CASE FailParsing
    BY <2>3, FailBounded DEF FailParsing
  <2> HIDE DEF decoder
  <2>4. CASE /\ request.need # -1 \/ token.kind = "head"
             /\ EnqueueRequest(decoder)
    <3>1. CASE FailParsing
      BY <3>1, FailBounded DEF FailParsing
    <3>2. CASE /\ ~(Len(requests) >= MaxRequests)
               /\ requests' = Append(requests, Taken(decoder))
               /\ requestBytes' = requestBytes + Len(Taken(decoder).bytes)
               /\ request' = AfterTake(decoder)
               /\ UNCHANGED <<backlog, failed>>
      <4>1. decoder \in Decoders /\ n + Len(decoder.message.bytes) <= limit
        BY <2>2, <2>4
      <4>2. /\ Taken(decoder) \in Messages /\ Taken(decoder).bytes = decoder.message.bytes
            /\ AfterTake(decoder).message = NewMessage
        BY <4>1, TakenIs
      <4>3. /\ SumIs(Held(requests'), requestBytes') /\ Len(requests') = Len(requests) + 1
        <5>1. SumIs(Held(requests), requestBytes)
          BY DEF Bounded
        <5> QED
          BY <1>2, <3>2, <4>2, <5>1, QueueGrown
      <4>4. Len(requests') <= MaxRequests
        <5>1. Len(requests) \in Nat /\ MaxRequests \in Nat
          BY <1>2, LimitsAssumption
        <5> QED
          BY <3>2, <4>3, <5>1
      <4>5. requestBytes' + Len(request'.message.bytes) <= Limit
        <5>1. Len(request'.message.bytes) = 0
          BY <3>2, <4>2, FreshIs
        <5>2. PICK k \in Nat : k = Len(decoder.message.bytes)
          BY <4>1 DEF Decoders, Messages
        <5>3. requestBytes' = n + k /\ n + k <= limit
          BY <1>3, <3>2, <4>1, <4>2, <5>2
        <5> QED
          BY <1>3, <5>1, <5>3
      <4> QED
        BY <1>1, <3>2, <4>3, <4>4, <4>5 DEF Bounded, backlog
    <3> QED
      BY <2>4, <3>1, <3>2 DEF EnqueueRequest
  <2>5. CASE /\ request.need # -1 \/ token.kind = "head"
             /\ request' = decoder
             /\ UNCHANGED <<queue, backlog, failed>>
    <3>1. requestBytes' + Len(request'.message.bytes) <= Limit
      BY <1>3, <2>2, <2>5 DEF queue
    <3> QED
      BY <2>5, <3>1 DEF Bounded, queue, backlog
  <2> QED
    BY <1>1, <1>5, <2>3, <2>4, <2>5
<1> QED
  BY <1>4, <1>5

LEMMA PairBounded ==
  ASSUME requests \in Seq(Messages), request \in Decoders, Bounded, requests # <<>>,
         NEW message, NEW incomplete, NEW decoder, Pair(message, incomplete, decoder)
  PROVE  Bounded'
<1>1. \/ UNCHANGED <<request, queue, backlog, failed>>
      \/ Fail
      \/ /\ requests' = Tail(requests)
         /\ requestBytes' = requestBytes - Len(requests[1].bytes)
         /\ UNCHANGED <<request, backlog, failed>>
  BY Zenon DEF Pair
<1>2. CASE UNCHANGED <<request, queue, backlog, failed>>
  BY <1>2, KeptBounded DEF queue, backlog
<1>3. CASE Fail
  BY <1>3, FailBounded
<1>4. CASE /\ requests' = Tail(requests)
           /\ requestBytes' = requestBytes - Len(requests[1].bytes)
           /\ UNCHANGED <<request, backlog, failed>>
  <2>1. SumIs(Held(requests), requestBytes)
    BY DEF Bounded
  <2>2. /\ SumIs(Held(Tail(requests)), requestBytes - Len(requests[1].bytes))
        /\ requestBytes \in Nat /\ Len(requests[1].bytes) \in Nat
        /\ Len(Tail(requests)) <= Len(requests) /\ Len(requests[1].bytes) <= requestBytes
    BY <2>1, QueueShrunk
  <2>3. PICK n \in Nat, k \in Nat, limit \in Nat, l \in Nat :
          /\ n = requestBytes /\ k = Len(requests[1].bytes) /\ limit = Limit
          /\ l = Len(request.message.bytes)
    <3>1. Limit \in Nat /\ Len(request.message.bytes) \in Nat
      BY LimitsAssumption DEF Decoders, Messages
    <3> QED
      BY <2>2, <3>1
  <2>4. n + l <= limit
    BY <2>3 DEF Bounded
  <2>5. requestBytes' + Len(request'.message.bytes) <= Limit
    <3>1. requestBytes' = n - k /\ Len(request'.message.bytes) = l
      BY <1>4, <2>3
    <3>2. (n - k) + l <= limit
      BY <2>4
    <3> QED
      BY <2>3, <3>1, <3>2
  <2>6. Len(requests') <= MaxRequests
    <3>1. Len(Tail(requests)) \in Nat /\ Len(requests) \in Nat /\ MaxRequests \in Nat
      BY LimitsAssumption, TailOf
    <3> QED
      BY <1>4, <2>2, <3>1 DEF Bounded
  <2>7. failed' => requests' = <<>>
    BY <1>4 DEF Bounded
  <2> QED
    BY <1>4, <2>2, <2>5, <2>6, <2>7 DEF Bounded, backlog
<1> QED
  BY <1>1, <1>2, <1>3, <1>4

LEMMA ReadResponseBounded ==
  ASSUME NEW m, NEW x, NEW y, NEW at, State(m, x, y, at), Bounded, ReadResponse
  PROVE  Bounded'
<1>1. /\ requests \in Seq(Messages) /\ request \in Decoders
      /\ responses \in Seq(Seq(Tokens)) /\ rest \in Seq(Tokens)
  BY DEF State, Types
<1>2. CASE upgraded # NoExchange
  BY <1>2, KeptBounded DEF ReadResponse, queue, backlog
<1>3. CASE upgraded = NoExchange /\ requests = <<>>
  <2>1. BufferResponse
    BY <1>3 DEF ReadResponse
  <2>2. CASE FailParsing
    BY <2>2, FailBounded DEF FailParsing
  <2>3. CASE /\ ~(responseBytes + Len(rest) > Limit \/ Len(responses) >= MaxChunks)
             /\ responses' = IF phase = "backlog" THEN <<rest>> \o responses
                             ELSE Append(responses, rest)
             /\ responseBytes' = responseBytes + Len(rest)
             /\ UNCHANGED <<request, queue, failed>>
    <3>1. SumIs(Sizes(responses), responseBytes)
      BY DEF Bounded
    <3>2. /\ SumIs(Sizes(Append(responses, rest)), responseBytes + Len(rest))
          /\ Len(Append(responses, rest)) = Len(responses) + 1
          /\ SumIs(Sizes(<<rest>> \o responses), responseBytes + Len(rest))
          /\ Len(<<rest>> \o responses) = Len(responses) + 1
      BY <1>1, <3>1, BacklogGrown
    <3>3. SumIs(Sizes(responses'), responseBytes') /\ Len(responses') = Len(responses) + 1
      BY <2>3, <3>2
    <3>4. PICK n \in Nat, k \in Nat : n = responseBytes /\ k = Len(rest)
      <4>1. Sizes(responses) \in Seq(Nat)
        BY <1>1, SizesIs
      <4>2. responseBytes \in Nat
        BY <3>1, <4>1, SumOfSequence
      <4> QED
        BY <1>1, <4>2
    <3>5. responseBytes' <= Limit
      BY <2>3, <3>4, LimitsAssumption
    <3>6. Len(responses') <= MaxChunks
      <4>1. Len(responses) \in Nat /\ MaxChunks \in Nat
        BY <1>1, LimitsAssumption
      <4> QED
        BY <2>3, <3>3, <4>1
    <3> QED
      BY <2>3, <3>3, <3>5, <3>6 DEF Bounded, queue
  <2> QED
    BY <2>1, <2>2, <2>3 DEF BufferResponse
<1>4. CASE upgraded = NoExchange /\ requests # <<>>
  <2>1. DecodeResponse(Head(rest))
    BY <1>4 DEF ReadResponse
  <2>2. \/ FailParsing
        \/ \E message, incomplete, decoder : Pair(message, incomplete, decoder)
        \/ UNCHANGED <<request, queue, backlog, failed>>
    BY <2>1, Zenon DEF DecodeResponse
  <2>3. CASE FailParsing
    BY <2>3, FailBounded DEF FailParsing
  <2>4. ASSUME NEW message, NEW incomplete, NEW decoder, Pair(message, incomplete, decoder)
        PROVE  Bounded'
    BY <1>1, <1>4, <2>4, PairBounded
  <2>5. CASE UNCHANGED <<request, queue, backlog, failed>>
    BY <2>5, KeptBounded DEF queue, backlog
  <2> QED
    BY <2>2, <2>3, <2>4, <2>5
<1> QED
  BY <1>2, <1>3, <1>4

LEMMA FlushChunkBounded ==
  ASSUME NEW m, NEW x, NEW y, NEW at, State(m, x, y, at), Bounded, FlushChunk
  PROVE  Bounded'
<1>1. responses \in Seq(Seq(Tokens)) /\ responses # <<>>
  BY DEF State, Types, FlushChunk
<1>2. /\ responses' = Tail(responses) /\ responseBytes' = responseBytes - Len(Head(responses))
      /\ UNCHANGED <<request, queue, failed>>
  BY DEF FlushChunk
<1>3. SumIs(Sizes(responses), responseBytes)
  BY DEF Bounded
<1>4. /\ SumIs(Sizes(Tail(responses)), responseBytes - Len(Head(responses)))
      /\ responseBytes \in Nat /\ Len(Head(responses)) \in Nat
      /\ Len(Head(responses)) <= responseBytes /\ Len(Tail(responses)) <= Len(responses)
  BY <1>1, <1>3, BacklogShrunk
<1>5. responseBytes' <= Limit
  <2>1. PICK n \in Nat, k \in Nat : n = responseBytes /\ k = Len(Head(responses))
    BY <1>4
  <2>2. n <= Limit
    BY <2>1 DEF Bounded
  <2> QED
    BY <1>2, <2>1, <2>2, LimitsAssumption
<1>6. Len(responses') <= MaxChunks
  <2>1. Len(Tail(responses)) \in Nat /\ Len(responses) \in Nat /\ MaxChunks \in Nat
    BY <1>1, LimitsAssumption, TailOf
  <2> QED
    BY <1>2, <1>4, <2>1 DEF Bounded
<1> QED
  BY <1>2, <1>4, <1>5, <1>6 DEF Bounded, queue

LEMMA FlushDoneBounded ==
  ASSUME NEW m, NEW x, NEW y, NEW at, State(m, x, y, at), Bounded, FlushDone
  PROVE  Bounded'
<1>1. \/ requests # <<>> /\ \E message, incomplete, decoder : Pair(message, incomplete, decoder)
      \/ UNCHANGED <<request, queue, backlog, failed>>
  BY Zenon DEF FlushDone
<1>2. requests \in Seq(Messages) /\ request \in Decoders
  BY DEF State, Types
<1>3. ASSUME requests # <<>>, NEW message, NEW incomplete, NEW decoder,
             Pair(message, incomplete, decoder)
      PROVE  Bounded'
  BY <1>2, <1>3, PairBounded
<1>4. CASE UNCHANGED <<request, queue, backlog, failed>>
  BY <1>4, KeptBounded DEF queue, backlog
<1> QED
  BY <1>1, <1>3, <1>4

LEMMA NextBounded ==
  ASSUME HttpInv, Bounded, [Next]_vars
  PROVE  Bounded'
<1>1. PICK m, x, y : \E at : State(m, x, y, at)
  BY DEF HttpInv
<1>2. PICK at : State(m, x, y, at)
  BY <1>1
<1>3. ASSUME NEW n \in 1..ChunkMax, FeedClient(n) \/ FeedServer(n)
      PROVE  Bounded'
  BY <1>3, KeptBounded DEF FeedClient, FeedServer, queue, backlog
<1>4. CASE ReadRequest
  BY <1>2, <1>4, ReadRequestBounded
<1>5. CASE ReadResponse
  BY <1>2, <1>5, ReadResponseBounded
<1>6. CASE ChunkDone
  BY <1>6, KeptBounded DEF ChunkDone, queue, backlog
<1>7. CASE FlushChunk
  BY <1>2, <1>7, FlushChunkBounded
<1>8. CASE FlushDone
  BY <1>2, <1>8, FlushDoneBounded
<1>9. CASE CloseResponse \/ Finish \/ EmitUpgraded
  BY <1>9, KeptBounded DEF CloseResponse, Finish, EmitUpgraded, queue, backlog
<1>10. CASE UNCHANGED vars
  BY <1>10, KeptBounded DEF vars
<1> QED
  BY <1>3, <1>4, <1>5, <1>6, <1>7, <1>8, <1>9, <1>10 DEF Next

LEMMA BoundedTypes ==
  ASSUME HttpInv, Bounded
  PROVE  TypeOK
<1>1. PICK m, x, y : \E at : State(m, x, y, at)
  BY DEF HttpInv
<1>2. PICK at : State(m, x, y, at)
  BY <1>1
<1>3. requests \in Seq(Messages) /\ responses \in Seq(Seq(Tokens)) /\ request \in Decoders
  BY <1>2 DEF State, Types
<1>4. /\ Held(requests) \in Seq(Nat) /\ SumIs(Held(requests), requestBytes)
      /\ Sizes(responses) \in Seq(Nat) /\ SumIs(Sizes(responses), responseBytes)
  BY <1>3, HeldIs, SizesIs DEF Bounded
<1>5. ASSUME NEW f \in Seq(Nat), NEW n, SumIs(f, n)
      PROVE  n = SumFunction(f)
  <2>1. IsFiniteSet(DOMAIN f) /\ \A i \in DOMAIN f : f[i] \in Nat
    BY <1>5, SumOfSequence
  <2>2. SumIs(f, SumFunction(f))
    BY <2>1, SumFunctionIs
  <2> QED
    BY <1>5, <2>1, <2>2, SumFacts
<1>6. /\ requestBytes = SumFunction([i \in DOMAIN requests |-> Len(requests[i].bytes)])
      /\ responseBytes = TotalLength(responses)
  BY <1>4, <1>5 DEF Held, Sizes, TotalLength
<1>7. requestBytes \in Nat /\ responseBytes \in Nat
  BY <1>4, SumOfSequence
<1>8. requestBytes <= Limit
  <2>0. request.message \in Messages
    BY <1>3 DEF Decoders
  <2>5. request.message.bytes \in Seq(Tokens)
    BY <2>0 DEF Messages
  <2>6. Len(request.message.bytes) \in Nat
    BY <2>5
  <2>1. PICK n \in Nat, l \in Nat : n = requestBytes /\ l = Len(request.message.bytes)
    BY <1>7, <2>6
  <2>2. n + l <= Limit
    BY <2>1 DEF Bounded
  <2> QED
    BY <2>1, <2>2, LimitsAssumption
<1>9. Counted
  BY <1>6, <1>8 DEF Bounded, Counted
<1>10. \A i \in DOMAIN requests : requests[i].head.kind = "head"
  <2>1. CASE failed
    <3>1. requests = <<>>
      BY <2>1 DEF Bounded
    <3> QED
      BY <3>1
  <2>2. CASE ~failed
    <3>1. \A i \in DOMAIN requests : requests[i].head = Token("head", (m - Len(requests)) + i)
      BY <1>2, <2>2 DEF State, Queue, Queued
    <3>2. \A k : Token("head", k).kind = "head"
      BY DEF Token
    <3>3. TAKE i \in DOMAIN requests
    <3>4. requests[i].head = Token("head", (m - Len(requests)) + i)
      BY <3>1
    <3> QED
      BY <3>2, <3>4
  <2>3. failed \in BOOLEAN
    BY <1>2 DEF State, Types
  <2> QED
    BY <2>1, <2>2
<1>11. /\ phase \in Phases /\ responseClosed \in {"open", "clean", "unclean"}
       /\ discarded \in Nat /\ {failed, clientUpgrade, finishing} \subseteq BOOLEAN
  BY <1>2 DEF State, Types
<1> QED
  BY <1>7, <1>9, <1>10, <1>11 DEF TypeOK, Bounded

\* The byte counters are the sums they stand for, and what is held back of a
\* connection stays within its limits: max_session_bytes for the requests that
\* wait and the one being read together, and for the backlog of responses;
\* MAX_PENDING_REQUESTS and MAX_PENDING_CHUNKS for their numbers.
THEOREM TypesHold == Spec => []TypeOK
<1>1. Init => Bounded
  <2> SUFFICES ASSUME Init
               PROVE  Bounded
    OBVIOUS
  <2>1. /\ requests = <<>> /\ requestBytes = 0 /\ responses = <<>> /\ responseBytes = 0
        /\ request = NewDecoder
    BY DEF Init
  <2>2. Len(<<>>) = 0 /\ Len(request.message.bytes) = 0
    BY <2>1, FreshIs
  <2>3. SumIs(Held(requests), requestBytes) /\ SumIs(Sizes(responses), responseBytes)
    BY <2>1, NothingHeld
  <2>4. requestBytes + Len(request.message.bytes) <= Limit /\ responseBytes <= Limit
    BY <2>1, <2>2, LimitsAssumption
  <2>5. Len(requests) <= MaxRequests /\ Len(responses) <= MaxChunks
    BY <2>1, <2>2, LimitsAssumption
  <2> QED
    BY <2>1, <2>3, <2>4, <2>5 DEF Bounded
<1>2. HttpInv /\ Bounded /\ [Next]_vars => Bounded'
  BY NextBounded
<1>3. HttpInv /\ Bounded => TypeOK
  BY BoundedTypes
<1> QED
  BY <1>1, <1>2, <1>3, Invariance, PTL DEF Spec
=============================================================================
