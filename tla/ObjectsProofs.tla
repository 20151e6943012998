--------------------------- MODULE ObjectsProofs ---------------------------
(***************************************************************************)
(* Theorems about the objects that one thread uses at a time, for drafts,  *)
(* pools, lists, logs and wires of any size.                               *)
(***************************************************************************)
EXTENDS Objects, FiniteSetTheorems, FunctionTheorems, SequenceTheorems, TLAPS

-----------------------------------------------------------------------------
(* The reputation of a validator *)

ReputationInv == reputation \in 0..100

\* A sum below the size of the word is what it is.
LEMMA FitsWord ==
    ASSUME NEW a \in Nat, a < WordSize
    PROVE  a % WordSize = a /\ (a + WordSize) % WordSize = a
BY WordSizeAssumption

\* A success adds one, up to 100; a failure takes five, down to 0.
LEMMA ReputationMoves ==
    ASSUME NEW r \in 0..100
    PROVE  /\ Record!raised(r) \in 0..100 /\ Record!raised(r) \in (r - 5)..(r + 1)
           /\ Record!lowered(r) \in 0..100 /\ Record!lowered(r) \in (r - 5)..(r + 1)
<1>1. r + 1 \in Nat /\ r + 1 < WordSize
  BY WordSizeAssumption
<1>2. (r + 1) % WordSize = r + 1
  BY <1>1, FitsWord
<1>3. ASSUME r > 5 PROVE (r + WordSize - 5) % WordSize = r - 5
  <2>1. r - 5 \in Nat /\ r - 5 < WordSize /\ r + WordSize - 5 = (r - 5) + WordSize
    BY <1>3, WordSizeAssumption
  <2>. QED  BY <2>1, FitsWord
<1>4. Record!raised(r) = IF r + 1 < 100 THEN r + 1 ELSE 100
  BY <1>2 DEF Record!raised
<1>5. Record!lowered(r) = IF r > 5 THEN r - 5 ELSE 0
  BY <1>3 DEF Record!lowered
<1>. QED  BY <1>4, <1>5

LEMMA RecordNext ==
    ASSUME ReputationInv, [Next]_vars
    PROVE  /\ ReputationInv'
           /\ [/\ reputation' \in 0..100
               /\ reputation' \in (reputation - 5)..(reputation + 1)]_(Record!validatorVars)
<1>. DEFINE r == reputation
            r2 == reputation'
<1>0. r \in 0..100
  BY DEF ReputationInv
<1>1. CASE Record!Next
  <2>1. r2 = r \/ r2 = Record!raised(r) \/ r2 = Record!lowered(r)
    BY <1>1 DEF Record!Next, Record!stake, Record!updateReputation
  <2>2. r2 \in 0..100 /\ r2 \in (r - 5)..(r + 1)
    <3>. HIDE DEF r, r2
    <3>1. r \in (r - 5)..(r + 1)
      BY <1>0
    <3>. QED  BY <1>0, <2>1, <3>1, ReputationMoves
  <2>. QED  BY <2>2 DEF ReputationInv
<1>2. CASE UNCHANGED validatorVars
  BY <1>0, <1>2 DEF validatorVars, Record!validatorVars, ReputationInv
<1>. QED  BY <1>1, <1>2 DEF Next, vars

-----------------------------------------------------------------------------
(* Texts *)

\* A set of naturals that is not empty has a least element.
LEMMA LeastNatural ==
    ASSUME NEW S \in SUBSET Nat, S # {}
    PROVE  \E n \in S : \A m \in S : n <= m
<1>1. IsWellFoundedOn(OpToRel(<, Nat), Nat)
  BY NatLessThanWellFounded
<1>2. PICK n \in S : \A m \in S : ~(<<m, n>> \in OpToRel(<, Nat))
  BY <1>1, WFMin
<1>3. ASSUME NEW m \in S PROVE n <= m
  <2>1. m \in Nat /\ n \in Nat
    OBVIOUS
  <2>2. <<m, n>> \in Nat \X Nat /\ ~(<<m, n>> \in OpToRel(<, Nat))
    BY <1>2, <2>1
  <2>3. ~(m < n)
    BY <2>2 DEF OpToRel
  <2>. QED  BY <2>1, <2>3
<1>. QED  BY <1>3

\* Two functions that begin alike and go on alike are the same.
LEMMA SameRecursion ==
    ASSUME NEW n \in Nat, NEW f, NEW g, f[0] = g[0],
           \A i \in 1..n : f[i - 1] = g[i - 1] => f[i] = g[i]
    PROVE  \A i \in 0..n : f[i] = g[i]
<1>. DEFINE Differ == {i \in 0..n : f[i] # g[i]}
<1>. SUFFICES ASSUME Differ # {} PROVE FALSE
  OBVIOUS
<1>1. Differ \in SUBSET Nat /\ \A i \in Differ : i \in 0..n /\ f[i] # g[i]
  OBVIOUS
<1>2. \A i \in 0..n : i \notin Differ => f[i] = g[i]
  OBVIOUS
<1>. HIDE DEF Differ
<1>3. PICK i \in Differ : \A m \in Differ : i <= m
  BY <1>1, LeastNatural
<1>4. i \in 1..n
  BY <1>1
<1>5. i - 1 \notin Differ
  BY <1>3, <1>4
<1>. QED  BY <1>1, <1>2, <1>4, <1>5

IsText(t) == Len(t) \in Nat /\ t = [i \in 1..Len(t) |-> t[i]]

\* A text, as a sequence.
LEMMA TextIsSeq ==
    ASSUME NEW t, IsText(t), NEW S, \A i \in 1..Len(t) : t[i] \in S
    PROVE  t \in Seq(S)
<1>1. Len(t) \in Nat /\ t \in [1..Len(t) -> S]
  BY DEF IsText
<1>. QED  BY <1>1, SeqDef

\* Where two texts that run together to one are cut is certain if their lengths are.
LEMMA CutOnce ==
    ASSUME NEW S, NEW p \in Seq(S), NEW q \in Seq(S), NEW u \in Seq(S), NEW v \in Seq(S),
           Len(p) = Len(u), p \o q = u \o v
    PROVE  p = u /\ q = v
<1>. DEFINE m == Len(p)
            n == Len(q)
            k == Len(v)
            w == p \o q
<1>1. m \in Nat /\ n \in Nat /\ k \in Nat
  BY LenProperties
<1>2. /\ Len(w) = m + n
      /\ \A i \in 1..Len(w) : w[i] = IF i <= m THEN p[i] ELSE q[i - m]
  BY ConcatProperties
<1>3. /\ Len(w) = m + k
      /\ \A i \in 1..Len(w) : w[i] = IF i <= m THEN u[i] ELSE v[i - m]
  BY ConcatProperties
<1>. HIDE DEF w
<1>4. n = k
  <2>1. m + n = m + k
    BY <1>2, <1>3, Zenon
  <2>. HIDE DEF m, n, k
  <2>. QED  BY <1>1, <2>1
<1>5. \A i \in 1..m : p[i] = u[i]
  <2>1. ASSUME NEW i \in 1..m PROVE i \in 1..Len(w) /\ i <= m
    BY <1>1, <1>2, <2>1
  <2>. QED  BY <1>2, <1>3, <2>1
<1>6. \A i \in 1..n : q[i] = v[i]
  <2>1. ASSUME NEW i \in 1..n PROVE q[i] = v[i]
    <3>1. m + i \in 1..Len(w) /\ ~(m + i <= m) /\ (m + i) - m = i
      BY <1>1, <1>2, <2>1
    <3>. QED  BY <1>2, <1>3, <3>1
  <2>. QED  BY <2>1
<1>. QED  BY <1>4, <1>5, <1>6, SeqEqual

\* The texts up to the m-th one behind the other.
JoinedTo(f, texts, m) ==
    f = [i \in 0..m |-> IF i = 0 THEN <<>> ELSE f[i - 1] \o texts[i]]

LEMMA JoinedGoes ==
    ASSUME NEW texts, NEW m \in Nat
    PROVE  \E f : JoinedTo(f, texts, m)
<1>. DEFINE Stuck == {k \in Nat : ~ \E f : JoinedTo(f, texts, k)}
<1>. SUFFICES ASSUME Stuck # {} PROVE FALSE
  OBVIOUS
<1>1. \A k \in Nat : k \in Stuck <=> ~ \E f : JoinedTo(f, texts, k)
  OBVIOUS
<1>2. Stuck \in SUBSET Nat
  OBVIOUS
<1>. HIDE DEF Stuck
<1>3. PICK k \in Stuck : \A l \in Stuck : k <= l
  BY <1>2, LeastNatural
<1>4. k \in Nat /\ k # 0
  <2>. DEFINE f == [i \in 0..0 |-> <<>>]
  <2>1. \A i \in 0..0 : i = 0
    OBVIOUS
  <2>2. f = [i \in 0..0 |-> IF i = 0 THEN <<>> ELSE f[i - 1] \o texts[i]]
    BY <2>1
  <2>. HIDE DEF f
  <2>3. JoinedTo(f, texts, 0)
    BY <2>2 DEF JoinedTo
  <2>. QED  BY <1>1, <1>2, <1>3, <2>3
<1>5. k - 1 \in Nat /\ k - 1 \notin Stuck
  BY <1>3, <1>4
<1>6. PICK f : JoinedTo(f, texts, k - 1)
  BY <1>1, <1>5
<1>. DEFINE next == f[k - 1] \o texts[k]
            g == [i \in 0..k |-> IF i = k THEN next ELSE f[i]]
<1>7. /\ \A i : i \in 0..k <=> i = k \/ i \in 0..(k - 1)
      /\ k \notin 0..(k - 1) /\ k - 1 \in 0..(k - 1)
      /\ \A i \in 0..(k - 1) : i # 0 => i - 1 \in 0..(k - 1)
  BY <1>4
<1>8. /\ \A i \in 0..(k - 1) : g[i] = f[i]
      /\ g[k] = next
      /\ g = [i \in 0..k |-> g[i]]
  BY <1>7
<1>. HIDE DEF g
<1>9. \A i \in 0..(k - 1) : f[i] = IF i = 0 THEN <<>> ELSE f[i - 1] \o texts[i]
  BY <1>6 DEF JoinedTo
<1>10. ASSUME NEW i \in 0..k PROVE g[i] = IF i = 0 THEN <<>> ELSE g[i - 1] \o texts[i]
  <2>1. CASE i = k
    BY <1>4, <1>7, <1>8, <2>1
  <2>2. CASE i \in 0..(k - 1)
    <3>1. CASE i = 0
      BY <1>8, <1>9, <2>2, <3>1
    <3>2. CASE i # 0
      BY <1>7, <1>8, <1>9, <2>2, <3>2
    <3>. QED  BY <3>1, <3>2
  <2>. QED  BY <1>7, <2>1, <2>2
<1>11. JoinedTo(g, texts, k)
  BY <1>8, <1>10 DEF JoinedTo
<1>. QED  BY <1>1, <1>4, <1>11

\* Texts one behind the other are a text.
LEMMA JoinedIsText ==
    ASSUME NEW S, NEW texts \in Seq(Seq(S))
    PROVE  Draft!Joined(texts) \in Seq(S)
<1>. DEFINE n == Len(texts)
            f == CHOOSE f : JoinedTo(f, texts, n)
            Odd == {i \in 0..n : f[i] \notin Seq(S)}
<1>1. n \in Nat /\ \A i \in 1..n : texts[i] \in Seq(S)
  BY ElementOfSeq, LenProperties
<1>2. JoinedTo(f, texts, n)
  BY <1>1, JoinedGoes
<1>3. Draft!Joined(texts) = f[n]
  BY DEF Draft!Joined, JoinedTo
<1>. HIDE DEF f, n
<1>4. \A i \in 0..n : f[i] = IF i = 0 THEN <<>> ELSE f[i - 1] \o texts[i]
  BY <1>2 DEF JoinedTo
<1>5. /\ Odd \in SUBSET Nat
      /\ \A i \in 0..n : i \in Odd <=> f[i] \notin Seq(S)
      /\ \A i \in Odd : i \in 0..n
  OBVIOUS
<1>. HIDE DEF Odd
<1>6. Odd = {}
  <2>. SUFFICES ASSUME Odd # {} PROVE FALSE
    OBVIOUS
  <2>1. PICK i \in Odd : \A k \in Odd : i <= k
    BY <1>5, LeastNatural
  <2>2. i \in 0..n
    BY <1>5, <2>1
  <2>3. i # 0
    <3>1. 0 \in 0..n /\ <<>> \in Seq(S)
      BY <1>1
    <3>. QED  BY <1>4, <1>5, <2>1, <3>1
  <2>4. i \in 1..n /\ i - 1 \in 0..n /\ i - 1 \notin Odd
    BY <1>1, <2>1, <2>2, <2>3
  <2>5. f[i] = f[i - 1] \o texts[i]
    BY <1>4, <2>2, <2>3
  <2>6. f[i - 1] \in Seq(S) /\ texts[i] \in Seq(S)
    BY <1>1, <1>5, <2>4
  <2>7. f[i] \in Seq(S)
    BY <2>5, <2>6, ConcatProperties
  <2>. QED  BY <1>5, <2>1, <2>2, <2>7
<1>7. n \in 0..n
  BY <1>1
<1>. QED  BY <1>3, <1>5, <1>6, <1>7

-----------------------------------------------------------------------------
(* A message on its way *)

\* The text of an unsigned number.
Numerals == {t \in Seq(Pieces) : \A i \in 1..Len(t) : t[i] # "\n"}

IsMessage(m) ==
    /\ m = [type |-> m.type, sender |-> m.sender, payload |-> m.payload,
            timestamp |-> m.timestamp, signature |-> m.signature]
    /\ m.type \in Wire!Types
    /\ m.sender \in Seq(Pieces)
    /\ m.payload \in Seq(Pieces)
    /\ m.timestamp \in Numerals

\* As the factories leave it.
FromFactory(m) == m.type < 10 /\ m.payload \in Payloads

\* There is no other signature than one that somebody made.
Known(signature) ==
    \/ signature = Wire!NoSignature
    \/ \E s \in signings : signature = [text |-> Wire!Text(s), key |-> s.sender]

WireInv ==
    /\ message # Nothing =>
         IsMessage(message) /\ FromFactory(message) /\ Known(message.signature)
    /\ \A s \in signings : IsMessage(s) /\ FromFactory(s)
    /\ \A json \in wire : IsMessage(json) /\ Known(json.signature)
    /\ \A m \in received : IsMessage(m) /\ Known(m.signature)

\* Texts of one and of two pieces.
LEMMA OnePiece ==
    ASSUME NEW S, NEW c \in S
    PROVE  <<c>> \in Seq(S) /\ Len(<<c>>) = 1 /\ <<c>>[1] = c /\ <<c>> # <<>>
OBVIOUS

LEMMA TwoPieces ==
    ASSUME NEW S, NEW c \in S, NEW d \in S
    PROVE  <<c, d>> \in Seq(S) /\ Len(<<c, d>>) = 2 /\ <<c, d>>[2] = d /\ <<c, d>> # <<>>
OBVIOUS

LEMMA DigitIs ==
    ASSUME NEW i \in 1..10 PROVE Wire!Digits[i] \in Pieces
<1>1. \/ i = 1 \/ i = 2 \/ i = 3 \/ i = 4 \/ i = 5
      \/ i = 6 \/ i = 7 \/ i = 8 \/ i = 9 \/ i = 10
  OBVIOUS
<1>2. /\ "0" \in Pieces /\ "1" \in Pieces /\ "2" \in Pieces /\ "3" \in Pieces
      /\ "4" \in Pieces /\ "5" \in Pieces /\ "6" \in Pieces /\ "7" \in Pieces
      /\ "8" \in Pieces /\ "9" \in Pieces
  BY ProtocolAssumption
<1>. QED  BY <1>1, <1>2 DEF Wire!Digits

\* The numerals of the types.
LEMMA NumeralIs ==
    ASSUME NEW type \in Wire!Types
    PROVE  /\ Wire!Numeral(type) \in Seq(Pieces) /\ Wire!Numeral(type) # <<>>
           /\ type = 10 =>
                /\ Len(Wire!Numeral(type)) = 2 /\ Wire!Numeral(type)[2] = "0"
           /\ type < 10 => Wire!Numeral(type) = <<Wire!Digits[type + 1]>>
<1>1. CASE type = 10
  <2>1. "1" \in Pieces /\ "0" \in Pieces
    BY ProtocolAssumption
  <2>. DEFINE ten == <<"1", "0">>
  <2>2. Wire!Numeral(type) = ten
    BY <1>1 DEF Wire!Numeral
  <2>3. ten \in Seq(Pieces) /\ Len(ten) = 2 /\ ten[2] = "0" /\ ten # <<>>
    BY <2>1, TwoPieces
  <2>. HIDE DEF ten
  <2>. QED  BY <1>1, <2>2, <2>3
<1>2. CASE type # 10
  <2>1. type < 10 /\ type + 1 \in 1..10
    BY <1>2 DEF Wire!Types
  <2>. DEFINE d == Wire!Digits[type + 1]
  <2>2. d \in Pieces
    BY <2>1, DigitIs
  <2>3. Wire!Numeral(type) = <<d>>
    BY <2>1 DEF Wire!Numeral
  <2>. HIDE DEF d
  <2>4. <<d>> \in Seq(Pieces) /\ <<d>> # <<>>
    BY <2>2, OnePiece
  <2>. QED  BY <1>2, <2>3, <2>4 DEF d
<1>. QED  BY <1>1, <1>2

LEMMA DigitsDiffer ==
    ASSUME NEW s \in 0..9, NEW t \in 0..9, Wire!Digits[s + 1] = Wire!Digits[t + 1]
    PROVE  s = t
BY DEF Wire!Digits

\* The text that is signed, without the sender and the type.
Rest(m) == m.payload \o m.timestamp

LEMMA RestIsText ==
    ASSUME NEW m, IsMessage(m)
    PROVE  /\ Rest(m) \in Seq(Pieces)
           /\ FromFactory(m) => Len(Rest(m)) > 0 /\ Rest(m)[1] # "0"
<1>1. m.payload \in Seq(Pieces) /\ m.timestamp \in Seq(Pieces)
  BY DEF IsMessage, Numerals
<1>2. Rest(m) \in Seq(Pieces)
  BY <1>1, ConcatProperties DEF Rest
<1>3. ASSUME FromFactory(m) PROVE Len(Rest(m)) > 0 /\ Rest(m)[1] # "0"
  <2>. DEFINE k == Len(m.payload)
              n == Len(m.timestamp)
  <2>1. m.payload # <<>> /\ m.payload[1] # "0"
    BY <1>3, ProtocolAssumption DEF FromFactory
  <2>2. k \in Nat /\ k # 0 /\ n \in Nat
    BY <1>1, <2>1, LenProperties, EmptySeq
  <2>3. Len(Rest(m)) = k + n
        /\ \A i \in 1..(k + n) : Rest(m)[i] = IF i <= k THEN m.payload[i] ELSE m.timestamp[i - k]
    BY <1>1, ConcatProperties DEF Rest
  <2>. HIDE DEF k, n
  <2>4. k + n > 0 /\ 1 \in 1..(k + n) /\ 1 <= k
    BY <2>2
  <2>. QED  BY <2>1, <2>3, <2>4
<1>. QED  BY <1>2, <1>3

\* The elements of a text that is run together from two.
Together(S, a, b, t) ==
    /\ t \in Seq(S) /\ Len(t) = Len(a) + Len(b)
    /\ Len(a) \in Nat /\ Len(b) \in Nat
    /\ \A i \in 1..Len(a) : t[i] = a[i]
    /\ \A i \in 1..Len(b) : t[Len(a) + i] = b[i]

LEMMA RunTogether ==
    ASSUME NEW S, NEW a \in Seq(S), NEW b \in Seq(S)
    PROVE  Together(S, a, b, a \o b)
<1>. DEFINE m == Len(a)
            n == Len(b)
            t == a \o b
<1>1. m \in Nat /\ n \in Nat
  BY LenProperties
<1>2. /\ t \in Seq(S) /\ Len(t) = m + n
      /\ \A i \in 1..Len(t) : t[i] = IF i <= m THEN a[i] ELSE b[i - m]
  BY ConcatProperties
<1>. HIDE DEF t, m, n
<1>3. \A i \in 1..m : t[i] = a[i]
  <2>1. ASSUME NEW i \in 1..m PROVE i \in 1..Len(t) /\ i <= m
    BY <1>1, <1>2, <2>1
  <2>. QED  BY <1>2, <2>1
<1>4. ASSUME NEW i \in 1..n PROVE t[m + i] = b[i]
  <2>1. m + i \in 1..Len(t) /\ ~(m + i <= m) /\ (m + i) - m = i
    BY <1>1, <1>2
  <2>. QED  BY <1>2, <2>1
<1>. QED  BY <1>1, <1>2, <1>3, <1>4 DEF t, m, n, Together

\* What is signed of a message with a type of one digit is not what is signed of
\* one with the type ten and the same sender: the sender would be zeros to the end
\* and the payload would go on with one.
LEMMA TenDiffers ==
    ASSUME NEW ten \in Seq(Pieces), Len(ten) = 2, ten[2] = "0",
           NEW one \in Seq(Pieces), Len(one) = 1,
           NEW z \in Seq(Pieces), NEW a \in Seq(Pieces), NEW b \in Seq(Pieces),
           Len(b) > 0, b[1] # "0", (ten \o z) \o a = (one \o z) \o b
    PROVE  FALSE
<1>. DEFINE n == Len(z)
            p == ten \o z
            q == one \o z
            w == p \o a
<1>1. /\ p \in Seq(Pieces) /\ Len(p) = 2 + n /\ p[2] = "0" /\ n \in Nat
      /\ \A i \in 1..n : p[2 + i] = z[i]
  <2>1. 2 \in 1..Len(ten)
    OBVIOUS
  <2>2. Together(Pieces, ten, z, p)
    BY RunTogether
  <2>. HIDE DEF p
  <2>. QED  BY <2>1, <2>2 DEF Together
<1>2. /\ q \in Seq(Pieces) /\ Len(q) = 1 + n
      /\ \A i \in 1..n : q[1 + i] = z[i]
  <2>1. Together(Pieces, one, z, q)
    BY RunTogether
  <2>. HIDE DEF q
  <2>. QED  BY <2>1 DEF Together
<1>3. \A i \in 1..2 + n : w[i] = p[i]
  <2>1. Together(Pieces, p, a, w)
    BY <1>1, RunTogether
  <2>. HIDE DEF p, w, n
  <2>. QED  BY <1>1, <2>1 DEF Together
<1>4. /\ \A i \in 1..1 + n : w[i] = q[i]
      /\ w[(1 + n) + 1] = b[1]
  <2>1. 1 \in 1..Len(b)
    BY LenProperties
  <2>2. w = q \o b
    OBVIOUS
  <2>3. Together(Pieces, q, b, w)
    BY <1>2, <2>2, RunTogether
  <2>. HIDE DEF q, w, n
  <2>. QED  BY <1>2, <2>1, <2>3 DEF Together
<1>. HIDE DEF w, p, q, n
<1>5. \A i \in 1..n : w[i + 1] = z[i] /\ w[i + 2] = z[i]
  <2>1. ASSUME NEW i \in 1..n PROVE w[i + 1] = z[i] /\ w[i + 2] = z[i]
    <3>1. i + 1 \in 1..1 + n /\ i + 2 \in 1..2 + n /\ 1 + i = i + 1 /\ 2 + i = i + 2
      BY <1>1
    <3>. QED  BY <1>1, <1>2, <1>3, <1>4, <3>1
  <2>. QED  BY <2>1
<1>. DEFINE Other == {i \in 0..n : w[i + 2] # "0"}
<1>6. /\ Other \in SUBSET Nat
      /\ \A i \in 0..n : i \in Other <=> w[i + 2] # "0"
      /\ \A i \in Other : i \in 0..n
  OBVIOUS
<1>. HIDE DEF Other
<1>7. n \in Other
  <2>1. n \in 0..n /\ (1 + n) + 1 = n + 2
    BY <1>1
  <2>2. w[n + 2] # "0"
    BY <1>4, <2>1
  <2>. QED  BY <1>6, <2>1, <2>2
<1>8. PICK i \in Other : \A k \in Other : i <= k
  BY <1>6, <1>7, LeastNatural
<1>9. i \in 0..n /\ i # 0
  <2>1. 2 \in 1..2 + n /\ 0 + 2 = 2 /\ 0 \in 0..n
    BY <1>1
  <2>2. w[0 + 2] = "0"
    BY <1>1, <1>3, <2>1
  <2>. QED  BY <1>6, <1>8, <2>1, <2>2
<1>10. i \in 1..n /\ i - 1 \in 0..n /\ i - 1 \notin Other /\ (i - 1) + 2 = i + 1
  BY <1>1, <1>8, <1>9
<1>11. w[i + 1] = "0"
  BY <1>6, <1>10
<1>. QED  BY <1>5, <1>6, <1>8, <1>10, <1>11

\* The same text and the same sender give the same type.
LEMMA SameText ==
    ASSUME NEW m, IsMessage(m), NEW s, IsMessage(s), FromFactory(s),
           m.sender = s.sender, Wire!Text(m) = Wire!Text(s)
    PROVE  m.type = s.type /\ Rest(m) = Rest(s)
<1>. DEFINE x == s.sender
            a == Rest(m)
            b == Rest(s)
<1>1. /\ x \in Seq(Pieces) /\ a \in Seq(Pieces) /\ b \in Seq(Pieces)
      /\ Len(b) > 0 /\ b[1] # "0"
  BY RestIsText DEF IsMessage
<1>2. (Wire!Numeral(m.type) \o x) \o a = (Wire!Numeral(s.type) \o x) \o b
  BY DEF Wire!Text, Rest
<1>. HIDE DEF x, a, b
<1>3. m.type \in Wire!Types /\ s.type \in 0..9
  BY DEF IsMessage, FromFactory, Wire!Types
<1>. DEFINE d == Wire!Digits[s.type + 1]
<1>4. Wire!Numeral(s.type) = <<d>> /\ d \in Pieces
  <2>1. s.type \in Wire!Types /\ s.type < 10 /\ s.type + 1 \in 1..10
    BY <1>3 DEF Wire!Types
  <2>. QED  BY <2>1, DigitIs, NumeralIs
<1>. HIDE DEF d
<1>. DEFINE e == <<d>>
<1>5. e \in Seq(Pieces) /\ Len(e) = 1 /\ e[1] = d
  BY <1>4, OnePiece
<1>6. Wire!Numeral(s.type) = e
  BY <1>4
<1>. HIDE DEF e
<1>7. m.type # 10
  <2>. SUFFICES ASSUME m.type = 10 PROVE FALSE
    OBVIOUS
  <2>. DEFINE ten == Wire!Numeral(m.type)
  <2>1. ten \in Seq(Pieces) /\ Len(ten) = 2 /\ ten[2] = "0"
    BY <1>3, NumeralIs
  <2>2. (ten \o x) \o a = (e \o x) \o b
    BY <1>2, <1>6
  <2>. HIDE DEF ten
  <2>. QED  BY <1>1, <1>5, <2>1, <2>2, TenDiffers
<1>8. m.type \in 0..9 /\ m.type < 10
  BY <1>3, <1>7 DEF Wire!Types
<1>. DEFINE c == Wire!Digits[m.type + 1]
<1>9. Wire!Numeral(m.type) = <<c>> /\ c \in Pieces
  <2>1. m.type + 1 \in 1..10
    BY <1>8
  <2>. QED  BY <1>3, <1>8, <2>1, DigitIs, NumeralIs
<1>. HIDE DEF c
<1>. DEFINE f == <<c>>
<1>10. f \in Seq(Pieces) /\ Len(f) = 1 /\ f[1] = c
  BY <1>9, OnePiece
<1>11. Wire!Numeral(m.type) = f
  BY <1>9
<1>. HIDE DEF f
<1>. DEFINE p == f \o x
            q == e \o x
<1>12. /\ p \in Seq(Pieces) /\ q \in Seq(Pieces) /\ Len(p) = Len(q)
      /\ p[1] = c /\ q[1] = d
  <2>1. Together(Pieces, f, x, p) /\ Together(Pieces, e, x, q)
    BY <1>1, <1>5, <1>10, RunTogether
  <2>. HIDE DEF p, q
  <2>2. 1 \in 1..Len(f) /\ 1 \in 1..Len(e)
    BY <1>5, <1>10
  <2>. QED  BY <1>5, <1>10, <2>1, <2>2 DEF Together
<1>13. p \o a = q \o b
  BY <1>2, <1>6, <1>11
<1>. HIDE DEF p, q
<1>14. p = q /\ a = b
  BY <1>1, <1>12, <1>13, CutOnce
<1>15. c = d
  BY <1>12, <1>14
<1>16. m.type = s.type
  BY <1>3, <1>8, <1>15, DigitsDiffer DEF c, d
<1>. QED  BY <1>14, <1>16 DEF a, b

\* A line and a numeral that run together to the same text as another line and
\* another numeral: the line is no longer than the other line.
LEMMA LineEnds ==
    ASSUME NEW p \in Seq(Pieces), NEW u \in Numerals, NEW q \in Seq(Pieces), NEW v \in Numerals,
           q # <<>>, q[Len(q)] = "\n", p \o u = q \o v
    PROVE  ~(Len(p) < Len(q))
<1>. DEFINE m == Len(p)
            n == Len(q)
            k == Len(u)
            l == Len(v)
            w == p \o u
<1>1. u \in Seq(Pieces) /\ v \in Seq(Pieces) /\ \A i \in 1..k : u[i] # "\n"
  BY DEF Numerals
<1>2. /\ Len(w) = m + k /\ m \in Nat /\ k \in Nat
      /\ \A i \in 1..k : w[m + i] = u[i]
  <2>1. Together(Pieces, p, u, w)
    BY <1>1, RunTogether
  <2>. HIDE DEF w
  <2>. QED  BY <2>1 DEF Together
<1>3. /\ Len(w) = n + l /\ n \in Nat /\ l \in Nat
      /\ \A i \in 1..n : w[i] = q[i]
  <2>1. w = q \o v
    OBVIOUS
  <2>2. Together(Pieces, q, v, w)
    BY <1>1, <2>1, RunTogether
  <2>. HIDE DEF w
  <2>. QED  BY <2>2 DEF Together
<1>4. q[n] = "\n"
  OBVIOUS
<1>. HIDE DEF m, n, k, l, w
<1>. SUFFICES ASSUME m < n PROVE FALSE
  BY DEF m, n
<1>5. m + k = n + l
  BY <1>2, <1>3, Zenon
<1>6. n - m \in 1..k /\ m + (n - m) = n /\ n \in 1..n
  BY <1>2, <1>3, <1>5
<1>. QED  BY <1>1, <1>2, <1>3, <1>4, <1>6

\* Where the payload ends, if it ends like what the factories write.
LEMMA SameLine ==
    ASSUME NEW m, IsMessage(m), NEW s, IsMessage(s), FromFactory(s), Rest(m) = Rest(s),
           Wire!EndsLine(m.payload)
    PROVE  m.payload = s.payload /\ m.timestamp = s.timestamp
<1>. DEFINE p == m.payload
            q == s.payload
            u == m.timestamp
            v == s.timestamp
<1>1. /\ p \in Seq(Pieces) /\ p # <<>> /\ p[Len(p)] = "\n" /\ u \in Numerals
  BY DEF Wire!EndsLine, IsMessage
<1>2. q \in Seq(Pieces) /\ q # <<>> /\ q[Len(q)] = "\n" /\ v \in Numerals
  BY ProtocolAssumption DEF IsMessage, FromFactory
<1>3. p \o u = q \o v
  BY DEF Rest
<1>. HIDE DEF p, q, u, v
<1>4. ~(Len(p) < Len(q)) /\ ~(Len(q) < Len(p))
  BY <1>1, <1>2, <1>3, LineEnds
<1>5. Len(p) \in Nat /\ Len(q) \in Nat
  BY <1>1, <1>2, LenProperties
<1>6. Len(p) = Len(q)
  <2>. DEFINE k == Len(p)
              l == Len(q)
  <2>. HIDE DEF k, l
  <2>1. k \in Nat /\ l \in Nat /\ ~(k < l) /\ ~(l < k)
    BY <1>4, <1>5 DEF k, l
  <2>2. k = l
    BY <2>1
  <2>. QED  BY <2>2 DEF k, l
<1>7. u \in Seq(Pieces) /\ v \in Seq(Pieces)
  BY <1>1, <1>2 DEF Numerals
<1>. QED  BY <1>1, <1>2, <1>3, <1>6, <1>7, CutOnce DEF p, q, u, v

\* A member is gone.
LacksOne(m, text) == \E gone : text = [name \in DOMAIN m \ {gone} |-> m[name]]

\* What is read is a message again, with a signature that was there or none.
LEMMA ReadsMessages ==
    ASSUME NEW m, IsMessage(m), Known(m.signature), NEW text,
           text = m \/ LacksOne(m, text),
           NEW new \in Wire!deserialize(text)
    PROVE  IsMessage(new) /\ Known(new.signature)
<1>. DEFINE Member(name, default) ==
              IF name \in DOMAIN text THEN text[name] ELSE default
<1>1. new = [type      |-> Member("type", 0),
             sender    |-> Member("sender", <<>>),
             payload   |-> Member("payload", <<>>),
             timestamp |-> Member("timestamp", <<"0">>),
             signature |-> Member("signature", Wire!NoSignature)]
  BY DEF Wire!deserialize
<1>2. \A name \in DOMAIN text : text[name] = m[name]
  BY DEF LacksOne
<1>3. /\ Member("type", 0) \in {m.type, 0}
      /\ Member("sender", <<>>) \in {m.sender, <<>>}
      /\ Member("payload", <<>>) \in {m.payload, <<>>}
      /\ Member("timestamp", <<"0">>) \in {m.timestamp, <<"0">>}
      /\ Member("signature", Wire!NoSignature) \in {m.signature, Wire!NoSignature}
  BY <1>2
<1>. HIDE DEF Member
<1>4. /\ new.type \in {m.type, 0}
      /\ new.sender \in {m.sender, <<>>}
      /\ new.payload \in {m.payload, <<>>}
      /\ new.timestamp \in {m.timestamp, <<"0">>}
      /\ new.signature \in {m.signature, Wire!NoSignature}
      /\ new = [type |-> new.type, sender |-> new.sender, payload |-> new.payload,
                timestamp |-> new.timestamp, signature |-> new.signature]
  BY <1>1, <1>3
<1>5. 0 \in Wire!Types /\ <<>> \in Seq(Pieces)
  BY DEF Wire!Types
<1>6. <<"0">> \in Numerals
  <2>. DEFINE zero == <<"0">>
  <2>1. "0" \in Pieces /\ "0" # "\n"
    BY ProtocolAssumption
  <2>2. zero \in Seq(Pieces) /\ Len(zero) = 1 /\ zero[1] = "0"
    BY <2>1, OnePiece
  <2>. HIDE DEF zero
  <2>3. ASSUME NEW i \in 1..Len(zero) PROVE zero[i] # "\n"
    BY <2>1, <2>2
  <2>4. zero \in Numerals
    BY <2>2, <2>3, Zenon DEF Numerals
  <2>. QED  BY <2>4 DEF zero
<1>7. IsMessage(new)
  BY <1>4, <1>5, <1>6 DEF IsMessage
<1>8. Known(new.signature)
  BY <1>4 DEF Known
<1>. QED  BY <1>7, <1>8

\* A member is exchanged.
LEMMA ChangedIsMessage ==
    ASSUME NEW m, IsMessage(m), Known(m.signature), NEW text \in Wire!Changed(m)
    PROVE  \/ IsMessage(text) /\ Known(text.signature)
           \/ LacksOne(m, text)
<1>1. m = [type |-> m.type, sender |-> m.sender, payload |-> m.payload,
           timestamp |-> m.timestamp, signature |-> m.signature]
  BY DEF IsMessage
<1>2. ASSUME NEW type \in Wire!Types, text = [m EXCEPT !.type = type]
      PROVE  IsMessage(text) /\ Known(text.signature)
  <2>1. text = [type |-> type, sender |-> m.sender, payload |-> m.payload,
                timestamp |-> m.timestamp, signature |-> m.signature]
    BY <1>1, <1>2
  <2>. QED  BY <2>1 DEF IsMessage
<1>3. ASSUME NEW sender \in Senders, text = [m EXCEPT !.sender = sender]
      PROVE  IsMessage(text) /\ Known(text.signature)
  <2>1. text = [type |-> m.type, sender |-> sender, payload |-> m.payload,
                timestamp |-> m.timestamp, signature |-> m.signature]
    BY <1>1, <1>3
  <2>2. sender \in Seq(Pieces)
    BY ProtocolAssumption
  <2>. QED  BY <2>1, <2>2 DEF IsMessage
<1>4. ASSUME NEW payload \in Payloads \cup Strays, NEW timestamp \in Times,
             text = [m EXCEPT !.payload = payload, !.timestamp = timestamp]
      PROVE  IsMessage(text) /\ Known(text.signature)
  <2>1. text = [type |-> m.type, sender |-> m.sender, payload |-> payload,
                timestamp |-> timestamp, signature |-> m.signature]
    BY <1>1, <1>4
  <2>2. payload \in Seq(Pieces) /\ timestamp \in Numerals
    BY ProtocolAssumption DEF Numerals
  <2>. QED  BY <2>1, <2>2 DEF IsMessage
<1>. DEFINE Typed == {[m EXCEPT !.type = type] : type \in Wire!Types}
            Sent == {[m EXCEPT !.sender = sender] : sender \in Senders}
            Filled == {[m EXCEPT !.payload = rest[1], !.timestamp = rest[2]] :
                        rest \in (Payloads \cup Strays) \X Times}
            Short == {[name \in DOMAIN m \ {gone} |-> m[name]] : gone \in DOMAIN m}
<1>5. text \in Typed \cup Sent \cup Filled \cup Short
  BY DEF Wire!Changed
<1>6. CASE text \in Typed
  BY <1>2, <1>6
<1>7. CASE text \in Sent
  BY <1>3, <1>7
<1>8. CASE text \in Filled
  <2>1. PICK rest \in (Payloads \cup Strays) \X Times :
          text = [m EXCEPT !.payload = rest[1], !.timestamp = rest[2]]
    BY <1>8
  <2>2. rest[1] \in Payloads \cup Strays /\ rest[2] \in Times
    OBVIOUS
  <2>. QED  BY <1>4, <2>1, <2>2
<1>9. CASE text \in Short
  BY <1>9 DEF LacksOne
<1>. HIDE DEF Typed, Sent, Filled, Short
<1>. QED  BY <1>5, <1>6, <1>7, <1>8, <1>9

\* A factory makes an unsigned message.
LEMMA WireMake ==
    ASSUME WireInv, NEW type \in {"HANDSHAKE", "BLOCK_REQUEST", "TRANSACTION_BROADCAST"},
           NEW sender \in Seq(Pieces), Wire!Make(type, sender)
    PROVE  WireInv'
<1>1. PICK payload \in Payloads, timestamp \in Times :
        /\ message' = Wire!Message(Wire!TypeNumber[type], sender, payload, timestamp)
        /\ UNCHANGED <<wire, received, signings>>
  BY DEF Wire!Make
<1>. DEFINE number == Wire!TypeNumber[type]
            m == Wire!Message(number, sender, payload, timestamp)
<1>2. number \in Wire!Types /\ number < 10
  BY DEF Wire!TypeNumber, Wire!Types
<1>. HIDE DEF number
<1>3. m = [type |-> number, sender |-> sender, payload |-> payload,
           timestamp |-> timestamp, signature |-> Wire!NoSignature]
  BY DEF Wire!Message
<1>4. payload \in Seq(Pieces) /\ timestamp \in Numerals
  BY ProtocolAssumption DEF Numerals
<1>. HIDE DEF m
<1>5. IsMessage(m) /\ FromFactory(m) /\ m.signature = Wire!NoSignature
  BY <1>2, <1>3, <1>4 DEF IsMessage, FromFactory
<1>6. message' = m
  BY <1>1 DEF m, number
<1>. QED  BY <1>1, <1>5, <1>6 DEF WireInv, Known

LEMMA WireNext ==
    ASSUME WireInv, [Next]_vars PROVE WireInv'
<1>1. ASSUME NEW nodeId \in Senders, Wire!createHandshake(nodeId) PROVE WireInv'
  <2>1. nodeId \in Seq(Pieces)
    BY ProtocolAssumption
  <2>. QED  BY <1>1, <2>1, WireMake DEF Wire!createHandshake
<1>2. CASE Wire!createBlockRequest
  <2>1. <<>> \in Seq(Pieces)
    OBVIOUS
  <2>. QED  BY <1>2, <2>1, WireMake DEF Wire!createBlockRequest
<1>3. CASE Wire!createTransactionBroadcast
  <2>1. <<>> \in Seq(Pieces)
    OBVIOUS
  <2>. QED  BY <1>3, <2>1, WireMake DEF Wire!createTransactionBroadcast
<1>4. ASSUME NEW nodeId \in Senders, Wire!Sign(nodeId) PROVE WireInv'
  <2>1. PICK new :
          LET m == [message EXCEPT !.sender = nodeId]
          IN  /\ new = [m EXCEPT !.signature = [text |-> Wire!Text(m), key |-> nodeId]]
              /\ message # Nothing /\ message' = new /\ signings' = signings \cup {new}
              /\ UNCHANGED <<wire, received>>
    BY <1>4 DEF Wire!Sign
  <2>. DEFINE m == [message EXCEPT !.sender = nodeId]
              digest == Wire!Text(m)
  <2>2. IsMessage(message) /\ FromFactory(message)
    BY <2>1 DEF WireInv
  <2>3. m = [type |-> message.type, sender |-> nodeId, payload |-> message.payload,
             timestamp |-> message.timestamp, signature |-> message.signature]
    BY <2>2 DEF IsMessage
  <2>4. digest = (Wire!Numeral(message.type) \o nodeId) \o (message.payload \o message.timestamp)
    BY <2>3 DEF Wire!Text
  <2>5. new = [m EXCEPT !.signature = [text |-> digest, key |-> nodeId]]
    BY <2>1
  <2>. HIDE DEF digest, m
  <2>6. new = [type |-> message.type, sender |-> nodeId, payload |-> message.payload,
               timestamp |-> message.timestamp, signature |-> [text |-> digest, key |-> nodeId]]
    BY <2>3, <2>5
  <2>7. Wire!Text(new) = digest
    BY <2>4, <2>6 DEF Wire!Text
  <2>8. nodeId \in Seq(Pieces)
    BY ProtocolAssumption
  <2>9. /\ IsMessage(new) /\ FromFactory(new)
        /\ new.signature = [text |-> Wire!Text(new), key |-> new.sender]
    BY <2>2, <2>6, <2>7, <2>8 DEF IsMessage, FromFactory
  <2>10. /\ message' = new /\ signings' = signings \cup {new}
         /\ wire' = wire /\ received' = received
    BY <2>1
  <2>11. \A signature : Known(signature) => Known(signature)'
    BY <2>10 DEF Known
  <2>12. Known(new.signature)'
    BY <2>9, <2>10 DEF Known
  <2>13. \A s \in signings' : IsMessage(s) /\ FromFactory(s)
    BY <2>9, <2>10 DEF WireInv
  <2>. QED  BY <2>9, <2>10, <2>11, <2>12, <2>13 DEF WireInv
<1>5. CASE Wire!Send
  <2>1. PICK json \in Wire!serialize(message) :
          /\ message # Nothing /\ wire' = wire \cup {json}
          /\ UNCHANGED <<message, received, signings>>
    BY <1>5 DEF Wire!Send
  <2>2. IsMessage(message) /\ Known(message.signature)
    BY <2>1 DEF WireInv
  <2>3. IsMessage(json) /\ Known(json.signature)
    <3>1. CASE json = message
      BY <2>2, <3>1
    <3>2. CASE json = [message EXCEPT !.signature = Wire!NoSignature]
      <4>. DEFINE none == Wire!NoSignature
      <4>. HIDE DEF none
      <4>1. json = [type |-> message.type, sender |-> message.sender,
                    payload |-> message.payload, timestamp |-> message.timestamp,
                    signature |-> none]
        BY <2>2, <3>2 DEF IsMessage, none
      <4>2. IsMessage(json) /\ json.signature = none
        BY <2>2, <4>1 DEF IsMessage
      <4>. QED  BY <4>2 DEF Known, none
    <3>. QED  BY <2>1, <3>1, <3>2 DEF Wire!serialize
  <2>. QED  BY <2>1, <2>3 DEF WireInv, Known
<1>6. CASE Wire!Receive
  <2>1. PICK json \in wire : \E text \in Wire!Changed(json) \cup {json, Nothing} :
          received' = Wire!deserialize(text) /\ UNCHANGED <<message, wire, signings>>
    BY <1>6 DEF Wire!Receive
  <2>2. PICK text \in Wire!Changed(json) \cup {json, Nothing} :
          received' = Wire!deserialize(text) /\ UNCHANGED <<message, wire, signings>>
    BY <2>1
  <2>3. IsMessage(json) /\ Known(json.signature)
    BY <2>1 DEF WireInv
  <2>4. ASSUME NEW m \in Wire!deserialize(text) PROVE IsMessage(m) /\ Known(m.signature)
    <3>1. CASE text = Nothing
      BY <3>1, <2>4 DEF Wire!deserialize
    <3>2. CASE text = json
      BY <2>3, <2>4, <3>2, ReadsMessages
    <3>3. CASE text \in Wire!Changed(json)
      <4>1. CASE IsMessage(text) /\ Known(text.signature)
        BY <2>4, <4>1, ReadsMessages
      <4>2. CASE LacksOne(json, text)
        BY <2>3, <2>4, <4>2, ReadsMessages
      <4>3. \/ IsMessage(text) /\ Known(text.signature)
            \/ LacksOne(json, text)
        BY <2>3, <3>3, ChangedIsMessage
      <4>. QED  BY <4>1, <4>2, <4>3
    <3>. QED  BY <2>2, <3>1, <3>2, <3>3
  <2>. QED  BY <2>2, <2>4 DEF WireInv, Known
<1>7. CASE UNCHANGED protocolVars
  BY <1>7 DEF protocolVars, WireInv, Known
<1>. QED
  BY <1>1, <1>2, <1>3, <1>4, <1>5, <1>6, <1>7 DEF Next, vars, Wire!Next

LEMMA WireInit == Wire!Init => WireInv
BY DEF Wire!Init, WireInv

LEMMA WireReads == WireInv => VerifiedAsSigned
<1>. SUFFICES ASSUME WireInv, NEW m \in received, Wire!verify(m)
              PROVE  \E s \in signings :
                        /\ m.sender = s.sender /\ m.type = s.type
                        /\ m.payload \o m.timestamp = s.payload \o s.timestamp
                        /\ Wire!EndsLine(m.payload) =>
                             m.payload = s.payload /\ m.timestamp = s.timestamp
  BY DEF VerifiedAsSigned, Wire!VerifiedAsSigned
<1>1. IsMessage(m) /\ Known(m.signature)
  BY DEF WireInv
<1>. DEFINE text == Wire!Text(m)
<1>2. m.signature = [text |-> text, key |-> m.sender]
  BY DEF Wire!verify
<1>3. text # <<>>
  <2>. DEFINE p == Wire!Numeral(m.type)
              q == p \o m.sender
              a == Rest(m)
  <2>1. p \in Seq(Pieces) /\ p # <<>>
    BY <1>1, NumeralIs DEF IsMessage
  <2>2. Len(p) \in Nat /\ Len(p) # 0
    BY <2>1, LenProperties, EmptySeq
  <2>3. q \in Seq(Pieces) /\ Len(q) = Len(p) + Len(m.sender) /\ Len(m.sender) \in Nat
    <3>1. m.sender \in Seq(Pieces)
      BY <1>1 DEF IsMessage
    <3>2. Together(Pieces, p, m.sender, q)
      BY <2>1, <3>1, RunTogether
    <3>. QED  BY <3>2 DEF Together
  <2>4. Len(q \o a) = Len(q) + Len(a) /\ Len(a) \in Nat
    <3>1. a \in Seq(Pieces)
      BY <1>1, RestIsText
    <3>. HIDE DEF a, q
    <3>2. Together(Pieces, q, a, q \o a)
      BY <2>3, <3>1, RunTogether
    <3>. QED  BY <3>2 DEF Together
  <2>5. text = q \o a
    BY DEF Wire!Text, Rest
  <2>. HIDE DEF p, q, a, text
  <2>6. Len(text) # 0
    BY <2>2, <2>3, <2>4, <2>5
  <2>7. Len(<<>>) = 0
    OBVIOUS
  <2>. QED  BY <2>6, <2>7, Zenon
<1>. HIDE DEF text
<1>4. m.signature # Wire!NoSignature
  <2>1. m.signature.text = text /\ Wire!NoSignature.text = <<>>
    BY <1>2 DEF Wire!NoSignature
  <2>. QED  BY <1>3, <2>1
<1>5. PICK s \in signings : m.signature = [text |-> Wire!Text(s), key |-> s.sender]
  BY <1>1, <1>4 DEF Known
<1>6. m.sender = s.sender /\ text = Wire!Text(s)
  <2>. DEFINE text2 == Wire!Text(s)
  <2>. HIDE DEF text2
  <2>1. m.signature = [text |-> text2, key |-> s.sender]
    BY <1>5 DEF text2
  <2>2. text = text2 /\ m.sender = s.sender
    BY <1>2, <2>1
  <2>. QED  BY <2>2 DEF text2
<1>7. IsMessage(s) /\ FromFactory(s)
  BY DEF WireInv
<1>8. m.type = s.type /\ Rest(m) = Rest(s)
  BY <1>1, <1>6, <1>7, SameText DEF text
<1>9. Wire!EndsLine(m.payload) => m.payload = s.payload /\ m.timestamp = s.timestamp
  BY <1>1, <1>7, <1>8, SameLine
<1>. QED  BY <1>6, <1>8, <1>9 DEF Rest

-----------------------------------------------------------------------------
(* A draft and its signatures *)

\* The empty text is no record: no signature, and no transaction.
NothingIsNoRecord == Nothing # [x \in DOMAIN Nothing |-> Nothing[x]]

IsLetter(letter) ==
    letter # Nothing => letter.encrypted \in Seq(Pieces) /\ letter.recipient \in Pieces

IsCall(call) ==
    call \in [address : Seq(Pieces), method : Seq(Pieces), parameters : Seq(Seq(Pieces))]

Outputs == [recipient : Keys, amount : Amounts]

IsTransaction(tx) ==
    /\ tx = [timestamp |-> tx.timestamp, inputs |-> tx.inputs, outputs |-> tx.outputs,
             status |-> tx.status, message |-> tx.message, contract |-> tx.contract,
             hash |-> tx.hash]
    /\ tx.timestamp \in Pieces
    /\ \E S : tx.inputs \in Seq(S)
    /\ \A i \in 1..Len(tx.inputs) : tx.inputs[i].coin \in Coins
    /\ tx.outputs \in Seq(Outputs)
    /\ tx.status = "PENDING"
    /\ IsLetter(tx.message)
    /\ IsCall(tx.contract)

\* A transaction that was built on: its inputs are the ones it had, and unsigned ones.
BuiltOn(tx, new) ==
    /\ IsTransaction(new)
    /\ Len(tx.inputs) <= Len(new.inputs)
    /\ \A i \in 1..Len(tx.inputs) : new.inputs[i] = tx.inputs[i]
    /\ \A i \in Len(tx.inputs) + 1..Len(new.inputs) : new.inputs[i].signature = Nothing

\* Its inputs carry signatures of what it is.
SignedAsIs(tx) ==
    \A i \in 1..Len(tx.inputs) : \E k :
       tx.inputs[i].signature = [digest |-> Draft!calculateHash(tx), key |-> k]

\* Before the first signature no input is signed, and after one the draft is what
\* was signed or was built on that.
DraftInv ==
    /\ IsTransaction(draft)
    /\ signed = Nothing =>
         \A i \in 1..Len(draft.inputs) : draft.inputs[i].signature = Nothing
    /\ signed # Nothing =>
         IsTransaction(signed) /\ SignedAsIs(signed) /\ BuiltOn(signed, draft)

\* The members of a transaction.
LEMMA Members ==
    ASSUME NEW timestamp, NEW inputs, NEW outputs, NEW status, NEW msg, NEW contract, NEW hash,
           NEW tx, tx = [timestamp |-> timestamp, inputs |-> inputs, outputs |-> outputs,
                         status |-> status, message |-> msg, contract |-> contract,
                         hash |-> hash]
    PROVE  /\ tx.timestamp = timestamp /\ tx.inputs = inputs /\ tx.outputs = outputs
           /\ tx.status = status /\ tx.message = msg /\ tx.contract = contract
           /\ tx.hash = hash
OBVIOUS

LEMMA InputsKept ==
    ASSUME NEW tx, IsTransaction(tx), NEW new, IsTransaction(new), new.inputs = tx.inputs
    PROVE  BuiltOn(tx, new)
<1>. DEFINE n == Len(tx.inputs)
<1>1. n \in Nat
  BY LenProperties DEF IsTransaction
<1>. HIDE DEF n
<1>2. n <= n /\ n + 1..n = {}
  BY <1>1
<1>. QED  BY <1>2 DEF BuiltOn, n

LEMMA AddOutputBuilds ==
    ASSUME NEW tx, IsTransaction(tx), NEW to \in Keys, NEW amount \in Amounts
    PROVE  BuiltOn(tx, Draft!addOutput(tx, to, amount))
<1>. DEFINE outputs == Append(tx.outputs, [recipient |-> to, amount |-> amount])
            new == Draft!addOutput(tx, to, amount)
<1>1. new = [tx EXCEPT !.outputs = outputs]
  BY DEF Draft!addOutput
<1>4. outputs \in Seq(Outputs)
  BY AppendProperties DEF IsTransaction, Outputs
<1>. HIDE DEF new, outputs
<1>2. new = [timestamp |-> tx.timestamp, inputs |-> tx.inputs, outputs |-> outputs,
             status |-> tx.status, message |-> tx.message, contract |-> tx.contract,
             hash |-> tx.hash]
  BY <1>1 DEF IsTransaction
<1>3. IsTransaction(new) /\ new.inputs = tx.inputs
  BY <1>2, <1>4, Members DEF IsTransaction
<1>. QED  BY <1>3, InputsKept DEF new

LEMMA SetMessageBuilds ==
    ASSUME NEW tx, IsTransaction(tx), NEW text \in Texts, NEW to \in Keys, NEW vector \in Vectors
    PROVE  BuiltOn(tx, Draft!setMessage(tx, text, to, vector))
<1>. DEFINE msg == [encrypted |-> Draft!encrypt(text, vector), recipient |-> to]
            new == Draft!setMessage(tx, text, to, vector)
<1>1. new = [tx EXCEPT !.message = msg]
  BY DEF Draft!setMessage
<1>4. IsLetter(msg)
  <2>1. text \in Pieces /\ vector \in Pieces /\ to \in Pieces
    BY TextAssumption
  <2>2. <<text, vector>> \in Seq(Pieces)
    BY <2>1
  <2>. QED  BY <2>1, <2>2 DEF IsLetter, Draft!encrypt
<1>. HIDE DEF new, msg
<1>2. new = [timestamp |-> tx.timestamp, inputs |-> tx.inputs, outputs |-> tx.outputs,
             status |-> tx.status, message |-> msg, contract |-> tx.contract,
             hash |-> tx.hash]
  BY <1>1 DEF IsTransaction
<1>3. IsTransaction(new) /\ new.inputs = tx.inputs
  BY <1>2, <1>4, Members DEF IsTransaction
<1>. QED  BY <1>3, InputsKept DEF new

LEMMA SetContractCallBuilds ==
    ASSUME NEW tx, IsTransaction(tx), NEW c \in Calls
    PROVE  BuiltOn(tx, Draft!setContractCall(tx, c))
<1>. DEFINE called == [tx EXCEPT !.contract = c]
            digest == Draft!calculateHash(called)
            new == Draft!setContractCall(tx, c)
<1>1. new = [called EXCEPT !.hash = digest]
  BY DEF Draft!setContractCall, Draft!Rehashed
<1>2. called = [timestamp |-> tx.timestamp, inputs |-> tx.inputs, outputs |-> tx.outputs,
                status |-> tx.status, message |-> tx.message, contract |-> c,
                hash |-> tx.hash]
  BY DEF IsTransaction
<1>. HIDE DEF new, digest, called
<1>3. new = [timestamp |-> tx.timestamp, inputs |-> tx.inputs, outputs |-> tx.outputs,
             status |-> tx.status, message |-> tx.message, contract |-> c,
             hash |-> digest]
  BY <1>1, <1>2
<1>4. IsCall(c)
  BY TextAssumption DEF IsCall
<1>5. IsTransaction(new) /\ new.inputs = tx.inputs
  BY <1>3, <1>4, Members DEF IsTransaction
<1>. QED  BY <1>5, InputsKept DEF new

\* What Append does to any sequence.
LEMMA AppendAny ==
    ASSUME NEW S, NEW seq \in Seq(S), NEW e
    PROVE  /\ Append(seq, e) \in Seq(S \cup {e})
           /\ Len(Append(seq, e)) = Len(seq) + 1
           /\ \A i \in 1..Len(seq) : Append(seq, e)[i] = seq[i]
           /\ Append(seq, e)[Len(seq) + 1] = e
<1>1. seq \in Seq(S \cup {e}) /\ e \in S \cup {e}
  OBVIOUS
<1>. QED  BY <1>1, AppendProperties

LEMMA AddInputBuilds ==
    ASSUME NEW tx, IsTransaction(tx), NEW coin \in Coins
    PROVE  BuiltOn(tx, Draft!addInput(tx, coin))
<1>. DEFINE inputs == Append(tx.inputs, Draft!Unsigned(coin))
            new == Draft!addInput(tx, coin)
            n == Len(tx.inputs)
<1>1. new = [tx EXCEPT !.inputs = inputs]
  BY DEF Draft!addInput
<1>2. PICK S : tx.inputs \in Seq(S)
  BY DEF IsTransaction
<1>3. /\ n \in Nat /\ Len(inputs) = n + 1 /\ inputs \in Seq(S \cup {Draft!Unsigned(coin)})
      /\ \A i \in 1..n : inputs[i] = tx.inputs[i]
      /\ inputs[n + 1] = Draft!Unsigned(coin)
  BY <1>2, AppendAny, LenProperties
<1>4. inputs[n + 1].signature = Nothing /\ inputs[n + 1].coin = coin
  BY <1>3 DEF Draft!Unsigned
<1>8. \A i \in 1..n : tx.inputs[i].coin \in Coins
  BY DEF IsTransaction
<1>. HIDE DEF new, inputs, n
<1>5. new = [timestamp |-> tx.timestamp, inputs |-> inputs, outputs |-> tx.outputs,
             status |-> tx.status, message |-> tx.message, contract |-> tx.contract,
             hash |-> tx.hash]
  BY <1>1 DEF IsTransaction
<1>9. \A i \in 1..Len(inputs) : inputs[i].coin \in Coins
  <2>1. \A i \in 1..n + 1 : i \in 1..n \/ i = n + 1
    BY <1>3
  <2>. QED  BY <1>3, <1>4, <1>8, <2>1
<1>6. IsTransaction(new) /\ new.inputs = inputs
  BY <1>3, <1>5, <1>9, Members DEF IsTransaction
<1>7. n <= n + 1 /\ \A i \in n + 1..n + 1 : i = n + 1
  BY <1>3
<1>. QED  BY <1>3, <1>4, <1>6, <1>7 DEF BuiltOn, new, n

LEMMA BuiltOnTransitive ==
    ASSUME NEW old, IsTransaction(old), NEW tx, BuiltOn(old, tx), IsTransaction(tx),
           NEW new, BuiltOn(tx, new)
    PROVE  BuiltOn(old, new)
<1>. DEFINE m == Len(old.inputs)
            n == Len(tx.inputs)
            k == Len(new.inputs)
<1>1. m \in Nat /\ n \in Nat /\ k \in Nat
  BY LenProperties DEF IsTransaction, BuiltOn
<1>2. /\ m <= n /\ n <= k
      /\ \A i \in 1..m : tx.inputs[i] = old.inputs[i]
      /\ \A i \in m + 1..n : tx.inputs[i].signature = Nothing
      /\ \A i \in 1..n : new.inputs[i] = tx.inputs[i]
      /\ \A i \in n + 1..k : new.inputs[i].signature = Nothing
  BY DEF BuiltOn
<1>. HIDE DEF m, n, k
<1>3. m <= k /\ \A i \in 1..m : i \in 1..n
  BY <1>1, <1>2
<1>4. \A i \in m + 1..k : (i \in m + 1..n /\ i \in 1..n) \/ i \in n + 1..k
  BY <1>1, <1>2
<1>5. /\ \A i \in 1..m : new.inputs[i] = old.inputs[i]
      /\ \A i \in m + 1..k : new.inputs[i].signature = Nothing
  BY <1>2, <1>3, <1>4
<1>. QED  BY <1>3, <1>5 DEF BuiltOn, m, k

\* Signing gives each input a signature of the transaction as it then is.
LEMMA SignSigns ==
    ASSUME NEW tx, IsTransaction(tx), NEW k
    PROVE  /\ IsTransaction(Draft!sign(tx, k)) /\ SignedAsIs(Draft!sign(tx, k))
           /\ NothingIsNoRecord => Draft!sign(tx, k) # Nothing
<1>. DEFINE digest == Draft!calculateHash(tx)
            inputs == [i \in DOMAIN tx.inputs |->
                         [coin |-> tx.inputs[i].coin,
                          signature |-> [digest |-> digest, key |-> k],
                          publicKey |-> k]]
            new == Draft!sign(tx, k)
<1>1. new = [tx EXCEPT !.inputs = inputs]
  BY DEF Draft!sign
<1>2. PICK S : tx.inputs \in Seq(S)
  BY DEF IsTransaction
<1>. DEFINE n == Len(tx.inputs)
            T == {inputs[i] : i \in 1..n}
<1>3. n \in Nat /\ DOMAIN tx.inputs = 1..n
  BY <1>2, LenProperties
<1>4. /\ inputs = [i \in 1..n |-> inputs[i]]
      /\ \A i \in 1..n : /\ inputs[i].coin = tx.inputs[i].coin
                         /\ inputs[i].signature = [digest |-> digest, key |-> k]
  BY <1>3
<1>. HIDE DEF inputs, n
<1>5. inputs \in Seq(T) /\ Len(inputs) = n
  BY <1>3, <1>4, IsASeq, LenProperties
<1>11. \A i \in 1..Len(inputs) : inputs[i].coin \in Coins
  BY <1>4, <1>5 DEF IsTransaction, n
<1>. HIDE DEF new, T, digest
<1>6. new = [timestamp |-> tx.timestamp, inputs |-> inputs, outputs |-> tx.outputs,
             status |-> tx.status, message |-> tx.message, contract |-> tx.contract,
             hash |-> tx.hash]
  BY <1>1 DEF IsTransaction
<1>7. IsTransaction(new) /\ new.inputs = inputs
  BY <1>5, <1>6, <1>11, Members DEF IsTransaction
<1>8. Draft!calculateHash(new) = digest
  <2>1. DOMAIN inputs = DOMAIN tx.inputs
    BY <1>3, <1>4
  <2>2. Draft!InputText(new) = Draft!InputText(tx)
    <3>1. [i \in DOMAIN new.inputs |-> InputHash[new.inputs[i].coin]]
            = [i \in DOMAIN tx.inputs |-> InputHash[tx.inputs[i].coin]]
      BY <1>3, <1>4, <1>7, <2>1
    <3>. QED  BY <3>1 DEF Draft!InputText
  <2>3. /\ new.timestamp = tx.timestamp /\ new.outputs = tx.outputs
        /\ new.status = tx.status /\ new.message = tx.message
        /\ new.contract = tx.contract
    BY <1>6, Members
  <2>4. Draft!TextBehindInputs(new) = Draft!TextBehindInputs(tx)
    BY <2>3 DEF Draft!TextBehindInputs, Draft!OutputText, Draft!MessageText, Draft!ContractText
  <2>. QED  BY <2>2, <2>3, <2>4 DEF Draft!calculateHash, digest
<1>9. SignedAsIs(new)
  BY <1>4, <1>5, <1>7, <1>8 DEF SignedAsIs
<1>10. ASSUME NothingIsNoRecord PROVE new # Nothing
  BY <1>6, <1>10 DEF NothingIsNoRecord
<1>. QED  BY <1>7, <1>9, <1>10 DEF new

LEMMA DraftBuild ==
    ASSUME DraftInv, NEW tx, BuiltOn(draft, tx), draft' = tx, UNCHANGED signed
    PROVE  DraftInv'
<1>1. IsTransaction(tx)
  BY DEF BuiltOn
<1>2. ASSUME signed # Nothing
      PROVE  IsTransaction(signed) /\ SignedAsIs(signed) /\ BuiltOn(signed, tx)
  BY <1>1, <1>2, BuiltOnTransitive DEF DraftInv
<1>3. ASSUME signed = Nothing
      PROVE  \A i \in 1..Len(tx.inputs) : tx.inputs[i].signature = Nothing
  <2>. DEFINE n == Len(draft.inputs)
              k == Len(tx.inputs)
  <2>1. n \in Nat /\ k \in Nat
    BY <1>1, LenProperties DEF IsTransaction, DraftInv
  <2>2. /\ \A i \in 1..n : draft.inputs[i].signature = Nothing
        /\ \A i \in 1..n : tx.inputs[i] = draft.inputs[i]
        /\ \A i \in n + 1..k : tx.inputs[i].signature = Nothing
    BY <1>3 DEF DraftInv, BuiltOn
  <2>. HIDE DEF n, k
  <2>3. \A i \in 1..k : i \in 1..n \/ i \in n + 1..k
    BY <2>1
  <2>. QED  BY <2>2, <2>3 DEF k
<1>. QED  BY <1>1, <1>2, <1>3 DEF DraftInv, IsTransaction, SignedAsIs, BuiltOn

LEMMA DraftNext ==
    ASSUME NothingIsNoRecord, DraftInv, Draft!Next PROVE DraftInv'
<1>0. IsTransaction(draft)
  BY DEF DraftInv
<1>1. CASE Draft!AddInput
  <2>1. PICK coin \in Coins : draft' = Draft!addInput(draft, coin) /\ UNCHANGED signed
    BY <1>1 DEF Draft!AddInput, Draft!Build, Draft!Operation
  <2>. QED  BY <1>0, <2>1, AddInputBuilds, DraftBuild
<1>2. CASE Draft!AddOutput
  <2>1. PICK to \in Keys, amount \in Amounts : draft' = Draft!addOutput(draft, to, amount) /\ UNCHANGED signed
    BY <1>2 DEF Draft!AddOutput, Draft!Build, Draft!Operation
  <2>. QED  BY <1>0, <2>1, AddOutputBuilds, DraftBuild
<1>3. CASE Draft!SetMessage
  <2>1. PICK text \in Texts, to \in Keys, vector \in Vectors :
          draft' = Draft!setMessage(draft, text, to, vector) /\ UNCHANGED signed
    BY <1>3 DEF Draft!SetMessage, Draft!Build, Draft!Operation
  <2>. QED  BY <1>0, <2>1, SetMessageBuilds, DraftBuild
<1>4. CASE Draft!SetContractCall
  <2>1. PICK c \in Calls : draft' = Draft!setContractCall(draft, c) /\ UNCHANGED signed
    BY <1>4 DEF Draft!SetContractCall, Draft!Build, Draft!Operation
  <2>. QED  BY <1>0, <2>1, SetContractCallBuilds, DraftBuild
<1>5. CASE Draft!Sign
  <2>1. PICK k : draft' = Draft!sign(draft, k) /\ signed' = draft'
    BY <1>5 DEF Draft!Sign, Draft!Operation
  <2>. DEFINE new == Draft!sign(draft, k)
  <2>2. IsTransaction(new) /\ SignedAsIs(new) /\ new # Nothing
    BY <1>0, SignSigns
  <2>. HIDE DEF new
  <2>3. BuiltOn(new, new)
    BY <2>2, InputsKept
  <2>4. draft' = new /\ signed' = new
    BY <2>1 DEF new
  <2>. QED  BY <2>2, <2>3, <2>4 DEF DraftInv
<1>. QED  BY <1>1, <1>2, <1>3, <1>4, <1>5 DEF Draft!Next

LEMMA DraftStart ==
    ASSUME Draft!Init PROVE DraftInv
<1>1. PICK second \in {"1", "2"} : draft = Draft!Empty(second) \/ \E to \in Keys : draft \in Draft!Made(second, to)
  BY DEF Draft!Init
<1>. DEFINE empty == [timestamp |-> second, inputs |-> <<>>, outputs |-> <<>>,
                      status |-> "PENDING", message |-> Nothing, contract |-> Draft!NoCall,
                      hash |-> Nothing]
            digest == Draft!calculateHash(empty)
            start == Draft!Empty(second)
<1>2. start = [timestamp |-> second, inputs |-> <<>>, outputs |-> <<>>,
               status |-> "PENDING", message |-> Nothing, contract |-> Draft!NoCall,
               hash |-> digest]
  <2>. HIDE DEF digest
  <2>. QED  BY DEF Draft!Empty, Draft!Rehashed, digest
<1>. HIDE DEF start, digest
<1>3. <<>> \in Seq({}) /\ Len(<<>>) = 0 /\ 1..0 = {}
  OBVIOUS
<1>6. second \in Pieces /\ IsLetter(Nothing) /\ IsCall(Draft!NoCall) /\ <<>> \in Seq(Outputs)
  <2>1. second \in Pieces
    BY TextAssumption
  <2>2. <<>> \in Seq(Pieces) /\ <<>> \in Seq(Seq(Pieces)) /\ <<>> \in Seq(Outputs)
    OBVIOUS
  <2>. QED  BY <2>1, <2>2 DEF IsLetter, IsCall, Draft!NoCall
<1>4. IsTransaction(start) /\ start.inputs = <<>>
  BY <1>2, <1>3, <1>6, Members DEF IsTransaction
<1>5. IsTransaction(draft) /\ draft.inputs = <<>>
  <2>1. CASE draft = start
    BY <1>4, <2>1
  <2>2. ASSUME NEW to \in Keys, draft \in Draft!Made(second, to)
        PROVE  IsTransaction(draft) /\ draft.inputs = <<>>
    <3>1. PICK a \in Amounts : draft = Draft!addOutput(start, to, a)
      BY <2>2 DEF Draft!Made, start
    <3>2. BuiltOn(start, draft)
      BY <1>4, <3>1, AddOutputBuilds
    <3>. DEFINE outputs == Append(start.outputs, [recipient |-> to, amount |-> a])
    <3>3. draft = [start EXCEPT !.outputs = outputs]
      BY <3>1 DEF Draft!addOutput
    <3>. HIDE DEF outputs
    <3>4. draft.inputs = start.inputs
      BY <1>2, <3>3
    <3>. QED  BY <1>4, <3>2, <3>4 DEF BuiltOn
  <2>. QED  BY <1>1, <2>1, <2>2 DEF start
<1>. QED  BY <1>3, <1>5 DEF DraftInv, Draft!Init

\* What goes into the digest is a text.
LEMMA DigestIsText ==
    ASSUME NEW tx, IsTransaction(tx)
    PROVE  /\ Draft!InputText(tx) \in Seq(Pieces)
           /\ Draft!TextBehindInputs(tx) \in Seq(Pieces)
<1>1. Draft!InputText(tx) \in Seq(Pieces)
  <2>. DEFINE n == Len(tx.inputs)
              texts == [i \in DOMAIN tx.inputs |-> InputHash[tx.inputs[i].coin]]
  <2>1. n \in Nat /\ DOMAIN tx.inputs = 1..n
    BY LenProperties DEF IsTransaction
  <2>2. \A i \in 1..n : InputHash[tx.inputs[i].coin] \in Seq(Pieces)
    BY TextAssumption DEF IsTransaction
  <2>3. texts \in [1..n -> Seq(Pieces)]
    BY <2>1, <2>2
  <2>4. texts \in Seq(Seq(Pieces))
    BY <2>1, <2>3, SeqDef
  <2>. HIDE DEF texts
  <2>5. Draft!Joined(texts) \in Seq(Pieces)
    BY <2>4, JoinedIsText
  <2>. QED  BY <2>5 DEF Draft!InputText, texts
<1>2. Draft!OutputText(tx) \in Seq(Pieces)
  <2>. DEFINE n == Len(tx.outputs)
              texts == [i \in DOMAIN tx.outputs |-> OutputHash[tx.outputs[i]]]
  <2>1. n \in Nat /\ DOMAIN tx.outputs = 1..n /\ tx.outputs \in Seq(Outputs)
    BY LenProperties DEF IsTransaction
  <2>2. \A i \in 1..n : OutputHash[tx.outputs[i]] \in Seq(Pieces)
    BY <2>1, ElementOfSeq, TextAssumption DEF Outputs
  <2>3. texts \in [1..n -> Seq(Pieces)]
    BY <2>1, <2>2
  <2>4. texts \in Seq(Seq(Pieces))
    BY <2>1, <2>3, SeqDef
  <2>. HIDE DEF texts
  <2>5. Draft!Joined(texts) \in Seq(Pieces)
    BY <2>4, JoinedIsText
  <2>. QED  BY <2>5 DEF Draft!OutputText, texts
<1>3. Draft!MessageText(tx) \in Seq(Pieces)
  <2>1. CASE tx.message = Nothing
    BY <2>1 DEF Draft!MessageText
  <2>2. CASE tx.message # Nothing
    <3>1. tx.message.encrypted \in Seq(Pieces) /\ <<tx.message.recipient>> \in Seq(Pieces)
      BY <2>2 DEF IsTransaction, IsLetter
    <3>. QED  BY <2>2, <3>1, ConcatProperties DEF Draft!MessageText
  <2>. QED  BY <2>1, <2>2
<1>4. Draft!ContractText(tx) \in Seq(Pieces)
  <2>. DEFINE c == tx.contract
              joined == Draft!Joined(c.parameters)
  <2>1. /\ c.address \in Seq(Pieces) /\ c.method \in Seq(Pieces)
        /\ c.parameters \in Seq(Seq(Pieces))
    BY DEF IsTransaction, IsCall
  <2>2. joined \in Seq(Pieces)
    BY <2>1, JoinedIsText
  <2>. HIDE DEF joined
  <2>3. c.address \o c.method \in Seq(Pieces)
    BY <2>1, ConcatProperties
  <2>4. (c.address \o c.method) \o joined \in Seq(Pieces)
    BY <2>2, <2>3, ConcatProperties
  <2>. QED  BY <2>4 DEF Draft!ContractText, joined
<1>5. <<"0", Draft!StatusNumber[tx.status]>> \in Seq(Pieces)
  <2>1. Draft!StatusNumber["PENDING"] = "0"
    BY DEF Draft!StatusNumber
  <2>2. "0" \in Pieces
    BY TextAssumption
  <2>. QED  BY <2>1, <2>2 DEF IsTransaction
<1>6. Draft!MessageText(tx) \o Draft!ContractText(tx) \in Seq(Pieces)
  BY <1>3, <1>4, ConcatProperties
<1>7. <<"0", Draft!StatusNumber[tx.status]>> \o (Draft!MessageText(tx) \o Draft!ContractText(tx))
        \in Seq(Pieces)
  BY <1>5, <1>6, ConcatProperties
<1>8. Draft!TextBehindInputs(tx) \in Seq(Pieces)
  BY <1>2, <1>7, ConcatProperties DEF Draft!TextBehindInputs
<1>. QED  BY <1>1, <1>8

\* Nothing but what was signed verifies.
LEMMA DraftVerifies ==
    ASSUME NothingIsNoRecord, DraftInv PROVE Draft!VerifiesOnlyAsSigned
<1>. SUFFICES ASSUME Draft!verify(draft)
              PROVE  /\ signed # Nothing
                     /\ draft.timestamp = signed.timestamp /\ draft.inputs = signed.inputs
                     /\ Draft!TextBehindInputs(draft) = Draft!TextBehindInputs(signed)
  BY DEF Draft!VerifiesOnlyAsSigned
<1>. DEFINE n == Len(draft.inputs)
            digest == Draft!calculateHash(draft)
<1>1. PICK S : draft.inputs \in Seq(S)
  BY DEF DraftInv, IsTransaction
<1>2. n \in Nat /\ DOMAIN draft.inputs = 1..n /\ n # 0
  BY <1>1, EmptySeq, LenProperties DEF Draft!verify
<1>3. \A i \in 1..n : \E k : draft.inputs[i].signature = [digest |-> digest, key |-> k]
  BY <1>2 DEF Draft!verify, Draft!SignatureFits
<1>4. \A k : [digest |-> digest, key |-> k] # Nothing
  <2>. HIDE DEF digest
  <2>. QED  BY DEF NothingIsNoRecord
<1>5. \A i \in 1..n : draft.inputs[i].signature # Nothing
  BY <1>3, <1>4
<1>. HIDE DEF n
<1>6. 1 \in 1..n /\ n \in 1..n
  BY <1>2
<1>7. signed # Nothing
  BY <1>5, <1>6 DEF DraftInv, n
<1>8. IsTransaction(signed) /\ SignedAsIs(signed) /\ BuiltOn(signed, draft)
  BY <1>7 DEF DraftInv
<1>9. PICK R : signed.inputs \in Seq(R)
  BY <1>8 DEF IsTransaction
<1>. DEFINE m == Len(signed.inputs)
<1>10. m \in Nat /\ DOMAIN signed.inputs = 1..m /\ m <= n
  BY <1>8, <1>9, LenProperties DEF BuiltOn, n
<1>11. \A i \in m + 1..n : draft.inputs[i].signature = Nothing
  BY <1>8 DEF BuiltOn, n
<1>. HIDE DEF m
<1>12. m = n
  <2>1. SUFFICES ASSUME m < n PROVE FALSE
    BY <1>2, <1>10
  <2>2. n \in m + 1..n
    BY <1>2, <1>10, <2>1
  <2>. QED  BY <1>5, <1>6, <1>11, <2>2
<1>13. draft.inputs = signed.inputs
  <2>1. \A i \in 1..n : draft.inputs[i] = signed.inputs[i]
    BY <1>8, <1>12 DEF BuiltOn, m
  <2>. QED  BY <1>1, <1>2, <1>9, <1>10, <1>12, <2>1, SeqEqual
<1>14. digest = Draft!calculateHash(signed)
  <2>. DEFINE digest2 == Draft!calculateHash(signed)
  <2>1. PICK k1 : draft.inputs[1].signature = [digest |-> digest, key |-> k1]
    BY <1>3, <1>6
  <2>2. PICK k2 : signed.inputs[1].signature = [digest |-> digest2, key |-> k2]
    BY <1>6, <1>8, <1>12 DEF SignedAsIs, m
  <2>. HIDE DEF digest, digest2
  <2>3. [digest |-> digest, key |-> k1].digest = digest
        /\ [digest |-> digest2, key |-> k2].digest = digest2
    OBVIOUS
  <2>. QED  BY <1>13, <2>1, <2>2, <2>3 DEF digest2
<1>15. IsTransaction(draft) /\ IsTransaction(signed)
  BY <1>8 DEF DraftInv
<1>. DEFINE behind == Draft!TextBehindInputs(draft)
            behind2 == Draft!TextBehindInputs(signed)
            inputs == Draft!InputText(draft)
<1>16. /\ behind \in Seq(Pieces) /\ behind2 \in Seq(Pieces) /\ inputs \in Seq(Pieces)
       /\ <<draft.timestamp>> \in Seq(Pieces) /\ <<signed.timestamp>> \in Seq(Pieces)
  <2>1. draft.timestamp \in Pieces /\ signed.timestamp \in Pieces
    BY <1>15 DEF IsTransaction
  <2>. QED  BY <1>15, <2>1, DigestIsText
<1>17. Draft!InputText(signed) = inputs
  BY <1>13 DEF Draft!InputText
<1>18. (<<draft.timestamp>> \o inputs) \o behind = (<<signed.timestamp>> \o inputs) \o behind2
  BY <1>14, <1>17 DEF Draft!calculateHash
<1>. HIDE DEF behind, behind2, inputs
<1>. DEFINE before == <<draft.timestamp>> \o inputs
            before2 == <<signed.timestamp>> \o inputs
<1>19. /\ before \in Seq(Pieces) /\ before2 \in Seq(Pieces)
       /\ Len(before) = Len(before2)
       /\ before[1] = draft.timestamp /\ before2[1] = signed.timestamp
  <2>1. ASSUME NEW e, <<e>> \in Seq(Pieces)
        PROVE  /\ <<e>> \o inputs \in Seq(Pieces)
               /\ Len(<<e>> \o inputs) = 1 + Len(inputs)
               /\ (<<e>> \o inputs)[1] = e
    <3>1. Len(<<e>>) = 1 /\ <<e>>[1] = e /\ Len(inputs) \in Nat
      BY <1>16, LenProperties
    <3>2. 1 \in 1..(1 + Len(inputs))
      BY <3>1
    <3>. QED  BY <1>16, <2>1, <3>1, <3>2, ConcatProperties
  <2>. QED  BY <1>16, <2>1
<1>20. before \o behind = before2 \o behind2
  BY <1>18
<1>. HIDE DEF before, before2
<1>21. before = before2 /\ behind = behind2
  BY <1>16, <1>19, <1>20, CutOnce
<1>. QED  BY <1>7, <1>13, <1>19, <1>21 DEF behind, behind2

-----------------------------------------------------------------------------
(* The storage of a contract *)

Deploys == [call : {"deploy"}, address : Engine!Addresses]
Updates == [call : {"update"}, address : Engine!Addresses, key : StateKeys, value : StateValues]

\* The i-th call in the log concerns the key at address.
Concerns(i, address, slot) ==
    /\ log[i].address = address
    /\ log[i].call = "deploy" \/ log[i].key = slot

\* It is the last one that does; 0 stands for none.
IsLast(i, address, slot) ==
    /\ i # 0 => Concerns(i, address, slot)
    /\ \A j \in DOMAIN log : Concerns(j, address, slot) => j <= i

Stored(address, slot) ==
    address \in DOMAIN contracts /\ slot \in DOMAIN contracts[address].storage

\* The contract has what that call left.
AsLast(i, address, slot) ==
    /\ address \in DOMAIN contracts <=> i # 0
    /\ Stored(address, slot) <=> i # 0 /\ log[i].call = "update"
    /\ Stored(address, slot) => contracts[address].storage[slot] = log[i].value

IsContract(c) ==
    c = [bytecode |-> c.bytecode, owner |-> c.owner, isActive |-> c.isActive,
         storage |-> c.storage]

EngineInv ==
    /\ log \in Seq(Deploys \cup Updates)
    /\ \A address \in DOMAIN contracts : IsContract(contracts[address])
    /\ \A address \in Engine!Addresses, slot \in StateKeys :
         \E i \in 0..Len(log) : IsLast(i, address, slot) /\ AsLast(i, address, slot)

\* There is no other last one.
LEMMA LastIsUnique ==
    ASSUME log \in Seq(Deploys \cup Updates), NEW address, NEW slot,
           NEW i \in 0..Len(log), IsLast(i, address, slot)
    PROVE  Engine!Last(address, slot) = i
<1>. DEFINE n == Len(log)
            concerns == {j \in DOMAIN log :
                          /\ log[j].address = address
                          /\ log[j].call = "deploy" \/ log[j].key = slot}
<1>1. n \in Nat /\ DOMAIN log = 1..n
  BY LenProperties
<1>2. Engine!Last(address, slot) = CHOOSE j \in concerns \cup {0} : \A k \in concerns : k <= j
  BY DEF Engine!Last
<1>3. \A j : j \in concerns <=> j \in 1..n /\ Concerns(j, address, slot)
  BY <1>1 DEF Concerns
<1>. HIDE DEF concerns, n
<1>4. \A k \in concerns : k <= i
  BY <1>1, <1>3 DEF IsLast
<1>5. i \in 0..n
  BY DEF n
<1>6. i = 0 \/ i \in 1..n
  BY <1>1, <1>5
<1>7. i \in concerns \cup {0}
  BY <1>3, <1>6 DEF IsLast
<1>8. ASSUME NEW j \in concerns \cup {0}, \A k \in concerns : k <= j
      PROVE  j = i
  <2>1. j \in 0..n
    BY <1>1, <1>3
  <2>2. j <= i
    BY <1>1, <1>4, <1>5, <2>1
  <2>3. i <= j
    BY <1>1, <1>5, <1>7, <1>8, <2>1
  <2>. QED  BY <1>1, <1>5, <2>1, <2>2, <2>3
<1>. QED  BY <1>2, <1>4, <1>7, <1>8

\* A call goes to the end of the log.
LEMMA LogGrows ==
    ASSUME log \in Seq(Deploys \cup Updates), NEW e \in Deploys \cup Updates,
           log' = Append(log, e)
    PROVE  /\ Len(log) \in Nat /\ Len(log') = Len(log) + 1
           /\ log' \in Seq(Deploys \cup Updates)
           /\ DOMAIN log = 1..Len(log) /\ DOMAIN log' = 1..Len(log) + 1
           /\ \A i \in 1..Len(log) : log'[i] = log[i]
           /\ log'[Len(log) + 1] = e
BY AppendProperties, LenProperties

\* What does not concern a key leaves the last call for it what it was.
LEMMA LastStays ==
    ASSUME log \in Seq(Deploys \cup Updates), NEW e \in Deploys \cup Updates,
           log' = Append(log, e), NEW address, NEW slot,
           ~(e.address = address /\ (e.call = "deploy" \/ e.key = slot)),
           NEW i \in 0..Len(log), IsLast(i, address, slot)
    PROVE  /\ i \in 0..Len(log') /\ IsLast(i, address, slot)'
           /\ i # 0 => log'[i] = log[i]
<1>. DEFINE n == Len(log)
            more == log'
<1>1. /\ n \in Nat /\ Len(more) = n + 1 /\ DOMAIN log = 1..n /\ DOMAIN more = 1..n + 1
      /\ \A j \in 1..n : more[j] = log[j]
      /\ more[n + 1] = e
  BY LogGrows
<1>2. i \in 0..n
  OBVIOUS
<1>3. Len(log') = n + 1 /\ \A j : Concerns(j, address, slot)' <=>
         more[j].address = address /\ (more[j].call = "deploy" \/ more[j].key = slot)
  BY <1>1 DEF Concerns
<1>4. i # 0 => more[i] = log[i] /\ Concerns(i, address, slot)'
  <2>. HIDE DEF n
  <2>1. i # 0 => i \in 1..n
    BY <1>1, <1>2
  <2>. QED  BY <1>1, <1>3, <2>1 DEF IsLast, Concerns
<1>5. ASSUME NEW j \in 1..n + 1, Concerns(j, address, slot)'
      PROVE  j <= i
  <2>1. j # n + 1
    BY <1>1, <1>3, <1>5
  <2>2. j \in 1..n
    <3>. HIDE DEF n
    <3>. QED  BY <1>1, <2>1
  <2>. QED  BY <1>1, <1>3, <1>5, <2>2 DEF IsLast, Concerns
<1>6. i \in 0..n + 1
  <2>. HIDE DEF n
  <2>. QED  BY <1>1, <1>2
<1>. QED  BY <1>1, <1>3, <1>4, <1>5, <1>6 DEF IsLast

\* What concerns it is the last from then on.
LEMMA LastIsNew ==
    ASSUME log \in Seq(Deploys \cup Updates), NEW e \in Deploys \cup Updates,
           log' = Append(log, e), NEW address, NEW slot,
           e.address = address, e.call = "deploy" \/ e.key = slot
    PROVE  \E i \in 0..Len(log') : i # 0 /\ IsLast(i, address, slot)' /\ log'[i] = e
<1>1. PICK m : m = Len(log) + 1
  OBVIOUS
<1>2. Len(log) \in Nat /\ Len(log') = m /\ DOMAIN log' = 1..m /\ log'[m] = e
  BY <1>1, LogGrows
<1>3. m \in 1..m /\ m \in 0..m /\ m # 0 /\ \A j \in 1..m : j <= m
  BY <1>1, <1>2
<1>4. IsLast(m, address, slot)'
  BY <1>2, <1>3 DEF IsLast, Concerns
<1>. QED  BY <1>2, <1>3, <1>4

LEMMA EngineDeploys ==
    ASSUME EngineInv, NEW bytecode \in Bytecodes, NEW owner \in Owners,
           Engine!deployContract(bytecode, owner)
    PROVE  EngineInv'
<1>. DEFINE a == Engine!Address(bytecode, owner)
            e == [call |-> "deploy", address |-> a]
            new == [bytecode |-> bytecode, owner |-> owner, isActive |-> TRUE,
                    storage |-> Engine!NoStorage]
<1>0. CASE UNCHANGED <<contracts, log>>
  BY <1>0 DEF EngineInv, IsContract, IsLast, Concerns, AsLast, Stored
<1>. SUFFICES ASSUME contracts' = Engine!Set(a, new), log' = Append(log, e)
              PROVE  EngineInv'
  BY <1>0 DEF Engine!deployContract, Engine!Throws
<1>1. a \in Engine!Addresses
  BY DEF Engine!Addresses
<1>2. e \in Deploys \cup Updates /\ e.address = a /\ e.call = "deploy"
  BY <1>1 DEF Deploys
<1>. HIDE DEF e, a
<1>3. /\ new.storage = <<>>
      /\ new = [bytecode |-> new.bytecode, owner |-> new.owner,
                isActive |-> new.isActive, storage |-> new.storage]
  BY DEF Engine!NoStorage
<1>. HIDE DEF new
<1>4. /\ DOMAIN contracts' = DOMAIN contracts \cup {a}
      /\ contracts'[a] = new
      /\ \A b \in DOMAIN contracts : b # a => contracts'[b] = contracts[b]
  BY DEF Engine!Set
<1>5. log' \in Seq(Deploys \cup Updates)
  BY <1>2, LogGrows DEF EngineInv
<1>6. ASSUME NEW b \in DOMAIN contracts' PROVE IsContract(contracts'[b])
  BY <1>3, <1>4 DEF IsContract, EngineInv
<1>7. ASSUME NEW address \in Engine!Addresses, NEW slot \in StateKeys
      PROVE  \E i \in 0..Len(log') : IsLast(i, address, slot)' /\ AsLast(i, address, slot)'
  <2>1. CASE address = a
    <3>1. PICK i \in 0..Len(log') : i # 0 /\ IsLast(i, address, slot)' /\ log'[i] = e
      BY <1>2, <2>1, LastIsNew, ZenonT(30) DEF EngineInv
    <3>2. ~Stored(address, slot)'
      BY <1>3, <1>4, <2>1 DEF Stored
    <3>. QED  BY <1>2, <1>4, <2>1, <3>1, <3>2 DEF AsLast
  <2>2. CASE address # a
    <3>1. PICK i \in 0..Len(log) : IsLast(i, address, slot) /\ AsLast(i, address, slot)
      BY DEF EngineInv
    <3>2. /\ i \in 0..Len(log') /\ IsLast(i, address, slot)'
          /\ i # 0 => log'[i] = log[i]
      BY <1>2, <2>2, <3>1, LastStays DEF EngineInv
    <3>3. /\ address \in DOMAIN contracts' <=> address \in DOMAIN contracts
          /\ address \in DOMAIN contracts => contracts'[address] = contracts[address]
      BY <1>4, <2>2
    <3>. QED  BY <3>1, <3>2, <3>3 DEF AsLast, Stored
  <2>. QED  BY <2>1, <2>2
<1>. QED  BY <1>5, <1>6, <1>7 DEF EngineInv

LEMMA EngineUpdates ==
    ASSUME EngineInv, NEW a \in Engine!Addresses, NEW k \in StateKeys, NEW v \in StateValues,
           Engine!updateContractState(a, k, v)
    PROVE  EngineInv'
<1>. DEFINE e == [call |-> "update", address |-> a, key |-> k, value |-> v]
            old == contracts[a]
            storage == [h \in DOMAIN old.storage \cup {k} |->
                          IF h = k THEN v ELSE old.storage[h]]
            new == [old EXCEPT !.storage = storage]
<1>0. CASE UNCHANGED <<contracts, log>>
  BY <1>0 DEF EngineInv, IsContract, IsLast, Concerns, AsLast, Stored
<1>. SUFFICES ASSUME a \in DOMAIN contracts, contracts' = [contracts EXCEPT ![a] = new],
                     log' = Append(log, e)
              PROVE  EngineInv'
  BY <1>0 DEF Engine!updateContractState, Engine!isContractActive
<1>2. /\ e \in Deploys \cup Updates /\ e.address = a /\ e.call = "update"
      /\ e.key = k /\ e.value = v
  BY DEF Updates
<1>. HIDE DEF e
<1>3. /\ DOMAIN storage = DOMAIN old.storage \cup {k} /\ storage[k] = v
      /\ \A h \in DOMAIN old.storage : h # k => storage[h] = old.storage[h]
  OBVIOUS
<1>. HIDE DEF storage
<1>4. new = [bytecode |-> old.bytecode, owner |-> old.owner,
             isActive |-> old.isActive, storage |-> storage]
  BY DEF EngineInv, IsContract
<1>. HIDE DEF new
<1>5. /\ DOMAIN contracts' = DOMAIN contracts
      /\ contracts'[a] = new
      /\ \A b \in DOMAIN contracts : b # a => contracts'[b] = contracts[b]
  OBVIOUS
<1>6. new.storage = storage /\ IsContract(new)
  BY <1>4 DEF IsContract
<1>7. log' \in Seq(Deploys \cup Updates)
  BY <1>2, LogGrows DEF EngineInv
<1>8. ASSUME NEW b \in DOMAIN contracts' PROVE IsContract(contracts'[b])
  BY <1>5, <1>6 DEF EngineInv
<1>9. ASSUME NEW address \in Engine!Addresses, NEW slot \in StateKeys
      PROVE  \E i \in 0..Len(log') : IsLast(i, address, slot)' /\ AsLast(i, address, slot)'
  <2>1. CASE address = a /\ slot = k
    <3>0. /\ log \in Seq(Deploys \cup Updates) /\ e \in Deploys \cup Updates
          /\ log' = Append(log, e) /\ e.address = address
          /\ e.call = "deploy" \/ e.key = slot
      BY <1>2, <2>1 DEF EngineInv
    <3>1. PICK i \in 0..Len(log') : i # 0 /\ IsLast(i, address, slot)' /\ log'[i] = e
      BY <3>0, LastIsNew
    <3>2. Stored(address, slot)' /\ contracts'[address].storage[slot] = v
      BY <1>3, <1>5, <1>6, <2>1 DEF Stored
    <3>. QED  BY <1>2, <1>5, <2>1, <3>1, <3>2 DEF AsLast
  <2>2. CASE ~(address = a /\ slot = k)
    <3>1. PICK i \in 0..Len(log) : IsLast(i, address, slot) /\ AsLast(i, address, slot)
      BY DEF EngineInv
    <3>2. /\ i \in 0..Len(log') /\ IsLast(i, address, slot)'
          /\ i # 0 => log'[i] = log[i]
      BY <1>2, <2>2, <3>1, LastStays DEF EngineInv
    <3>3. /\ Stored(address, slot)' <=> Stored(address, slot)
          /\ Stored(address, slot) =>
               contracts'[address].storage[slot] = contracts[address].storage[slot]
      <4>1. CASE address = a
        BY <1>3, <1>5, <1>6, <2>2, <4>1 DEF Stored
      <4>2. CASE address # a
        BY <1>5, <4>2 DEF Stored
      <4>. QED  BY <4>1, <4>2
    <3>. QED  BY <1>5, <3>1, <3>2, <3>3 DEF AsLast
  <2>. QED  BY <2>1, <2>2
<1>. QED  BY <1>7, <1>8, <1>9 DEF EngineInv

LEMMA EngineNext ==
    ASSUME EngineInv, [Next]_vars PROVE EngineInv'
<1>1. ASSUME UNCHANGED <<contracts, log>> PROVE EngineInv'
  BY <1>1 DEF EngineInv, IsContract, IsLast, Concerns, AsLast, Stored
<1>2. ASSUME NEW bytecode \in Bytecodes, NEW owner \in Owners,
             Engine!deployContract(bytecode, owner)
      PROVE  EngineInv'
  BY <1>2, EngineDeploys
<1>3. ASSUME NEW address, NEW method, NEW params, Engine!executeContract(address, method, params)
      PROVE  EngineInv'
  BY <1>1, <1>3 DEF Engine!executeContract, Engine!Throws
<1>4. ASSUME NEW address \in Engine!Addresses, NEW slot \in StateKeys, NEW value \in StateValues,
             Engine!updateContractState(address, slot, value)
      PROVE  EngineInv'
  BY <1>4, EngineUpdates
<1>5. ASSUME NEW address, NEW slot, Engine!getContractState(address, slot)
      PROVE  EngineInv'
  BY <1>1, <1>5 DEF Engine!getContractState, Engine!Throws
<1>6. CASE Engine!Next
  BY <1>2, <1>3, <1>4, <1>5, <1>6 DEF Engine!Next
<1>7. CASE UNCHANGED engineVars
  BY <1>1, <1>7 DEF engineVars
<1>. QED  BY <1>6, <1>7 DEF Next, vars

LEMMA EngineStart == Engine!Init => EngineInv
<1>. SUFFICES ASSUME Engine!Init PROVE EngineInv
  OBVIOUS
<1>1. contracts = <<>> /\ log = <<>>
  BY DEF Engine!Init
<1>2. Len(<<>>) = 0 /\ DOMAIN <<>> = {} /\ 0 \in 0..0 /\ <<>> \in Seq(Deploys \cup Updates)
  OBVIOUS
<1>3. ASSUME NEW address, NEW slot
      PROVE  IsLast(0, address, slot) /\ AsLast(0, address, slot)
  BY <1>1, <1>2 DEF IsLast, AsLast, Stored
<1>. QED  BY <1>1, <1>2, <1>3 DEF EngineInv

LEMMA EngineStores == EngineInv => StorageIsLastWritten
<1>. SUFFICES ASSUME EngineInv, NEW address \in Engine!Addresses, NEW slot \in StateKeys
              PROVE  LET i == Engine!Last(address, slot)
                         stored == /\ address \in DOMAIN contracts
                                   /\ slot \in DOMAIN contracts[address].storage
                     IN  /\ address \in DOMAIN contracts <=> i # 0
                         /\ stored <=> i # 0 /\ log[i].call = "update"
                         /\ stored => contracts[address].storage[slot] = log[i].value
  BY DEF StorageIsLastWritten, Engine!StorageIsLastWritten
<1>1. PICK i \in 0..Len(log) : IsLast(i, address, slot) /\ AsLast(i, address, slot)
  BY DEF EngineInv
<1>2. Engine!Last(address, slot) = i
  BY <1>1, LastIsUnique DEF EngineInv
<1>. QED  BY <1>1, <1>2 DEF AsLast, Stored

-----------------------------------------------------------------------------
(* Counting *)

LEMMA UpTo ==
    ASSUME NEW n \in Nat
    PROVE  IsFiniteSet(1..n) /\ Cardinality(1..n) = n
<1>1. 1 \in Int /\ n \in Int /\ ~(1 > n /\ n # 0)
  OBVIOUS
<1>. QED  BY <1>1, FS_Interval

\* A one-to-one correspondence keeps the count.
LEMMA SameCount ==
    ASSUME NEW S, IsFiniteSet(S), NEW T, NEW f \in [S -> T],
           \A a, b \in S : f[a] = f[b] => a = b,
           \A t \in T : \E a \in S : f[a] = t
    PROVE  IsFiniteSet(T) /\ Cardinality(T) = Cardinality(S)
<1>1. f \in Bijection(S, T)
  BY DEF Bijection, Injection, Surjection, IsInjective
<1>. QED  BY <1>1, FS_Bijection DEF ExistsBijection

-----------------------------------------------------------------------------
(* The entries of a pool *)

\* Where e is in the sequence.
Places(seq, e) == {i \in DOMAIN seq : seq[i] = e}

\* The bag of what is in a sequence.
BagOf(seq) == [e \in {seq[i] : i \in DOMAIN seq} |-> Cardinality(Places(seq, e))]

PoolInv ==
    /\ pool \in Seq(Pool!Entry)
    /\ Len(pool) <= MaxSize
    /\ Pool!Sorted(pool)
    /\ time \in 0..MaxClock

\* The part of a bag in a set, and a bag with an entry more.
Part(bag, S) == [e \in {e \in DOMAIN bag : e \in S} |-> bag[e]]

Grown(bag, e) ==
    [x \in DOMAIN bag \cup {e} |->
       (IF x \in DOMAIN bag THEN bag[x] ELSE 0) + (IF x = e THEN 1 ELSE 0)]

LEMMA ContentsIs == Pool!Contents = BagOf(pool) /\ Pool!Contents' = BagOf(pool')
<1>1. \A S : Pool!Cardinality(S) = Cardinality(S)
  BY DEF Pool!Cardinality, Cardinality
<1>. QED  BY <1>1 DEF Pool!Contents, BagOf, Places

LEMMA PlacesAreFinite ==
    ASSUME NEW E, NEW seq \in Seq(E), NEW e
    PROVE  /\ IsFiniteSet(Places(seq, e)) /\ Cardinality(Places(seq, e)) \in Nat
           /\ e \in DOMAIN BagOf(seq) <=> Places(seq, e) # {}
           /\ e \in DOMAIN BagOf(seq) => BagOf(seq)[e] = Cardinality(Places(seq, e))
<1>. DEFINE n == Len(seq)
<1>1. n \in Nat /\ DOMAIN seq = 1..n
  BY LenProperties
<1>2. IsFiniteSet(1..n)
  <2>. HIDE DEF n
  <2>. QED  BY <1>1, FS_Interval
<1>3. Places(seq, e) \in SUBSET (1..n)
  BY <1>1 DEF Places
<1>4. IsFiniteSet(Places(seq, e))
  <2>. HIDE DEF n
  <2>. QED  BY <1>2, <1>3, FS_Subset
<1>5. Cardinality(Places(seq, e)) \in Nat
  BY <1>4, FS_CardinalityType
<1>6. e \in DOMAIN BagOf(seq) <=> Places(seq, e) # {}
  BY DEF BagOf, Places
<1>7. e \in DOMAIN BagOf(seq) => BagOf(seq)[e] = Cardinality(Places(seq, e))
  BY DEF BagOf
<1>. QED  BY <1>4, <1>5, <1>6, <1>7

\* A bag has as many tickets as its sequence is long.
LEMMA TicketsCount ==
    ASSUME NEW E, NEW seq \in Seq(E)
    PROVE  Pool!P!Size(BagOf(seq)) = Len(seq)
<1>. DEFINE n == Len(seq)
            bag == BagOf(seq)
            D == DOMAIN bag
            T == Pool!P!Tickets(bag)
            nth(e) == CHOOSE f \in Bijection(1..bag[e], Places(seq, e)) : TRUE
            g == [t \in T |-> nth(t[1])[t[2]]]
<1>1. n \in Nat /\ DOMAIN seq = 1..n
  BY LenProperties
<1>2. \A e : e \in D <=> \E i \in 1..n : seq[i] = e
  BY <1>1 DEF BagOf
<1>3. \A t : t \in T <=> \E e \in D : \E m \in 1..bag[e] : t = <<e, m>>
  BY DEF Pool!P!Tickets, Pool!P!BagToSet
<1>4. ASSUME NEW e \in D
      PROVE  /\ \A m \in 1..bag[e] : nth(e)[m] \in 1..n /\ seq[nth(e)[m]] = e
             /\ \A m, k \in 1..bag[e] : nth(e)[m] = nth(e)[k] => m = k
             /\ \A i \in 1..n : seq[i] = e => \E m \in 1..bag[e] : nth(e)[m] = i
  <2>1. bag[e] = Cardinality(Places(seq, e)) /\ IsFiniteSet(Places(seq, e))
    BY PlacesAreFinite
  <2>2. Bijection(1..bag[e], Places(seq, e)) # {}
    BY <2>1, FS_CardinalityType DEF ExistsBijection
  <2>3. nth(e) \in Bijection(1..bag[e], Places(seq, e))
    BY <2>2
  <2>4. \A i : i \in Places(seq, e) <=> i \in 1..n /\ seq[i] = e
    BY <1>1 DEF Places
  <2>. HIDE DEF nth, n, bag, D
  <2>5. /\ nth(e) \in [1..bag[e] -> Places(seq, e)]
        /\ \A m, k \in 1..bag[e] : nth(e)[m] = nth(e)[k] => m = k
        /\ \A i \in Places(seq, e) : \E m \in 1..bag[e] : nth(e)[m] = i
    BY <2>3 DEF Bijection, Injection, Surjection, IsInjective
  <2>. QED  BY <2>4, <2>5
<1>. HIDE DEF n, bag, D, T, nth
<1>5. \A t \in T : /\ t[1] \in D /\ t[2] \in 1..bag[t[1]] /\ t = <<t[1], t[2]>>
                   /\ g[t] = nth(t[1])[t[2]]
  BY <1>3
<1>. HIDE DEF g
<1>6. g \in [T -> 1..n]
  BY <1>4, <1>5 DEF g
<1>7. ASSUME NEW t \in T, NEW u \in T, g[t] = g[u] PROVE t = u
  <2>1. t[1] = u[1]
    BY <1>4, <1>5, <1>7
  <2>2. t[2] = u[2]
    BY <1>4, <1>5, <1>7, <2>1
  <2>. QED  BY <1>5, <2>1, <2>2
<1>8. ASSUME NEW i \in 1..n PROVE \E t \in T : g[t] = i
  <2>1. seq[i] \in D
    BY <1>2
  <2>2. PICK m \in 1..bag[seq[i]] : nth(seq[i])[m] = i
    BY <1>4, <2>1
  <2>3. <<seq[i], m>> \in T
    BY <1>3, <2>1, <2>2
  <2>4. g[<<seq[i], m>>] = i
    BY <2>2, <2>3 DEF g
  <2>. QED  BY <2>3, <2>4
<1>9. IsFiniteSet(1..n) /\ Cardinality(1..n) = n
  BY <1>1, UpTo
<1>10. IsFiniteSet(T) /\ Cardinality(T) = n
  <2>. DEFINE S == 1..n
  <2>1. g \in Bijection(T, S)
    BY <1>6, <1>7, <1>8 DEF Bijection, Injection, Surjection, IsInjective
  <2>. HIDE DEF S
  <2>2. ExistsBijection(S, T)
    BY <2>1, Fun_ExistsBijSymmetric DEF ExistsBijection
  <2>. QED  BY <1>9, <2>2, FS_Bijection DEF S
<1>11. \A S : Pool!P!Cardinality(S) = Cardinality(S)
  BY DEF Pool!P!Cardinality, Cardinality
<1>. QED  BY <1>10, <1>11 DEF Pool!P!Size, T, bag, n

\* An entry more.
LEMMA BagGrows ==
    ASSUME NEW E, NEW seq \in Seq(E), NEW e \in E
    PROVE  BagOf(Append(seq, e)) = Grown(BagOf(seq), e)
<1>. DEFINE n == Len(seq)
            more == Append(seq, e)
            D == DOMAIN BagOf(seq)
<1>1. n \in Nat /\ DOMAIN seq = 1..n
  BY LenProperties
<1>2. /\ more \in Seq(E) /\ DOMAIN more = 1..(n + 1) /\ more[n + 1] = e
      /\ \A i \in 1..n : more[i] = seq[i]
  BY AppendProperties, LenProperties
<1>. HIDE DEF n, more
<1>3. n + 1 \in 1..(n + 1) /\ n + 1 \notin 1..n
      /\ \A i : i \in 1..(n + 1) <=> i = n + 1 \/ i \in 1..n
  BY <1>1
<1>4. Places(more, e) = Places(seq, e) \cup {n + 1} /\ n + 1 \notin Places(seq, e)
  BY <1>1, <1>2, <1>3 DEF Places
<1>5. ASSUME NEW x, x # e PROVE Places(more, x) = Places(seq, x)
  BY <1>1, <1>2, <1>3, <1>5 DEF Places
<1>6. Cardinality(Places(more, e)) = Cardinality(Places(seq, e)) + 1
  BY <1>4, PlacesAreFinite, FS_AddElement, ZenonT(30)
<1>7. ASSUME NEW x PROVE x \in DOMAIN BagOf(more) <=> x \in D \cup {e}
  <2>1. x \in DOMAIN BagOf(more) <=> Places(more, x) # {}
    BY <1>2, PlacesAreFinite
  <2>2. x \in D <=> Places(seq, x) # {}
    BY PlacesAreFinite
  <2>3. x = e => n + 1 \in Places(more, x)
    BY <1>4
  <2>4. x # e => Places(more, x) = Places(seq, x)
    BY <1>5
  <2>. HIDE DEF D
  <2>. QED  BY <2>1, <2>2, <2>3, <2>4
<1>8. BagOf(more) = [x \in DOMAIN BagOf(more) |-> BagOf(more)[x]]
  BY DEF BagOf
<1>9. ASSUME NEW x \in DOMAIN BagOf(more)
      PROVE  BagOf(more)[x] = (IF x \in D THEN BagOf(seq)[x] ELSE 0)
                                + (IF x = e THEN 1 ELSE 0)
  <2>1. BagOf(more)[x] = Cardinality(Places(more, x))
    BY DEF BagOf
  <2>2. x \in D => BagOf(seq)[x] = Cardinality(Places(seq, x))
                   /\ Cardinality(Places(seq, x)) \in Nat
    BY PlacesAreFinite
  <2>3. x \notin D => Cardinality(Places(seq, x)) = 0
    BY PlacesAreFinite, FS_EmptySet
  <2>4. CASE x = e
    BY <1>6, <2>1, <2>2, <2>3, <2>4
  <2>5. CASE x # e
    BY <1>5, <1>7, <2>1, <2>2, <2>5
  <2>. QED  BY <2>4, <2>5
<1>. HIDE DEF D
<1>10. DOMAIN BagOf(more) = D \cup {e}
  BY <1>7
<1>. QED  BY <1>8, <1>9, <1>10 DEF more, D, Grown

\* t is made of the entries of s that are kept, each one once: q tells the place
\* that it had.
Chosen(q, s, t, kept) ==
    /\ \A i \in DOMAIN t : q[i] \in DOMAIN s /\ t[i] = s[q[i]] /\ t[i] \in kept
    /\ \A i, j \in DOMAIN t : q[i] = q[j] => i = j
    /\ \A j \in DOMAIN s : s[j] \in kept => \E i \in DOMAIN t : q[i] = j

\* What such a choice leaves of the bag.
LEMMA BagOfChosen ==
    ASSUME NEW E, NEW s \in Seq(E), NEW t \in Seq(E), NEW kept, NEW q,
           Chosen(q, s, t, kept)
    PROVE  BagOf(t) = Part(BagOf(s), kept)
<1>. DEFINE less == [e \in {e \in DOMAIN BagOf(s) : e \in kept} |-> BagOf(s)[e]]
<1>. USE DEF Chosen
<1>1. ASSUME NEW e \in kept
      PROVE  Cardinality(Places(t, e)) = Cardinality(Places(s, e))
  <2>. DEFINE f == [i \in Places(t, e) |-> q[i]]
  <2>1. f \in [Places(t, e) -> Places(s, e)]
    BY DEF Places
  <2>2. \A i, j \in Places(t, e) : f[i] = f[j] => i = j
    BY DEF Places
  <2>3. \A j \in Places(s, e) : \E i \in Places(t, e) : f[i] = j
    BY DEF Places
  <2>. HIDE DEF f
  <2>. QED  BY <2>1, <2>2, <2>3, PlacesAreFinite, SameCount
<1>2. DOMAIN BagOf(t) = DOMAIN less
  <2>1. \A e : e \in DOMAIN BagOf(t) <=> \E i \in DOMAIN t : t[i] = e
    BY DEF BagOf
  <2>2. \A e : e \in DOMAIN BagOf(s) <=> \E i \in DOMAIN s : s[i] = e
    BY DEF BagOf
  <2>3. \A e : e \in DOMAIN BagOf(t) <=> e \in DOMAIN BagOf(s) /\ e \in kept
    <3>1. ASSUME NEW e \in DOMAIN BagOf(t) PROVE e \in DOMAIN BagOf(s) /\ e \in kept
      BY <2>1, <2>2
    <3>2. ASSUME NEW e \in DOMAIN BagOf(s), e \in kept PROVE e \in DOMAIN BagOf(t)
      <4>1. PICK j \in DOMAIN s : s[j] = e
        BY <2>2
      <4>2. PICK i \in DOMAIN t : q[i] = j
        BY <3>2, <4>1
      <4>. QED  BY <2>1, <4>1, <4>2
    <3>. QED  BY <3>1, <3>2
  <2>. QED  BY <2>3
<1>3. ASSUME NEW e \in DOMAIN BagOf(t) PROVE BagOf(t)[e] = less[e]
  <2>1. e \in kept /\ e \in DOMAIN BagOf(s) /\ less[e] = BagOf(s)[e]
    BY <1>2
  <2>. QED  BY <1>1, <2>1, PlacesAreFinite
<1>4. BagOf(t) = [e \in DOMAIN BagOf(t) |-> BagOf(t)[e]]
  BY DEF BagOf
<1>. QED  BY <1>2, <1>3, <1>4 DEF Part

\* What Keep leaves of the first n entries of s are the ones to be kept, each once
\* and in their order.
Left(t, s, kept, n) ==
    \E q : /\ t \in Seq(kept)
           /\ \A i \in DOMAIN t : q[i] \in 1..n /\ t[i] = s[q[i]]
           /\ \A i, j \in DOMAIN t : i < j => q[i] < q[j]
           /\ \A j \in 1..n : s[j] \in kept => \E i \in DOMAIN t : q[i] = j

\* The loop of Keep, up to the n-th entry.
Keeping(left, s, kept, n) ==
    /\ left = [i \in 0..n |-> left[i]]
    /\ left[0] = <<>>
    /\ \A i \in 1..n :
         left[i] = IF s[i] \in kept THEN Append(left[i - 1], s[i]) ELSE left[i - 1]
    /\ \A i \in 0..n : Left(left[i], s, kept, i)

\* One more entry.
LEMMA LeftGrows ==
    ASSUME NEW n \in Nat, NEW s, NEW kept, NEW t, Left(t, s, kept, n)
    PROVE  Left(IF s[n + 1] \in kept THEN Append(t, s[n + 1]) ELSE t, s, kept, n + 1)
<1>1. PICK q : /\ t \in Seq(kept)
               /\ \A i \in DOMAIN t : q[i] \in 1..n /\ t[i] = s[q[i]]
               /\ \A i, j \in DOMAIN t : i < j => q[i] < q[j]
               /\ \A j \in 1..n : s[j] \in kept => \E i \in DOMAIN t : q[i] = j
  BY DEF Left
<1>2. \A j : j \in 1..(n + 1) <=> j \in 1..n \/ j = n + 1
  OBVIOUS
<1>3. CASE s[n + 1] \notin kept
  <2>1. /\ \A i \in DOMAIN t : q[i] \in 1..(n + 1) /\ t[i] = s[q[i]]
        /\ \A j \in 1..(n + 1) : s[j] \in kept => \E i \in DOMAIN t : q[i] = j
    BY <1>1, <1>2, <1>3
  <2>2. Left(t, s, kept, n + 1)
    BY <1>1, <2>1 DEF Left
  <2>. QED  BY <1>3, <2>2
<1>4. CASE s[n + 1] \in kept
  <2>. DEFINE e == s[n + 1]
              m == Len(t)
              more == Append(t, e)
              q2 == [i \in 1..(m + 1) |-> IF i = m + 1 THEN n + 1 ELSE q[i]]
  <2>1. m \in Nat /\ DOMAIN t = 1..m
    BY <1>1, LenProperties
  <2>2. /\ more \in Seq(kept) /\ DOMAIN more = 1..(m + 1) /\ more[m + 1] = e
        /\ \A i \in 1..m : more[i] = t[i]
    BY <1>1, <1>4, AppendProperties, LenProperties
  <2>. HIDE DEF m, more, e
  <2>3. \A i : i \in 1..(m + 1) <=> i \in 1..m \/ i = m + 1
    BY <2>1
  <2>4. m + 1 \notin 1..m /\ q2[m + 1] = n + 1 /\ \A i \in 1..m : q2[i] = q[i]
    BY <2>1
  <2>. HIDE DEF q2
  <2>5. \A i \in 1..(m + 1) : q2[i] \in 1..(n + 1) /\ more[i] = s[q2[i]]
    BY <1>1, <1>2, <2>1, <2>2, <2>3, <2>4 DEF e
  <2>6. ASSUME NEW i \in 1..(m + 1), NEW j \in 1..(m + 1), i < j PROVE q2[i] < q2[j]
    <3>1. i \in 1..m
      BY <2>1, <2>6
    <3>2. CASE j = m + 1
      <4>1. q[i] \in 1..n
        BY <1>1, <2>1, <3>1
      <4>. QED  BY <2>4, <3>1, <3>2, <4>1
    <3>3. CASE j \in 1..m
      BY <1>1, <2>1, <2>4, <2>6, <3>1, <3>3
    <3>. QED  BY <2>3, <3>2, <3>3
  <2>7. ASSUME NEW j \in 1..(n + 1), s[j] \in kept PROVE \E i \in 1..(m + 1) : q2[i] = j
    <3>1. CASE j = n + 1
      BY <2>3, <2>4, <3>1
    <3>2. CASE j \in 1..n
      <4>1. PICK i \in 1..m : q[i] = j
        BY <1>1, <2>1, <2>7, <3>2
      <4>. QED  BY <2>3, <2>4, <4>1
    <3>. QED  BY <1>2, <3>1, <3>2
  <2>8. /\ \A i \in DOMAIN more : q2[i] \in 1..(n + 1) /\ more[i] = s[q2[i]]
        /\ \A i, j \in DOMAIN more : i < j => q2[i] < q2[j]
        /\ \A j \in 1..(n + 1) : s[j] \in kept => \E i \in DOMAIN more : q2[i] = j
    BY <2>2, <2>5, <2>6, <2>7
  <2>9. Left(more, s, kept, n + 1)
    BY <2>2, <2>8 DEF Left
  <2>. QED  BY <1>4, <2>9 DEF more, e
<1>. QED  BY <1>3, <1>4

LEMMA KeepingGrows ==
    ASSUME NEW n \in Nat, NEW s, NEW kept, NEW left, Keeping(left, s, kept, n)
    PROVE  \E more : Keeping(more, s, kept, n + 1)
<1>. DEFINE t == IF s[n + 1] \in kept THEN Append(left[n], s[n + 1]) ELSE left[n]
            more == [i \in 0..(n + 1) |-> IF i = n + 1 THEN t ELSE left[i]]
<1>1. /\ n \in 0..n /\ 0 \in 0..n
      /\ \A i : i \in 0..(n + 1) <=> i \in 0..n \/ i = n + 1
      /\ \A i : i \in 1..(n + 1) <=> i \in 1..n \/ i = n + 1
      /\ \A i \in 1..n : i \in 0..n /\ i - 1 \in 0..n
      /\ (n + 1) - 1 = n /\ n + 1 \notin 0..n
  OBVIOUS
<1>2. Left(t, s, kept, n + 1)
  BY <1>1, LeftGrows DEF Keeping
<1>3. t = IF s[n + 1] \in kept THEN Append(left[n], s[n + 1]) ELSE left[n]
  OBVIOUS
<1>. HIDE DEF t
<1>4. /\ \A i \in 0..n : more[i] = left[i]
      /\ more[n + 1] = t
      /\ more = [i \in 0..(n + 1) |-> more[i]]
  BY <1>1
<1>. HIDE DEF more
<1>5. more[0] = <<>>
  BY <1>1, <1>4 DEF Keeping
<1>6. ASSUME NEW i \in 1..(n + 1)
      PROVE  more[i] = IF s[i] \in kept THEN Append(more[i - 1], s[i]) ELSE more[i - 1]
  <2>1. CASE i = n + 1
    BY <1>1, <1>3, <1>4, <2>1
  <2>2. CASE i \in 1..n
    BY <1>1, <1>4, <2>2 DEF Keeping
  <2>. QED  BY <1>1, <2>1, <2>2
<1>7. \A i \in 0..(n + 1) : Left(more[i], s, kept, i)
  BY <1>1, <1>2, <1>4 DEF Keeping
<1>. QED  BY <1>4, <1>5, <1>6, <1>7 DEF Keeping

LEMMA KeepingStarts ==
    ASSUME NEW s, NEW kept
    PROVE  \E left : Keeping(left, s, kept, 0)
<1>. DEFINE left == [i \in 0..0 |-> <<>>]
<1>1. /\ left = [i \in 0..0 |-> left[i]] /\ left[0] = <<>>
      /\ \A i \in 0..0 : i = 0
      /\ 1..0 = {}
  OBVIOUS
<1>. HIDE DEF left
<1>2. Left(<<>>, s, kept, 0)
  BY DEF Left
<1>. QED  BY <1>1, <1>2 DEF Keeping

LEMMA KeepingGoes ==
    ASSUME NEW n \in Nat, NEW s, NEW kept
    PROVE  \E left : Keeping(left, s, kept, n)
<1>. DEFINE Stuck == {m \in Nat : ~ \E left : Keeping(left, s, kept, m)}
<1>. SUFFICES Stuck = {}
  OBVIOUS
<1>. SUFFICES ASSUME Stuck # {} PROVE FALSE
  OBVIOUS
<1>1. \A m \in Nat : m \in Stuck <=> ~ \E left : Keeping(left, s, kept, m)
  OBVIOUS
<1>2. Stuck \in SUBSET Nat
  OBVIOUS
<1>. HIDE DEF Stuck
<1>3. PICK m \in Stuck : \A k \in Stuck : m <= k
  BY <1>2, LeastNatural
<1>4. m # 0 /\ m \in Nat
  BY <1>1, <1>2, <1>3, KeepingStarts
<1>5. m - 1 \in Nat /\ m - 1 \notin Stuck /\ (m - 1) + 1 = m
  BY <1>3, <1>4
<1>6. \E left : Keeping(left, s, kept, m)
  BY <1>1, <1>5, KeepingGrows
<1>. QED  BY <1>1, <1>4, <1>6

\* Keep leaves what it should.
LEMMA KeepLeaves ==
    ASSUME NEW E, NEW s \in Seq(E), NEW kept
    PROVE  Left(Pool!Keep(s, kept), s, kept, Len(s))
<1>. DEFINE n == Len(s)
            Step(g) == [i \in 0..n |->
                         IF i = 0 THEN <<>>
                         ELSE IF s[i] \in kept THEN Append(g[i - 1], s[i]) ELSE g[i - 1]]
            f == CHOOSE g : g = Step(g)
<1>1. n \in Nat
  BY LenProperties
<1>2. PICK left : Keeping(left, s, kept, n)
  BY <1>1, KeepingGoes
<1>3. Pool!Keep(s, kept) = f[n]
  BY DEF Pool!Keep
<1>. HIDE DEF n
<1>4. left = Step(left)
  <2>1. ASSUME NEW i \in 0..n
        PROVE  left[i] = (IF i = 0 THEN <<>>
                          ELSE IF s[i] \in kept THEN Append(left[i - 1], s[i])
                          ELSE left[i - 1])
    <3>1. i = 0 \/ (i # 0 /\ i \in 1..n)
      BY <1>1
    <3>2. left[0] = <<>> /\ \A k \in 1..n :
            left[k] = IF s[k] \in kept THEN Append(left[k - 1], s[k]) ELSE left[k - 1]
      BY <1>2 DEF Keeping
    <3>3. CASE i = 0
      BY <3>2, <3>3
    <3>4. CASE i # 0 /\ i \in 1..n
      BY <3>2, <3>4
    <3>. QED  BY <3>1, <3>3, <3>4
  <2>2. left = [i \in 0..n |-> left[i]]
    BY <1>2 DEF Keeping
  <2>3. Step(left) = [i \in 0..n |-> left[i]]
    BY <2>1
  <2>. QED  BY <2>2, <2>3
<1>5. f = Step(f)
  BY <1>4
<1>. HIDE DEF f
<1>6. f[0] = left[0]
  BY <1>1, <1>2, <1>5 DEF Keeping
<1>7. ASSUME NEW i \in 1..n, f[i - 1] = left[i - 1] PROVE f[i] = left[i]
  <2>1. i \in 0..n /\ i # 0
    BY <1>1
  <2>2. f[i] = IF s[i] \in kept THEN Append(f[i - 1], s[i]) ELSE f[i - 1]
    BY <1>5, <2>1
  <2>3. left[i] = IF s[i] \in kept THEN Append(left[i - 1], s[i]) ELSE left[i - 1]
    BY <1>2 DEF Keeping
  <2>. QED  BY <1>7, <2>2, <2>3
<1>8. \A i \in 0..n : f[i] = left[i]
  BY <1>1, <1>6, <1>7, SameRecursion, ZenonT(30)
<1>9. n \in 0..n
  BY <1>1
<1>. QED  BY <1>2, <1>3, <1>8, <1>9 DEF Keeping, n

\* The order and the elements of the sequence stay, and nothing is added.
LEMMA KeepKeeps ==
    ASSUME NEW E, NEW s \in Seq(E), NEW kept
    PROVE  /\ Pool!Keep(s, kept) \in Seq(E)
           /\ Len(Pool!Keep(s, kept)) <= Len(s)
           /\ Pool!Sorted(s) => Pool!Sorted(Pool!Keep(s, kept))
           /\ BagOf(Pool!Keep(s, kept)) = Part(BagOf(s), kept)
<1>. DEFINE n == Len(s)
            t == Pool!Keep(s, kept)
            m == Len(t)
<1>1. n \in Nat /\ DOMAIN s = 1..n /\ \A i \in 1..n : s[i] \in E
  BY LenProperties, ElementOfSeq
<1>0. Left(t, s, kept, n)
  BY KeepLeaves
<1>2. PICK q : /\ t \in Seq(kept)
               /\ \A i \in DOMAIN t : q[i] \in 1..n /\ t[i] = s[q[i]]
               /\ \A i, j \in DOMAIN t : i < j => q[i] < q[j]
               /\ \A j \in 1..n : s[j] \in kept => \E i \in DOMAIN t : q[i] = j
  BY <1>0 DEF Left
<1>3. m \in Nat /\ DOMAIN t = 1..m /\ t \in [1..m -> kept]
  BY <1>2, LenProperties
<1>. HIDE DEF n, t, m
<1>4. \A i, j \in 1..m : q[i] = q[j] => i = j
  <2>1. ASSUME NEW i \in 1..m, NEW j \in 1..m, i # j PROVE q[i] # q[j]
    <3>1. q[i] \in Int /\ q[j] \in Int
      BY <1>1, <1>2, <1>3
    <3>2. i < j \/ j < i
      BY <1>3, <2>1
    <3>. QED  BY <1>2, <1>3, <3>1, <3>2
  <2>. QED  BY <2>1
<1>5. t \in Seq(E)
  <2>1. \A i \in 1..m : t[i] \in E
    BY <1>1, <1>2, <1>3
  <2>2. t \in [1..m -> E]
    BY <1>3, <2>1
  <2>. QED  BY <1>3, <2>2, SeqDef
<1>6. m <= n
  <2>. DEFINE f == [i \in 1..m |-> q[i]]
              A == 1..m
              B == 1..n
  <2>1. f \in Injection(A, B)
    BY <1>2, <1>3, <1>4 DEF Injection, IsInjective
  <2>2. /\ IsFiniteSet(A) /\ Cardinality(A) = m
        /\ IsFiniteSet(B) /\ Cardinality(B) = n
    BY <1>1, <1>3, UpTo
  <2>. HIDE DEF f, A, B
  <2>. QED  BY <2>1, <2>2, FS_Injection
<1>7. Pool!Sorted(s) => Pool!Sorted(t)
  <2>1. ASSUME Pool!Sorted(s), NEW i \in DOMAIN t, NEW j \in DOMAIN t, i < j
        PROVE  t[i].priority >= t[j].priority
    BY <1>1, <1>2, <2>1 DEF Pool!Sorted
  <2>. QED  BY <2>1 DEF Pool!Sorted
<1>8. BagOf(t) = Part(BagOf(s), kept)
  <2>1. \A i \in DOMAIN t : q[i] \in DOMAIN s /\ t[i] = s[q[i]] /\ t[i] \in kept
    BY <1>1, <1>2, <1>3
  <2>2. \A i, j \in DOMAIN t : q[i] = q[j] => i = j
    BY <1>3, <1>4
  <2>3. \A j \in DOMAIN s : s[j] \in kept => \E i \in DOMAIN t : q[i] = j
    BY <1>1, <1>2
  <2>4. Chosen(q, s, t, kept)
    BY <2>1, <2>2, <2>3 DEF Chosen
  <2>. QED  BY <1>5, <2>4, BagOfChosen
<1>. QED  BY <1>5, <1>6, <1>7, <1>8 DEF t, m, n

\* A sorted order has the same entries.
LEMMA SortKeeps ==
    ASSUME NEW E, NEW s \in Seq(E), NEW t \in Pool!Sort(s)
    PROVE  t \in Seq(E) /\ Len(t) = Len(s) /\ Pool!Sorted(t) /\ BagOf(t) = BagOf(s)
<1>. DEFINE n == Len(s)
<1>1. n \in Nat /\ DOMAIN s = 1..n /\ \A i \in 1..n : s[i] \in E
  BY LenProperties, ElementOfSeq
<1>2. \A S, T : Pool!Bijection(S, T) = Bijection(S, T)
  BY DEF Pool!Bijection, Bijection, Pool!Injection, Injection, Pool!Surjection,
         Surjection, Pool!IsInjective, IsInjective
<1>3. PICK p \in Bijection(DOMAIN s, DOMAIN s) : t = [i \in DOMAIN s |-> s[p[i]]]
  BY <1>2 DEF Pool!Sort
<1>4. Pool!Sorted(t)
  BY DEF Pool!Sort
<1>5. /\ p \in [DOMAIN s -> DOMAIN s]
      /\ \A i, j \in DOMAIN s : p[i] = p[j] => i = j
      /\ \A j \in DOMAIN s : \E i \in DOMAIN s : p[i] = j
  BY <1>3 DEF Bijection, Injection, Surjection, IsInjective
<1>. HIDE DEF n
<1>6. t \in [1..n -> E]
  BY <1>1, <1>3, <1>5
<1>7. t \in Seq(E)
  BY <1>1, <1>6, SeqDef
<1>8. Len(t) = n
  BY <1>1, <1>6, <1>7, LenProperties
<1>9. BagOf(t) = Part(BagOf(s), E)
  <2>1. \A i \in DOMAIN t : p[i] \in DOMAIN s /\ t[i] = s[p[i]] /\ t[i] \in E
    BY <1>1, <1>3, <1>5, <1>6
  <2>2. \A i, j \in DOMAIN t : p[i] = p[j] => i = j
    BY <1>3, <1>5
  <2>3. \A j \in DOMAIN s : s[j] \in E => \E i \in DOMAIN t : p[i] = j
    BY <1>3, <1>5
  <2>4. Chosen(p, s, t, E)
    BY <2>1, <2>2, <2>3 DEF Chosen
  <2>. QED  BY <1>7, <2>4, BagOfChosen
<1>10. \A e \in DOMAIN BagOf(s) : e \in E
  BY <1>1 DEF BagOf
<1>11. BagOf(s) = [e \in DOMAIN BagOf(s) |-> BagOf(s)[e]]
  BY DEF BagOf
<1>12. BagOf(t) = BagOf(s)
  BY <1>9, <1>10, <1>11 DEF Part
<1>. QED  BY <1>4, <1>7, <1>8, <1>12 DEF n

-----------------------------------------------------------------------------
(* The sorted vector implements the bag *)

\* What cleanup leaves are the entries that have not expired.
LEMMA YoungIsKept ==
    ASSUME PoolInv, NEW age
    PROVE  /\ Pool!Young(pool, age) \in Seq(Pool!Entry)
           /\ Len(Pool!Young(pool, age)) <= Len(pool)
           /\ Pool!Sorted(Pool!Young(pool, age))
           /\ BagOf(Pool!Young(pool, age)) = Pool!P!Kept(age)
<1>1. pool \in Seq(Pool!Entry) /\ Pool!Sorted(pool)
  BY DEF PoolInv
<1>2. \A e \in DOMAIN BagOf(pool) : e \in Pool!Entry
  BY <1>1, ElementOfSeq, LenProperties DEF BagOf
<1>3. \A e \in DOMAIN BagOf(pool) :
        e \in Pool!Fresh(age) <=> time - e.timestamp <= age
  BY <1>2 DEF Pool!Fresh
<1>4. Pool!P!Kept(age) = Part(BagOf(pool), Pool!Fresh(age))
  BY <1>3, ContentsIs DEF Pool!P!Kept, Pool!P!BagToSet, Part
<1>. QED  BY <1>1, <1>4, KeepKeeps DEF Pool!Young

\* The vector is full when the bag is.
LEMMA FullIsFull ==
    ASSUME NEW s \in Seq(Pool!Entry)
    PROVE  Pool!P!Full(BagOf(s)) <=> Pool!isFull(s)
BY TicketsCount DEF Pool!P!Full, Pool!isFull

\* An addition is accepted, or refused for want of room.
LEMMA PoolAdds ==
    ASSUME PoolInv, NEW hash \in Hashes, NEW priority \in Priorities,
           Pool!addTransaction(hash, priority)
    PROVE  PoolInv' /\ Pool!P!Next
<1>. DEFINE entry == [hash |-> hash, timestamp |-> time, priority |-> priority]
            room == IF Pool!isFull(pool) THEN Pool!Young(pool, MaxAge) ELSE pool
<1>1. /\ IF Pool!isFull(room)
         THEN pool' = room /\ result' = <<"refused">>
         ELSE pool' \in Pool!Sort(Append(room, entry)) /\ result' = <<"added">>
      /\ time' = time
  BY DEF Pool!addTransaction
<1>2. entry \in Pool!Entry
  BY DEF PoolInv, Pool!Entry
<1>3. /\ pool \in Seq(Pool!Entry) /\ Len(pool) <= MaxSize /\ Pool!Sorted(pool)
      /\ time \in 0..MaxClock
  BY DEF PoolInv
<1>4. /\ room \in Seq(Pool!Entry) /\ Len(room) <= Len(pool) /\ Pool!Sorted(room)
      /\ BagOf(room) = IF Pool!P!Full(Pool!Contents)
                       THEN Pool!P!Kept(MaxAge) ELSE Pool!Contents
  BY <1>3, YoungIsKept, FullIsFull, ContentsIs, LenProperties
<1>5. Pool!isFull(room) => Pool!isFull(pool)
  BY <1>3
<1>6. Pool!P!Full(BagOf(room)) <=> Pool!isFull(room)
  BY <1>4, FullIsFull
<1>7. Pool!P!Full(Pool!Contents) <=> Pool!isFull(pool)
  BY <1>3, FullIsFull, ContentsIs
<1>. HIDE DEF entry, room
<1>8. Len(room) \in Nat /\ Len(pool) \in Nat
  BY <1>3, <1>4, LenProperties
<1>9. CASE Pool!isFull(room)
  <2>1. pool' = room /\ result' = <<"refused">>
    BY <1>1, <1>9
  <2>2. PoolInv'
    BY <1>1, <1>3, <1>4, <1>8, <2>1, PoolAssumption DEF PoolInv, Pool!Sorted, Pool!Entry
  <2>3. Pool!P!Refuse
    BY <1>4, <1>5, <1>6, <1>7, <1>9, <2>1, ContentsIs DEF Pool!P!Refuse
  <2>. QED  BY <1>1, <2>2, <2>3 DEF Pool!P!Next
<1>10. CASE ~Pool!isFull(room)
  <2>1. pool' \in Pool!Sort(Append(room, entry)) /\ result' = <<"added">>
    BY <1>1, <1>10
  <2>2. Append(room, entry) \in Seq(Pool!Entry) /\ Len(Append(room, entry)) = Len(room) + 1
    BY <1>2, <1>4, AppendProperties
  <2>3. /\ pool' \in Seq(Pool!Entry) /\ Len(pool') = Len(room) + 1 /\ Pool!Sorted(pool')
        /\ BagOf(pool') = BagOf(Append(room, entry))
    BY <2>1, <2>2, SortKeeps
  <2>4. Len(room) < MaxSize
    BY <1>8, <1>10, PoolAssumption DEF Pool!isFull
  <2>5. PoolInv'
    BY <1>1, <1>3, <1>8, <2>3, <2>4, PoolAssumption DEF PoolInv, Pool!Sorted, Pool!Entry
  <2>6. BagOf(pool') = Pool!P!(+)(BagOf(room), Pool!P!SetToBag({entry}))
    <3>1. \A x \in DOMAIN BagOf(room) \cup {entry} :
            /\ x \in DOMAIN Pool!P!SetToBag({entry}) <=> x = entry
            /\ x = entry => Pool!P!SetToBag({entry})[x] = 1
      BY DEF Pool!P!SetToBag
    <3>2. DOMAIN Pool!P!SetToBag({entry}) = {entry}
      BY DEF Pool!P!SetToBag
    <3>3. BagOf(Append(room, entry)) = Grown(BagOf(room), entry)
      BY <1>2, <1>4, BagGrows
    <3>. QED  BY <2>3, <3>1, <3>2, <3>3 DEF Pool!P!(+), Grown
  <2>7. Pool!P!Accept(entry, BagOf(room))
    BY <1>4, <1>6, <1>10, <2>1, <2>6, ContentsIs DEF Pool!P!Accept
  <2>8. BagOf(room) \in {Pool!Contents, Pool!P!Kept(MaxAge)}
    BY <1>4
  <2>. QED  BY <1>1, <1>2, <2>5, <2>7, <2>8 DEF Pool!P!Next
<1>. QED  BY <1>9, <1>10

\* What is handed out comes from the top.
LEMMA PoolServes ==
    ASSUME PoolInv, NEW count \in Counts, Pool!getHighestPriorityTransactions(count)
    PROVE  PoolInv' /\ Pool!P!Next
<1>. DEFINE len == Len(pool)
            n == IF count < len THEN count ELSE len
            served == [i \in 1..n |-> pool[i]]
            bag == BagOf(pool)
<1>1. /\ result' = [i \in 1..n |-> pool[i].hash]
      /\ pool' = pool /\ time' = time
  BY DEF Pool!getHighestPriorityTransactions
<1>2. /\ pool \in Seq(Pool!Entry) /\ len \in Nat /\ len <= MaxSize
      /\ DOMAIN pool = 1..len /\ Pool!Sorted(pool)
  BY LenProperties DEF PoolInv
<1>3. Pool!Contents = bag /\ Pool!Contents' = bag
  BY <1>1, ContentsIs
<1>4. Pool!P!Size(bag) = len
  BY <1>2, TicketsCount
<1>5. count \in Nat /\ MaxSize \in Nat
  BY PoolAssumption
<1>6. PoolInv'
  BY <1>1 DEF PoolInv, Pool!Sorted, Pool!Entry
<1>. HIDE DEF len, bag
<1>7. n \in 0..MaxSize /\ n <= len /\ n \in Nat
      /\ (IF n < Pool!P!Size(bag) THEN n ELSE Pool!P!Size(bag)) = n
  BY <1>2, <1>4, <1>5
<1>. HIDE DEF n
<1>8. \A i \in 1..n : i \in DOMAIN pool /\ served[i] = pool[i] /\ pool[i] \in DOMAIN bag
  BY <1>2, <1>7 DEF bag, BagOf
<1>9. served \in [1..n -> DOMAIN bag] /\ DOMAIN served = 1..n
  BY <1>8
<1>. HIDE DEF served
<1>10. \A e : Pool!P!Count(e, served) = Cardinality(Places(served, e))
  <2>1. \A S : Pool!P!Cardinality(S) = Cardinality(S)
    BY DEF Pool!P!Cardinality, Cardinality
  <2>. QED  BY <2>1 DEF Pool!P!Count, Places
<1>11. ASSUME NEW e \in DOMAIN bag
       PROVE  /\ Pool!P!Count(e, served) <= bag[e]
              /\ Pool!P!Count(e, served) < bag[e] =>
                   \A i \in 1..n : served[i].priority >= e.priority
  <2>1. /\ bag[e] = Cardinality(Places(pool, e)) /\ bag[e] \in Nat
        /\ IsFiniteSet(Places(pool, e))
    BY <1>2, PlacesAreFinite DEF bag
  <2>2. Places(served, e) \in SUBSET Places(pool, e)
    BY <1>8, <1>9 DEF Places
  <2>3. /\ IsFiniteSet(Places(served, e))
        /\ Cardinality(Places(served, e)) <= Cardinality(Places(pool, e))
        /\ Cardinality(Places(served, e)) \in Nat
    BY <2>1, <2>2, FS_Subset, FS_CardinalityType
  <2>4. ASSUME Pool!P!Count(e, served) < bag[e], NEW i \in 1..n
        PROVE  served[i].priority >= e.priority
    <3>1. Places(served, e) # Places(pool, e)
      BY <1>10, <2>1, <2>3, <2>4
    <3>2. PICK j \in Places(pool, e) : j \notin Places(served, e)
      BY <2>2, <3>1
    <3>3. j \in DOMAIN pool /\ pool[j] = e /\ j \notin 1..n
      BY <1>8, <1>9, <3>2 DEF Places
    <3>4. i \in DOMAIN pool /\ i < j
      BY <1>2, <1>7, <1>8, <3>3
    <3>. QED  BY <1>2, <1>8, <3>3, <3>4 DEF Pool!Sorted
  <2>. QED  BY <1>10, <2>1, <2>3, <2>4
<1>12. \A i, j \in 1..n : i < j => served[i].priority >= served[j].priority
  BY <1>2, <1>8 DEF Pool!Sorted
<1>13. result' = [i \in 1..n |-> served[i].hash]
  BY <1>1, <1>8
<1>14. Pool!P!Serve(n)
  BY <1>3, <1>7, <1>9, <1>11, <1>12, <1>13 DEF Pool!P!Serve, Pool!P!BagToSet
<1>. QED  BY <1>1, <1>6, <1>7, <1>14 DEF Pool!P!Next

LEMMA PoolRemoves ==
    ASSUME PoolInv, NEW hash \in Hashes, Pool!removeTransaction(hash)
    PROVE  PoolInv' /\ Pool!P!Next
<1>. DEFINE kept == {entry \in Pool!Entry : entry.hash # hash}
            bag == BagOf(pool)
<1>1. pool' = Pool!Keep(pool, kept) /\ result' = <<>> /\ time' = time
  BY DEF Pool!removeTransaction
<1>2. /\ pool \in Seq(Pool!Entry) /\ Len(pool) <= MaxSize /\ Pool!Sorted(pool)
      /\ time \in 0..MaxClock
  BY DEF PoolInv
<1>3. \A e \in DOMAIN bag : e \in kept <=> e.hash # hash
  <2>1. \A e \in DOMAIN bag : e \in Pool!Entry
    BY <1>2, ElementOfSeq, LenProperties DEF BagOf
  <2>. QED  BY <2>1
<1>. HIDE DEF kept
<1>4. /\ pool' \in Seq(Pool!Entry) /\ Len(pool') <= Len(pool) /\ Pool!Sorted(pool')
      /\ BagOf(pool') = Part(bag, kept)
  BY <1>1, <1>2, KeepKeeps
<1>5. BagOf(pool') = [e \in {e \in DOMAIN bag : e.hash # hash} |-> bag[e]]
  BY <1>3, <1>4 DEF Part
<1>6. Len(pool) \in Nat /\ Len(pool') \in Nat
  BY <1>2, <1>4, LenProperties
<1>7. PoolInv'
  BY <1>1, <1>2, <1>4, <1>6, PoolAssumption DEF PoolInv, Pool!Sorted, Pool!Entry
<1>8. Pool!P!Remove(hash)
  BY <1>1, <1>5, ContentsIs DEF Pool!P!Remove, Pool!P!BagToSet
<1>. QED  BY <1>1, <1>7, <1>8 DEF Pool!P!Next

LEMMA PoolExpires ==
    ASSUME PoolInv, NEW age \in Ages, Pool!cleanup(age)
    PROVE  PoolInv' /\ Pool!P!Next
<1>1. pool' = Pool!Young(pool, age) /\ result' = <<>> /\ time' = time
  BY DEF Pool!cleanup
<1>2. /\ pool \in Seq(Pool!Entry) /\ Len(pool) <= MaxSize /\ time \in 0..MaxClock
  BY DEF PoolInv
<1>3. /\ pool' \in Seq(Pool!Entry) /\ Len(pool') <= Len(pool) /\ Pool!Sorted(pool')
      /\ BagOf(pool') = Pool!P!Kept(age)
  BY <1>1, YoungIsKept
<1>4. Len(pool) \in Nat /\ Len(pool') \in Nat
  BY <1>2, <1>3, LenProperties
<1>5. PoolInv'
  BY <1>1, <1>2, <1>3, <1>4, PoolAssumption DEF PoolInv, Pool!Sorted, Pool!Entry
<1>6. Pool!P!Expire(age)
  BY <1>1, <1>3, ContentsIs DEF Pool!P!Expire
<1>. QED  BY <1>1, <1>5, <1>6 DEF Pool!P!Next

LEMMA PoolNext ==
    ASSUME PoolInv, Pool!Next
    PROVE  PoolInv' /\ Pool!P!Next
<1>1. CASE \E hash \in Hashes, priority \in Priorities :
             Pool!addTransaction(hash, priority)
  BY <1>1, PoolAdds
<1>2. CASE \E count \in Counts : Pool!getHighestPriorityTransactions(count)
  BY <1>2, PoolServes
<1>3. CASE \E hash \in Hashes : Pool!removeTransaction(hash)
  BY <1>3, PoolRemoves
<1>4. CASE \E maxAgeSeconds \in Ages : Pool!cleanup(maxAgeSeconds)
  BY <1>4, PoolExpires
<1>5. CASE Pool!ClockMoves
  <2>1. time' \in 0..MaxClock /\ pool' = pool /\ result' = result
    BY <1>5 DEF Pool!ClockMoves
  <2>2. time' \in Nat
    BY <2>1, PoolAssumption
  <2>3. PoolInv'
    BY <2>1 DEF PoolInv, Pool!Sorted, Pool!Entry
  <2>4. Pool!Contents' = Pool!Contents
    BY <2>1, ContentsIs
  <2>. QED  BY <2>1, <2>2, <2>3, <2>4 DEF Pool!P!Next
<1>. QED  BY <1>1, <1>2, <1>3, <1>4, <1>5 DEF Pool!Next

LEMMA PoolStart == Pool!Init => PoolInv /\ Pool!P!Init
<1>. SUFFICES ASSUME Pool!Init PROVE PoolInv /\ Pool!P!Init
  OBVIOUS
<1>1. pool = <<>> /\ time \in 0..MaxClock /\ result = <<>>
  BY DEF Pool!Init
<1>2. PoolInv
  BY <1>1, EmptySeq, PoolAssumption DEF PoolInv, Pool!Sorted
<1>3. BagOf(<<>>) = <<>>
  BY DEF BagOf
<1>4. Pool!P!EmptyBag = <<>>
  BY DEF Pool!P!EmptyBag, Pool!P!SetToBag
<1>5. time \in Nat
  BY <1>1, PoolAssumption
<1>. QED  BY <1>1, <1>2, <1>3, <1>4, <1>5, ContentsIs DEF Pool!P!Init

-----------------------------------------------------------------------------
(* The tree of hashes *)

LEMMA HalfOf ==
    ASSUME NEW n \in Nat
    PROVE  /\ Root!Half(n) \in Nat
           /\ 2 * Root!Half(n) >= n
           /\ 2 * Root!Half(n) <= n + 1
BY DEF Root!Half

\* The widths of the levels above n leaves, up to the height m.
Widths(f, n, m) ==
    f = [k \in 0..m |-> IF k = 0 THEN n ELSE Root!Half(f[k - 1])]

LEMMA WidthsGo ==
    ASSUME NEW n \in Nat, NEW m \in Nat
    PROVE  \E f : Widths(f, n, m)
<1>. DEFINE Stuck == {k \in Nat : ~ \E f : Widths(f, n, k)}
<1>. SUFFICES ASSUME Stuck # {} PROVE FALSE
  OBVIOUS
<1>1. \A k \in Nat : k \in Stuck <=> ~ \E f : Widths(f, n, k)
  OBVIOUS
<1>2. Stuck \in SUBSET Nat
  OBVIOUS
<1>. HIDE DEF Stuck
<1>3. PICK k \in Stuck : \A l \in Stuck : k <= l
  BY <1>2, LeastNatural
<1>4. k \in Nat /\ k # 0
  <2>. DEFINE f == [i \in 0..0 |-> n]
  <2>1. \A i \in 0..0 : i = 0
    OBVIOUS
  <2>2. f = [i \in 0..0 |-> IF i = 0 THEN n ELSE Root!Half(f[i - 1])]
    BY <2>1
  <2>. HIDE DEF f
  <2>3. Widths(f, n, 0)
    BY <2>2 DEF Widths
  <2>. QED  BY <1>1, <1>2, <1>3, <2>3
<1>5. k - 1 \in Nat /\ k - 1 \notin Stuck
  BY <1>3, <1>4
<1>6. PICK f : Widths(f, n, k - 1)
  BY <1>1, <1>5
<1>. DEFINE g == [i \in 0..k |-> IF i = k THEN Root!Half(f[k - 1]) ELSE f[i]]
<1>7. /\ \A i : i \in 0..k <=> i = k \/ i \in 0..(k - 1)
      /\ k \notin 0..(k - 1) /\ k - 1 \in 0..(k - 1)
      /\ \A i \in 0..(k - 1) : i # 0 => i - 1 \in 0..(k - 1)
  BY <1>4
<1>8. /\ \A i \in 0..(k - 1) : g[i] = f[i]
      /\ g[k] = Root!Half(f[k - 1])
      /\ g = [i \in 0..k |-> g[i]]
  BY <1>7
<1>. HIDE DEF g
<1>9. \A i \in 0..(k - 1) : f[i] = IF i = 0 THEN n ELSE Root!Half(f[i - 1])
  BY <1>6 DEF Widths
<1>10. ASSUME NEW i \in 0..k PROVE g[i] = IF i = 0 THEN n ELSE Root!Half(g[i - 1])
  <2>1. CASE i = k
    BY <1>4, <1>7, <1>8, <2>1
  <2>2. CASE i \in 0..(k - 1)
    <3>1. CASE i = 0
      BY <1>8, <1>9, <2>2, <3>1
    <3>2. CASE i # 0
      BY <1>7, <1>8, <1>9, <2>2, <3>2
    <3>. QED  BY <3>1, <3>2
  <2>. QED  BY <1>7, <2>1, <2>2
<1>11. Widths(g, n, k)
  BY <1>8, <1>10 DEF Widths
<1>. QED  BY <1>1, <1>4, <1>11

LEMMA WidthIs ==
    ASSUME NEW n \in Nat, NEW m \in Nat, NEW h \in 0..m, NEW f, Widths(f, n, m)
    PROVE  Root!Width(n, h) = f[h]
<1>. DEFINE g == CHOOSE g : Widths(g, n, h)
<1>1. h \in Nat /\ \A i \in 0..h : i \in 0..m
  OBVIOUS
<1>2. Widths(g, n, h)
  BY <1>1, WidthsGo
<1>3. Root!Width(n, h) = g[h]
  BY DEF Root!Width, Widths
<1>. HIDE DEF g
<1>4. \A i \in 0..h : g[i] = IF i = 0 THEN n ELSE Root!Half(g[i - 1])
  BY <1>2 DEF Widths
<1>5. \A i \in 0..h : f[i] = IF i = 0 THEN n ELSE Root!Half(f[i - 1])
  BY <1>1 DEF Widths
<1>6. g[0] = f[0]
  BY <1>1, <1>4, <1>5
<1>7. ASSUME NEW i \in 1..h, g[i - 1] = f[i - 1] PROVE g[i] = f[i]
  <2>1. i \in 0..h /\ i # 0
    BY <1>1
  <2>. QED  BY <1>4, <1>5, <1>7, <2>1
<1>8. \A i \in 0..h : g[i] = f[i]
  BY <1>1, <1>6, <1>7, SameRecursion
<1>. QED  BY <1>1, <1>3, <1>8

\* A level is half as wide as the one below it.
LEMMA WidthHalves ==
    ASSUME NEW n \in Nat, NEW h \in Nat
    PROVE  /\ Root!Width(n, 0) = n
           /\ Root!Width(n, h + 1) = Root!Half(Root!Width(n, h))
<1>1. PICK f : Widths(f, n, h + 1)
  BY WidthsGo
<1>2. /\ 0 \in 0..(h + 1) /\ h \in 0..(h + 1) /\ h + 1 \in 0..(h + 1) /\ h + 1 \in Nat
      /\ h + 1 # 0 /\ (h + 1) - 1 = h
  OBVIOUS
<1>3. /\ Root!Width(n, 0) = f[0]
      /\ Root!Width(n, h) = f[h]
      /\ Root!Width(n, h + 1) = f[h + 1]
  BY <1>1, <1>2, WidthIs
<1>4. \A k \in 0..(h + 1) : f[k] = IF k = 0 THEN n ELSE Root!Half(f[k - 1])
  BY <1>1 DEF Widths
<1>5. f[0] = n
  BY <1>2, <1>4
<1>6. f[h + 1] = Root!Half(f[h])
  BY <1>2, <1>4
<1>. QED  BY <1>3, <1>5, <1>6

\* The levels get narrower until one node is left.
LEMMA WidthShrinks ==
    ASSUME NEW n \in Nat, n # 0, NEW h \in Nat
    PROVE  LET width == Root!Width(n, h)
           IN  width \in Nat /\ width # 0 /\ (width = 1 \/ width + h <= n)
<1>. DEFINE Shrunk(k) ==
              /\ Root!Width(n, k) \in Nat /\ Root!Width(n, k) # 0
              /\ Root!Width(n, k) = 1 \/ Root!Width(n, k) + k <= n
            Wide == {k \in Nat : ~Shrunk(k)}
<1>. SUFFICES Wide = {}
  OBVIOUS
<1>. SUFFICES ASSUME Wide # {} PROVE FALSE
  OBVIOUS
<1>1. \A k \in Nat : k \in Wide <=> ~Shrunk(k)
  OBVIOUS
<1>2. Wide \in SUBSET Nat
  OBVIOUS
<1>. HIDE DEF Wide
<1>3. PICK k \in Wide : \A l \in Wide : k <= l
  BY <1>2, LeastNatural
<1>4. Shrunk(0)
  BY WidthHalves
<1>5. k \in Nat /\ k # 0
  BY <1>1, <1>2, <1>3, <1>4
<1>6. k - 1 \in Nat /\ (k - 1) + 1 = k /\ Shrunk(k - 1)
  BY <1>1, <1>3, <1>5
<1>. DEFINE w == Root!Width(n, k - 1)
            v == Root!Width(n, k)
<1>7. v = Root!Half(w)
  BY <1>6, WidthHalves
<1>8. w \in Nat /\ w # 0 /\ (w = 1 \/ w + (k - 1) <= n)
  BY <1>6
<1>. HIDE DEF w, v, Shrunk
<1>9. v \in Nat /\ v # 0 /\ (v = 1 \/ v + k <= n)
  <2>1. v \in Nat /\ 2 * v >= w /\ 2 * v <= w + 1
    BY <1>7, <1>8, HalfOf
  <2>. QED  BY <1>5, <1>8, <2>1
<1>10. Shrunk(k)
  BY <1>9 DEF Shrunk, v
<1>. QED  BY <1>1, <1>5, <1>3, <1>10

LEMMA WidthBounds ==
    ASSUME NEW n \in Nat, n # 0, NEW h \in Nat
    PROVE  /\ Root!Width(n, h) \in Nat
           /\ Root!Width(n, h) # 0
           /\ Root!Width(n, h) <= n
<1>. DEFINE w == Root!Width(n, h)
<1>1. w \in Nat /\ w # 0 /\ (w = 1 \/ w + h <= n)
  BY WidthShrinks
<1>. HIDE DEF w
<1>2. w \in Nat /\ w # 0 /\ w <= n
  BY <1>1
<1>. QED  BY <1>2 DEF w

LEMMA HeightIs ==
    ASSUME NEW n \in Nat, n # 0
    PROVE  /\ Root!Height(n) \in 0..n
           /\ Root!Width(n, Root!Height(n)) = 1
           /\ \A k \in 0..(Root!Height(n) - 1) : Root!Width(n, k) > 1
<1>. DEFINE Single == {h \in Nat : Root!Width(n, h) = 1}
<1>1. n \in Single
  BY WidthShrinks
<1>2. Single \in SUBSET Nat /\ Single # {}
  BY <1>1
<1>3. \A h \in Nat : h \in Single <=> Root!Width(n, h) = 1
  OBVIOUS
<1>. HIDE DEF Single
<1>4. PICK h \in Single : \A k \in Single : h <= k
  BY <1>2, LeastNatural
<1>5. h \in Nat /\ h \in 0..n /\ Root!Width(n, h) = 1
  BY <1>1, <1>2, <1>3, <1>4
<1>6. ASSUME NEW k \in 0..(h - 1) PROVE Root!Width(n, k) > 1
  <2>1. k \in Nat /\ k < h
    BY <1>5
  <2>2. Root!Width(n, k) # 1
    BY <1>3, <1>4, <1>5, <2>1
  <2>3. Root!Width(n, k) \in Nat /\ Root!Width(n, k) # 0
    BY <2>1, WidthShrinks
  <2>. QED  BY <2>2, <2>3
<1>. DEFINE First(i) == Root!Width(n, i) = 1 /\ \A k \in 0..(i - 1) : Root!Width(n, k) > 1
<1>7. Root!Height(n) = CHOOSE i \in 0..n : First(i)
  BY DEF Root!Height
<1>8. First(h)
  BY <1>5, <1>6
<1>. HIDE DEF First
<1>9. Root!Height(n) \in 0..n /\ First(Root!Height(n))
  BY <1>5, <1>7, <1>8
<1>. QED  BY <1>9 DEF First

\* A node beyond the last one of its level stands for the last one.
Clamp(i, width) == IF i < width THEN i ELSE width

\* The node above two others.
NodeOver(a, b) == Root!doubleHash(a \o b)

\* The level at height h, from the one below it.
Above(below, list, h) ==
    [i \in 1..(2 * Len(list)) |->
       LET j == Clamp(i, Root!Width(Len(list), h))
       IN  IF h = 0 THEN list[j] ELSE NodeOver(below[2 * j - 1], below[2 * j])]

LevelsTo(f, list, m) == f = [h \in 0..m |-> Above(f[h - 1], list, h)]

LEMMA LevelsGo ==
    ASSUME NEW list, NEW m \in Nat
    PROVE  \E f : LevelsTo(f, list, m)
<1>. DEFINE Stuck == {k \in Nat : ~ \E f : LevelsTo(f, list, k)}
<1>. SUFFICES ASSUME Stuck # {} PROVE FALSE
  OBVIOUS
<1>1. \A k \in Nat : k \in Stuck <=> ~ \E f : LevelsTo(f, list, k)
  OBVIOUS
<1>2. Stuck \in SUBSET Nat
  OBVIOUS
<1>. HIDE DEF Stuck
<1>3. PICK k \in Stuck : \A l \in Stuck : k <= l
  BY <1>2, LeastNatural
<1>4. ASSUME NEW a, NEW b PROVE Above(a, list, 0) = Above(b, list, 0)
  BY DEF Above
<1>5. k \in Nat /\ k # 0
  <2>. DEFINE f == [i \in 0..0 |-> Above(<<>>, list, 0)]
  <2>1. \A i \in 0..0 : i = 0
    OBVIOUS
  <2>2. f = [i \in 0..0 |-> Above(f[i - 1], list, i)]
    <3>1. Above(f[0 - 1], list, 0) = Above(<<>>, list, 0)
      BY <1>4
    <3>. QED  BY <2>1, <3>1
  <2>. HIDE DEF f
  <2>3. LevelsTo(f, list, 0)
    BY <2>2 DEF LevelsTo
  <2>. QED  BY <1>1, <1>2, <1>3, <2>3
<1>6. k - 1 \in Nat /\ k - 1 \notin Stuck
  BY <1>3, <1>5
<1>7. PICK f : LevelsTo(f, list, k - 1)
  BY <1>1, <1>6
<1>. DEFINE g == [i \in 0..k |-> IF i = k THEN Above(f[k - 1], list, k) ELSE f[i]]
<1>8. /\ \A i : i \in 0..k <=> i = k \/ i \in 0..(k - 1)
      /\ k \notin 0..(k - 1) /\ k - 1 \in 0..(k - 1)
      /\ \A i \in 0..(k - 1) : i # 0 => i - 1 \in 0..(k - 1)
  BY <1>5
<1>9. /\ \A i \in 0..(k - 1) : g[i] = f[i]
      /\ g[k] = Above(f[k - 1], list, k)
      /\ g = [i \in 0..k |-> g[i]]
  BY <1>8
<1>. HIDE DEF g
<1>10. \A i \in 0..(k - 1) : f[i] = Above(f[i - 1], list, i)
  BY <1>7 DEF LevelsTo
<1>11. ASSUME NEW i \in 0..k PROVE g[i] = Above(g[i - 1], list, i)
  <2>1. CASE i = k
    BY <1>8, <1>9, <2>1
  <2>2. CASE i \in 0..(k - 1)
    <3>1. CASE i = 0
      BY <1>4, <1>9, <1>10, <2>2, <3>1
    <3>2. CASE i # 0
      BY <1>8, <1>9, <1>10, <2>2, <3>2
    <3>. QED  BY <3>1, <3>2
  <2>. QED  BY <1>8, <2>1, <2>2
<1>12. LevelsTo(g, list, k)
  BY <1>9, <1>11 DEF LevelsTo
<1>. QED  BY <1>1, <1>5, <1>12

\* L holds the levels of a tree over list.
Tree(L, list) ==
    LET n == Len(list)
        last(h) == Root!Width(n, h)
    IN  /\ \A i \in 1..n : L[0][i] = list[i]
        /\ \A h \in 1..Root!Height(n) : \A i \in 1..last(h) :
             L[h][i] = NodeOver(L[h - 1][2 * i - 1], L[h - 1][2 * i])
        /\ \A h \in 0..Root!Height(n) : \A i \in last(h)..(2 * n) :
             L[h][i] = L[h][last(h)]

LEMMA LevelsAreTree ==
    ASSUME NEW list, Len(list) \in Nat, Len(list) # 0
    PROVE  Tree(Root!Levels(list), list)
<1>. DEFINE n == Len(list)
            H == Root!Height(n)
            L == CHOOSE f : LevelsTo(f, list, H)
<1>1. H \in Nat
  BY HeightIs
<1>2. LevelsTo(L, list, H)
  BY <1>1, LevelsGo
<1>3. Root!Levels(list) = L
  BY DEF Root!Levels, NodeOver, LevelsTo, Above, Clamp
<1>. HIDE DEF L
<1>4. \A h \in 0..H : L[h] = Above(L[h - 1], list, h)
  BY <1>2 DEF LevelsTo
<1>. HIDE DEF H, n
<1>5. n \in Nat /\ n # 0
  BY DEF n
<1>6. ASSUME NEW h \in 0..H, NEW i \in 1..(2 * n)
      PROVE  LET j == Clamp(i, Root!Width(n, h))
             IN  L[h][i] = IF h = 0 THEN list[j]
                           ELSE NodeOver(L[h - 1][2 * j - 1], L[h - 1][2 * j])
  <2>1. L[h] = Above(L[h - 1], list, h)
    BY <1>4
  <2>. QED  BY <2>1 DEF Above, n
<1>7. ASSUME NEW h \in 0..H
      PROVE  /\ h \in Nat
             /\ Root!Width(n, h) \in Nat /\ Root!Width(n, h) # 0
             /\ Root!Width(n, h) <= n
  <2>1. h \in Nat
    BY <1>1
  <2>. QED  BY <1>5, <2>1, WidthBounds
<1>8. ASSUME NEW i \in 1..n PROVE L[0][i] = list[i]
  <2>1. 0 \in 0..H /\ i \in 1..(2 * n)
    BY <1>1, <1>5
  <2>2. Root!Width(n, 0) = n
    BY <1>5, WidthHalves
  <2>3. Clamp(i, n) = i
    BY <1>5 DEF Clamp
  <2>. QED  BY <1>6, <2>1, <2>2, <2>3
<1>9. ASSUME NEW h \in 1..H, NEW i \in 1..Root!Width(n, h)
      PROVE  L[h][i] = NodeOver(L[h - 1][2 * i - 1], L[h - 1][2 * i])
  <2>1. h \in 0..H /\ h # 0
    BY <1>1
  <2>2. i \in 1..(2 * n) /\ Clamp(i, Root!Width(n, h)) = i
    BY <1>5, <1>7, <2>1 DEF Clamp
  <2>. QED  BY <1>6, <2>1, <2>2
<1>10. ASSUME NEW h \in 0..H, NEW i \in Root!Width(n, h)..(2 * n)
       PROVE  L[h][i] = L[h][Root!Width(n, h)]
  <2>. DEFINE w == Root!Width(n, h)
  <2>1. w \in Nat /\ w # 0 /\ w <= n
    BY <1>7
  <2>2. i \in w..(2 * n)
    BY <1>10
  <2>. HIDE DEF w
  <2>3. i \in 1..(2 * n) /\ w \in 1..(2 * n)
    BY <1>5, <2>1, <2>2
  <2>4. Clamp(i, w) = Clamp(w, w)
    BY <2>1, <2>2 DEF Clamp
  <2>. QED  BY <1>6, <2>3, <2>4, ZenonT(30) DEF w
<1>. QED  BY <1>3, <1>8, <1>9, <1>10 DEF Tree, H, n

\* The texts of a list are all of one length.
TextsOf(list, length) ==
    \A i \in 1..Len(list) : IsText(list[i]) /\ Len(list[i]) = length

\* A node is a text of one piece.
LEMMA NodeIsText ==
    ASSUME NEW a, NEW b
    PROVE  IsText(NodeOver(a, b)) /\ Len(NodeOver(a, b)) = 1
<1>. DEFINE t == Root!hash(a \o b)
<1>1. NodeOver(a, b) = <<t>>
  BY DEF NodeOver, Root!doubleHash, Root!hash
<1>. HIDE DEF t
<1>2. Len(<<t>>) = 1 /\ <<t>> = [i \in 1..1 |-> <<t>>[i]]
  OBVIOUS
<1>. QED  BY <1>1, <1>2 DEF IsText

\* Two nodes that are the same are over the same texts, if these are of one length.
LEMMA NodesDiffer ==
    ASSUME NEW a, IsText(a), NEW b, IsText(b), NEW c, IsText(c), NEW d, IsText(d),
           Len(a) = Len(c), NodeOver(a, b) = NodeOver(c, d)
    PROVE  a = c /\ b = d
<1>. DEFINE S == {a[i] : i \in 1..Len(a)} \cup {b[i] : i \in 1..Len(b)}
                   \cup {c[i] : i \in 1..Len(c)} \cup {d[i] : i \in 1..Len(d)}
<1>1. /\ \A i \in 1..Len(a) : a[i] \in S
      /\ \A i \in 1..Len(b) : b[i] \in S
      /\ \A i \in 1..Len(c) : c[i] \in S
      /\ \A i \in 1..Len(d) : d[i] \in S
  OBVIOUS
<1>. HIDE DEF S
<1>2. a \in Seq(S) /\ b \in Seq(S) /\ c \in Seq(S) /\ d \in Seq(S)
  BY <1>1, TextIsSeq
<1>3. a \o b = c \o d
  <2>. DEFINE t == a \o b
              u == c \o d
  <2>1. <<<<t>>>> = <<<<u>>>>
    BY DEF NodeOver, Root!doubleHash, Root!hash
  <2>. HIDE DEF t, u
  <2>2. t = u
    BY <2>1
  <2>. QED  BY <2>2 DEF t, u
<1>. QED  BY <1>2, <1>3, CutOnce

\* Below the root of a list of texts of one length, all nodes of a level are texts
\* of one length.
LEMMA LevelOfTexts ==
    ASSUME NEW list, Len(list) \in Nat, Len(list) # 0, NEW length, TextsOf(list, length),
           NEW h \in 0..Root!Height(Len(list)), NEW i \in 1..(2 * Len(list))
    PROVE  LET node == Root!Levels(list)[h][i]
           IN  IsText(node) /\ Len(node) = IF h = 0 THEN length ELSE 1
<1>. DEFINE n == Len(list)
            L == Root!Levels(list)
            w == Root!Width(n, h)
            H == Root!Height(n)
            l == IF h = 0 THEN length ELSE 1
<1>1. Tree(L, list)
  BY LevelsAreTree
<1>2. H \in Nat /\ h \in 0..H
  BY HeightIs
<1>3. w \in Nat /\ w # 0 /\ w <= n
  <2>1. h \in Nat
    BY <1>2
  <2>. QED  BY <2>1, WidthBounds
<1>4. ASSUME NEW j \in 1..w PROVE IsText(L[h][j]) /\ Len(L[h][j]) = l
  <2>1. CASE h = 0
    <3>1. w = n
      BY <2>1, WidthHalves
    <3>2. L[0][j] = list[j]
      BY <1>1, <3>1 DEF Tree
    <3>. QED  BY <2>1, <3>1, <3>2 DEF TextsOf
  <2>2. CASE h # 0
    <3>1. h \in 1..H
      BY <1>2, <2>2
    <3>2. L[h][j] = NodeOver(L[h - 1][2 * j - 1], L[h - 1][2 * j])
      BY <1>1, <3>1 DEF Tree
    <3>. QED  BY <2>2, <3>2, NodeIsText
  <2>. QED  BY <2>1, <2>2
<1>5. w \in 1..w
  BY <1>3
<1>6. i \in 1..w \/ i \in w..(2 * n)
  <2>. HIDE DEF w
  <2>. QED  BY <1>3
<1>7. i \in w..(2 * n) => L[h][i] = L[h][w]
  BY <1>1, <1>2 DEF Tree
<1>. QED  BY <1>4, <1>5, <1>6, <1>7

\* What a node of one tree is, a node of another tree is too.
Covered(a, b, h) ==
    \A i \in 1..Root!Width(Len(a), h) :
        \E k \in 1..Root!Width(Len(b), h) :
            /\ Root!Levels(a)[h][i] = Root!Levels(b)[h][k]
            /\ i <= Root!Width(Len(b), h) => k = i

\* A level has the nodes of the one below it, by pairs.
LEMMA CoveredBelow ==
    ASSUME NEW a, Len(a) \in Nat, Len(a) # 0, NEW b, Len(b) \in Nat, Len(b) # 0,
           NEW length, TextsOf(a, length), TextsOf(b, length),
           Root!Height(Len(a)) = Root!Height(Len(b)),
           NEW h \in Nat, h + 1 <= Root!Height(Len(a)), Covered(a, b, h + 1)
    PROVE  Covered(a, b, h)
<1>. DEFINE A == Root!Levels(a)
            B == Root!Levels(b)
            v == Root!Width(Len(a), h)
            w == Root!Width(Len(b), h)
            v2 == Root!Width(Len(a), h + 1)
            w2 == Root!Width(Len(b), h + 1)
<1>1. /\ v \in Nat /\ v # 0 /\ w \in Nat /\ w # 0 /\ w <= Len(b)
      /\ v2 \in Nat /\ v2 # 0 /\ w2 \in Nat /\ w2 # 0
  <2>1. h + 1 \in Nat
    OBVIOUS
  <2>. QED  BY <2>1, WidthBounds
<1>2. /\ 2 * v2 >= v /\ 2 * v2 <= v + 1
      /\ 2 * w2 >= w /\ 2 * w2 <= w + 1
  BY <1>1, WidthHalves, HalfOf
<1>3. Tree(A, a) /\ Tree(B, b)
  BY LevelsAreTree
<1>4. /\ h + 1 \in 1..Root!Height(Len(a)) /\ (h + 1) - 1 = h
      /\ h + 1 \in 1..Root!Height(Len(b)) /\ h \in 0..Root!Height(Len(b))
      /\ h \in 0..Root!Height(Len(a)) /\ v <= Len(a)
  <2>1. v <= Len(a)
    BY WidthBounds
  <2>. QED  BY <2>1, HeightIs
<1>5. /\ \A i \in 1..(2 * Len(a)), k \in 1..(2 * Len(b)) :
           IsText(A[h][i]) /\ IsText(B[h][k]) /\ Len(A[h][i]) = Len(B[h][k])
  <2>. DEFINE l == IF h = 0 THEN length ELSE 1
  <2>1. \A i \in 1..(2 * Len(a)) : IsText(A[h][i]) /\ Len(A[h][i]) = l
    BY <1>4, LevelOfTexts
  <2>2. \A i \in 1..(2 * Len(b)) : IsText(B[h][i]) /\ Len(B[h][i]) = l
    BY <1>4, LevelOfTexts
  <2>. HIDE DEF A, B, l
  <2>. QED  BY <2>1, <2>2
<1>. HIDE DEF A, B
<1>6. /\ \A i \in 1..v2 : A[h + 1][i] = NodeOver(A[h][2 * i - 1], A[h][2 * i])
      /\ \A i \in 1..w2 : B[h + 1][i] = NodeOver(B[h][2 * i - 1], B[h][2 * i])
      /\ \A i \in w..(2 * Len(b)) : B[h][i] = B[h][w]
  BY <1>3, <1>4, SMTT(30) DEF Tree
<1>7. \A i \in 1..v2 : \E k \in 1..w2 : A[h + 1][i] = B[h + 1][k] /\ (i <= w2 => k = i)
  BY DEF Covered, A, B
<1>. HIDE DEF v, w, v2, w2
<1>8. ASSUME NEW i \in 1..v
      PROVE  \E k \in 1..w : A[h][i] = B[h][k] /\ (i <= w => k = i)
  <2>1. PICK p \in 1..v2 : i = 2 * p - 1 \/ i = 2 * p
    <3>1. (i + 1) \div 2 \in 1..v2
          /\ (i = 2 * ((i + 1) \div 2) - 1 \/ i = 2 * ((i + 1) \div 2))
      BY <1>1, <1>2
    <3>. QED  BY <3>1
  <2>2. PICK q \in 1..w2 : A[h + 1][p] = B[h + 1][q] /\ (p <= w2 => q = p)
    BY <1>7
  <2>3. A[h][2 * p - 1] = B[h][2 * q - 1] /\ A[h][2 * p] = B[h][2 * q]
    <3>1. NodeOver(A[h][2 * p - 1], A[h][2 * p]) = NodeOver(B[h][2 * q - 1], B[h][2 * q])
      BY <1>6, <2>2
    <3>2. 2 * p - 1 \in 1..(2 * Len(a)) /\ 2 * p \in 1..(2 * Len(a))
      BY <1>1, <1>2, <1>4
    <3>3. 2 * q - 1 \in 1..(2 * Len(b)) /\ 2 * q \in 1..(2 * Len(b))
      BY <1>1, <1>2
    <3>4. /\ IsText(A[h][2 * p - 1]) /\ IsText(A[h][2 * p])
          /\ IsText(B[h][2 * q - 1]) /\ IsText(B[h][2 * q])
          /\ Len(A[h][2 * p - 1]) = Len(B[h][2 * q - 1])
      BY <1>5, <3>2, <3>3
    <3>. DEFINE c == A[h][2 * p - 1]
                d == A[h][2 * p]
                e == B[h][2 * q - 1]
                f == B[h][2 * q]
    <3>5. /\ IsText(c) /\ IsText(d) /\ IsText(e) /\ IsText(f) /\ Len(c) = Len(e)
          /\ NodeOver(c, d) = NodeOver(e, f)
      BY <3>1, <3>4
    <3>. HIDE DEF c, d, e, f
    <3>6. c = e /\ d = f
      BY <3>5, NodesDiffer
    <3>. QED  BY <3>6 DEF c, d, e, f
  <2>4. PICK r \in Nat : /\ r = 2 * q - 1 \/ r = 2 * q
                         /\ A[h][i] = B[h][r]
                         /\ p <= w2 => r = i
    <3>1. CASE i = 2 * p - 1
      BY <2>2, <2>3, <3>1
    <3>2. CASE i = 2 * p
      BY <2>2, <2>3, <3>2
    <3>. QED  BY <2>1, <3>1, <3>2
  <2>5. r # 0 /\ r <= w + 1 /\ p \in Nat /\ i \in Nat
    BY <1>1, <1>2, <2>4, SMTT(30)
  <2>6. i <= w => p <= w2
    BY <1>1, <1>2, <2>1, <2>5
  <2>7. CASE r <= w
    <3>1. r \in 1..w
      BY <1>1, <2>5, <2>7
    <3>. QED  BY <2>4, <2>6, <3>1
  <2>8. CASE r > w
    <3>1. r \in w..(2 * Len(b)) /\ w \in 1..w
      BY <1>1, <2>4, <2>5, <2>8
    <3>2. A[h][i] = B[h][w]
      BY <1>6, <2>4, <3>1
    <3>3. ~(i <= w)
      BY <1>1, <2>4, <2>5, <2>6, <2>8
    <3>. QED  BY <3>1, <3>2, <3>3
  <2>. QED  BY <1>1, <2>5, <2>7, <2>8
<1>. QED  BY <1>8 DEF Covered, A, B, v, w

\* From the same root down to the leaves.
LEMMA CoveredDown ==
    ASSUME NEW a, Len(a) \in Nat, Len(a) # 0, NEW b, Len(b) \in Nat, Len(b) # 0,
           NEW length, TextsOf(a, length), TextsOf(b, length),
           Root!Height(Len(a)) = Root!Height(Len(b)),
           Covered(a, b, Root!Height(Len(a)))
    PROVE  Covered(a, b, 0)
<1>. DEFINE H == Root!Height(Len(a))
            Low == {h \in 0..H : ~Covered(a, b, H - h)}
<1>1. H \in Nat /\ Covered(a, b, H)
  BY HeightIs
<1>. HIDE DEF H
<1>2. /\ Low \in SUBSET Nat
      /\ \A h \in 0..H : h \in Low <=> ~Covered(a, b, H - h)
  OBVIOUS
<1>3. \A h \in Low : h \in 0..H
  OBVIOUS
<1>. HIDE DEF Low
<1>4. Low = {}
  <2>. SUFFICES ASSUME Low # {} PROVE FALSE
    OBVIOUS
  <2>1. PICK h \in Low : \A k \in Low : h <= k
    BY <1>2, LeastNatural
  <2>2. h \in 0..H
    BY <1>3, <2>1
  <2>3. h # 0
    <3>1. H - 0 = H /\ 0 \in 0..H
      BY <1>1
    <3>. QED  BY <1>1, <1>2, <2>1, <3>1
  <2>4. /\ h - 1 \in 0..H /\ h - 1 \notin Low /\ H - h \in Nat
        /\ H - (h - 1) = (H - h) + 1 /\ (H - h) + 1 <= H
    BY <1>1, <2>1, <2>2, <2>3
  <2>5. Covered(a, b, (H - h) + 1)
    BY <1>2, <2>4
  <2>6. Covered(a, b, H - h)
    BY <2>4, <2>5, CoveredBelow DEF H
  <2>. QED  BY <1>2, <2>1, <2>2, <2>6
<1>5. H \in 0..H /\ H - H = 0
  BY <1>1
<1>. QED  BY <1>2, <1>4, <1>5

LEMMA ListIs ==
    ASSUME NEW list \in Root!Lists
    PROVE  /\ list \in Seq(Leaves) /\ Len(list) \in Nat /\ DOMAIN list = 1..Len(list)
           /\ list = <<>> <=> Len(list) = 0
<1>1. PICK n \in 0..MaxLeaves : list \in [1..n -> Leaves]
  BY DEF Root!Lists
<1>2. n \in Nat
  BY LeafAssumption
<1>3. list \in Seq(Leaves)
  BY <1>1, <1>2, SeqDef
<1>. QED  BY <1>3, LenProperties, EmptySeq

\* Two lists with the same root.
LEMMA RootTells ==
    ASSUME NEW a \in Root!Lists, NEW b \in Root!Lists, a # <<>>, b # <<>>,
           Root!OneLength(b, a), Root!Height(Len(b)) = Root!Height(Len(a)),
           Root!Root(b) = Root!Root(a), Len(b) <= Len(a)
    PROVE  /\ \A i \in DOMAIN b : b[i] = a[i]
           /\ \A i \in DOMAIN a : \E j \in DOMAIN b : a[i] = b[j]
<1>1. ASSUME NEW list \in Root!Lists, NEW i \in 1..Len(list) PROVE IsText(list[i])
  <2>1. list[i] \in Leaves
    BY ListIs, ElementOfSeq
  <2>. QED  BY <2>1, LeafAssumption DEF IsText
<1>2. Len(a) \in Nat /\ Len(a) # 0 /\ DOMAIN a = 1..Len(a)
  BY ListIs
<1>3. Len(b) \in Nat /\ Len(b) # 0 /\ DOMAIN b = 1..Len(b)
  BY ListIs
<1>. DEFINE length == Len(a[1])
<1>4. /\ 1 \in 1..Len(a) /\ 1 \in 1..Len(b)
      /\ \A i \in 1..Len(b), j \in 1..Len(a) : Len(b[i]) = Len(a[j])
  BY <1>2, <1>3 DEF Root!OneLength
<1>5. TextsOf(a, length) /\ TextsOf(b, length)
  <2>1. /\ \A i \in 1..Len(b) : Len(b[i]) = length
        /\ \A j \in 1..Len(a) : Len(a[j]) = length
    BY <1>4, Zenon
  <2>. QED  BY <1>1, <2>1 DEF TextsOf
<1>6. /\ \A i \in DOMAIN b : b[i] = a[i]
      /\ \A i \in DOMAIN a : \E j \in DOMAIN b : a[i] = b[j]
  <2>1. Root!Levels(a)[Root!Height(Len(a))][1] = Root!Levels(b)[Root!Height(Len(b))][1]
    BY DEF Root!Root
  <2>3. Covered(a, b, Root!Height(Len(a)))
    <3>1. /\ Root!Width(Len(a), Root!Height(Len(a))) = 1
          /\ Root!Width(Len(b), Root!Height(Len(b))) = 1
      BY <1>2, <1>3, HeightIs
    <3>2. \A i : i \in 1..1 <=> i = 1
      OBVIOUS
    <3>. QED  BY <2>1, <3>1, <3>2 DEF Covered
  <2>4. Covered(a, b, 0)
    BY <1>2, <1>3, <1>5, <2>3, CoveredDown
  <2>5. Root!Width(Len(a), 0) = Len(a) /\ Root!Width(Len(b), 0) = Len(b)
    BY <1>2, <1>3, WidthHalves
  <2>6. /\ \A i \in 1..Len(a) : Root!Levels(a)[0][i] = a[i]
        /\ \A i \in 1..Len(b) : Root!Levels(b)[0][i] = b[i]
    <3>1. Tree(Root!Levels(a), a) /\ Tree(Root!Levels(b), b)
      BY <1>2, <1>3, LevelsAreTree
    <3>. QED  BY <3>1 DEF Tree
  <2>7. \A i \in 1..Len(a) : \E k \in 1..Len(b) :
          a[i] = b[k] /\ (i <= Len(b) => k = i)
    BY <2>4, <2>5, <2>6 DEF Covered
  <2>8. ASSUME NEW i \in 1..Len(b) PROVE b[i] = a[i]
    <3>1. i \in 1..Len(a) /\ i <= Len(b)
      BY <1>2, <1>3, <2>8
    <3>. QED  BY <2>7, <3>1
  <2>. QED  BY <1>2, <1>3, <2>7, <2>8
<1>. QED  BY <1>6

-----------------------------------------------------------------------------
(* The loop over the levels *)

\* The level at hand is one of the tree.
AtLevel(h) ==
    /\ h \in 0..Root!Height(Len(transactions))
    /\ DOMAIN tree = 1..Len(tree)
    /\ Len(tree) = Root!Width(Len(transactions), h)
    /\ \A i \in 1..Len(tree) : tree[i] = Root!Levels(transactions)[h][i]

MerkleInv ==
    /\ transactions \in Root!Lists
    /\ IF transactions = <<>> THEN tree = <<Root!EmptyRoot>>
       ELSE (\E S : tree \in Seq(S)) /\ \E h \in Nat : AtLevel(h)

LEMMA MerkleStart == Root!Init => MerkleInv
<1>. SUFFICES ASSUME Root!Init PROVE MerkleInv
  OBVIOUS
<1>1. /\ transactions \in Root!Lists
      /\ tree = IF transactions = <<>> THEN <<Root!EmptyRoot>> ELSE transactions
  BY DEF Root!Init
<1>2. CASE transactions = <<>>
  BY <1>1, <1>2 DEF MerkleInv
<1>3. CASE transactions # <<>>
  <2>. DEFINE n == Len(transactions)
  <2>1. /\ tree = transactions /\ tree \in Seq(Leaves)
        /\ n \in Nat /\ n # 0 /\ DOMAIN transactions = 1..n
    BY <1>1, <1>3, ListIs
  <2>2. 0 \in 0..Root!Height(n) /\ Root!Width(n, 0) = n
    BY <2>1, HeightIs, WidthHalves
  <2>3. \A i \in 1..n : Root!Levels(transactions)[0][i] = transactions[i]
    BY <2>1, LevelsAreTree DEF Tree
  <2>4. AtLevel(0)
    BY <2>1, <2>2, <2>3 DEF AtLevel
  <2>. QED  BY <1>1, <1>3, <2>1, <2>4 DEF MerkleInv
<1>. QED  BY <1>2, <1>3

\* A round of the loop climbs one level.
LEMMA MerkleClimbs ==
    ASSUME MerkleInv, Root!NextLevel
    PROVE  MerkleInv'
<1>. DEFINE n == Len(transactions)
            L == Root!Levels(transactions)
            H == Root!Height(n)
            m == Len(tree)
            even == IF m % 2 = 0 THEN tree ELSE Append(tree, tree[m])
<1>1. /\ m > 1
      /\ tree' = [i \in 1..(Len(even) \div 2) |-> NodeOver(even[2 * i - 1], even[2 * i])]
      /\ transactions' = transactions
  BY DEF Root!NextLevel, NodeOver
<1>2. transactions # <<>>
  <2>1. \A x : Len(<<x>>) = 1
    OBVIOUS
  <2>2. transactions = <<>> => tree = <<Root!EmptyRoot>>
    BY DEF MerkleInv
  <2>3. transactions = <<>> => Len(tree) = 1
    BY <2>1, <2>2, Zenon
  <2>4. Len(tree) > 1 /\ ~(1 > 1)
    BY <1>1
  <2>. QED  BY <2>3, <2>4, Zenon
<1>3. PICK S : tree \in Seq(S)
  BY <1>2 DEF MerkleInv
<1>4. PICK h \in Nat : AtLevel(h)
  BY <1>2 DEF MerkleInv
<1>5. transactions \in Root!Lists /\ n \in Nat /\ n # 0
  BY <1>2, ListIs DEF MerkleInv
<1>6. /\ h \in 0..H /\ m = Root!Width(n, h)
      /\ \A i \in 1..m : tree[i] = L[h][i]
  BY <1>4 DEF AtLevel
<1>7. Tree(L, transactions)
  BY <1>5, LevelsAreTree
<1>8. m \in Nat /\ m <= n
  BY <1>5, <1>6, WidthBounds
<1>9. h + 1 \in 1..H /\ h + 1 \in Nat /\ (h + 1) - 1 = h
  <2>1. H \in Nat /\ h # H
    BY <1>1, <1>5, <1>6, HeightIs
  <2>. HIDE DEF H
  <2>. QED  BY <1>6, <2>1
<1>. DEFINE w == Root!Width(n, h + 1)
<1>10. w = Root!Half(m)
  BY <1>5, <1>6, WidthHalves
<1>11. /\ \A i \in m..(2 * n) : L[h][i] = L[h][m]
       /\ \A i \in 1..w : L[h + 1][i] = NodeOver(L[h][2 * i - 1], L[h][2 * i])
  BY <1>6, <1>7, <1>9 DEF Tree
<1>12. Append(tree, tree[m]) \in Seq(S \cup {tree[m]})
       /\ Len(Append(tree, tree[m])) = m + 1
       /\ \A i \in 1..m : Append(tree, tree[m])[i] = tree[i]
       /\ Append(tree, tree[m])[m + 1] = tree[m]
  BY <1>3, AppendAny
<1>. HIDE DEF n, L, H, m, w
<1>13. Len(even) = IF m % 2 = 0 THEN m ELSE m + 1
  BY <1>12 DEF m
<1>14. ASSUME NEW i \in 1..Len(even) PROVE even[i] = L[h][i]
  <2>1. CASE m % 2 = 0
    BY <1>6, <1>13, <1>14, <2>1
  <2>2. CASE m % 2 # 0
    <3>1. i \in 1..m \/ i = m + 1
      BY <1>8, <1>13, <1>14, <2>2
    <3>2. CASE i \in 1..m
      BY <1>6, <1>12, <2>2, <3>2
    <3>3. CASE i = m + 1
      <4>1. m + 1 \in m..(2 * n) /\ m \in 1..m
        BY <1>1, <1>5, <1>8
      <4>. QED  BY <1>6, <1>11, <1>12, <2>2, <3>3, <4>1
    <3>. QED  BY <3>1, <3>2, <3>3
  <2>. QED  BY <2>1, <2>2
<1>15. Len(even) \in Nat /\ Len(even) \div 2 = w /\ 2 * w <= Len(even) /\ w \in Nat
  <2>1. w = (m + 1) \div 2
    BY <1>10 DEF Root!Half
  <2>. DEFINE l == Len(even)
  <2>2. l = IF m % 2 = 0 THEN m ELSE m + 1
    BY <1>13
  <2>. HIDE DEF l
  <2>3. l \in Nat /\ l \div 2 = w /\ 2 * w <= l /\ w \in Nat
    BY <1>8, <2>1, <2>2
  <2>. QED  BY <2>3 DEF l
<1>. HIDE DEF even
<1>16. tree' = [i \in 1..w |-> NodeOver(even[2 * i - 1], even[2 * i])]
  BY <1>1, <1>15
<1>17. ASSUME NEW i \in 1..w PROVE tree'[i] = L[h + 1][i]
  <2>1. 2 * i - 1 \in 1..Len(even) /\ 2 * i \in 1..Len(even)
    BY <1>15
  <2>2. even[2 * i - 1] = L[h][2 * i - 1] /\ even[2 * i] = L[h][2 * i]
    BY <1>14, <2>1
  <2>. QED  BY <1>11, <1>16, <2>2
<1>18. PICK T : tree' \in [1..w -> T]
  <2>1. tree' \in [1..w -> {L[h + 1][i] : i \in 1..w}]
    BY <1>16, <1>17
  <2>. QED  BY <2>1
<1>19. tree' \in Seq(T)
  BY <1>15, <1>18, SeqDef
<1>20. Len(tree') = w /\ DOMAIN tree' = 1..w
  BY <1>15, <1>18, <1>19, LenProperties
<1>21. AtLevel(h + 1)'
  <2>1. /\ h + 1 \in 0..Root!Height(Len(transactions))
        /\ w = Root!Width(Len(transactions), h + 1)
        /\ \A i \in 1..w : tree'[i] = Root!Levels(transactions)[h + 1][i]
    BY <1>9, <1>17 DEF n, H, L, w
  <2>. QED  BY <1>1, <1>20, <2>1 DEF AtLevel
<1>22. MerkleInv'
  BY <1>1, <1>2, <1>5, <1>9, <1>19, <1>21 DEF MerkleInv
<1>. QED  BY <1>22

\* When one node is left, it is the root.
LEMMA MerkleEnds ==
    ASSUME MerkleInv PROVE Root!RootTellsLists
<1>. SUFFICES ASSUME Len(tree) = 1
              PROVE  /\ tree[1] = Root!Root(transactions)
                     /\ transactions # <<>> =>
                          \A other \in Root!Lists :
                            /\ other # <<>> /\ Len(other) <= Len(transactions)
                            /\ Root!OneLength(other, transactions)
                            /\ Root!Height(Len(other)) = Root!Height(Len(transactions))
                            /\ Root!Root(other) = tree[1]
                            => /\ \A i \in DOMAIN other : other[i] = transactions[i]
                               /\ \A i \in DOMAIN transactions : \E j \in DOMAIN other :
                                    transactions[i] = other[j]
  BY DEF Root!RootTellsLists
<1>1. transactions \in Root!Lists
  BY DEF MerkleInv
<1>2. tree[1] = Root!Root(transactions)
  <2>1. CASE transactions = <<>>
    BY <2>1 DEF MerkleInv, Root!Root
  <2>2. CASE transactions # <<>>
    <3>. DEFINE n == Len(transactions)
                H == Root!Height(n)
    <3>1. PICK h \in Nat : AtLevel(h)
      BY <2>2 DEF MerkleInv
    <3>2. n \in Nat /\ n # 0
      BY <1>1, <2>2, ListIs
    <3>3. h \in 0..H /\ Root!Width(n, h) = 1
      BY <3>1 DEF AtLevel
    <3>4. H \in Nat /\ \A k \in 0..(H - 1) : Root!Width(n, k) > 1
      BY <3>2, HeightIs
    <3>5. tree[1] = Root!Levels(transactions)[h][1]
      BY <3>1 DEF AtLevel
    <3>6. h = H
      <4>. HIDE DEF H, n
      <4>1. h \in 0..(H - 1) \/ h = H
        BY <3>3, <3>4
      <4>. QED  BY <3>3, <3>4, <4>1
    <3>. QED  BY <2>2, <3>5, <3>6 DEF Root!Root
  <2>. QED  BY <2>1, <2>2
<1>. QED  BY <1>1, <1>2, RootTells

-----------------------------------------------------------------------------
(* The theorems *)

\* The objects that are not in focus stay as they began.
LEMMA DraftInFocus ==
    ASSUME NothingIsNoRecord, focus = "draft" => DraftInv, [Next]_vars
    PROVE  (focus = "draft" => DraftInv)'
<1>1. CASE UNCHANGED <<focus, draftVars>>
  BY <1>1 DEF draftVars, DraftInv, IsTransaction, BuiltOn, SignedAsIs
<1>2. CASE focus = "draft" /\ Draft!Next
  BY <1>2, DraftNext
<1>. QED  BY <1>1, <1>2 DEF Next, vars

\* For any keys, coins, texts and contract calls, whatever getHash of inputs and
\* outputs returns and after any number of operations, a transaction verifies only
\* with the inputs it had when it was last signed and if what follows them in the
\* text of the digest reads as it did then.
THEOREM SignedOnly ==
    ASSUME NothingIsNoRecord PROVE Spec => []VerifiesOnlyAsSigned
<1>1. Init => (focus = "draft" => DraftInv)
  BY DraftStart DEF Init
<1>2. (focus = "draft" => DraftInv) /\ [Next]_vars => (focus = "draft" => DraftInv)'
  BY DraftInFocus
<1>3. (focus = "draft" => DraftInv) => VerifiesOnlyAsSigned
  BY DraftVerifies DEF VerifiesOnlyAsSigned
<1>. QED  BY <1>1, <1>2, <1>3, PTL DEF Spec

\* For any bytecodes, owners and keys and any number of calls, a contract stores
\* what was last written since it was last deployed.
THEOREM Storage == Spec => []StorageIsLastWritten
<1>1. Init => EngineInv
  BY EngineStart DEF Init
<1>2. EngineInv /\ [Next]_vars => EngineInv'
  BY EngineNext
<1>. QED  BY <1>1, <1>2, EngineStores, PTL DEF Spec

\* However many messages are on their way and whatever becomes of them there, one
\* that is read and verifies was signed by its sender, with the same type and the
\* same characters in payload and timestamp; and it is the same message if its
\* payload ends like what the factories write.
THEOREM VerifiedWasSigned == Spec => []VerifiedAsSigned
<1>1. Init => WireInv
  BY WireInit DEF Init
<1>2. WireInv /\ [Next]_vars => WireInv'
  BY WireNext
<1>. QED  BY <1>1, <1>2, WireReads, PTL DEF Spec

\* The reputation stays between 0 and 100 and moves by no more than 5, through
\* any sequence of validations and on any word that it fits.
THEOREM ReputationInRange == Spec => ReputationStaysInRange
<1>1. Init => ReputationInv
  BY DEF Init, Record!Init, ReputationInv
<1>2. ReputationInv /\ [Next]_vars =>
        /\ ReputationInv'
        /\ [/\ reputation' \in 0..100
            /\ reputation' \in (reputation - 5)..(reputation + 1)]_(Record!validatorVars)
  BY RecordNext
<1>. QED
  BY <1>1, <1>2, PTL DEF Spec, ReputationStaysInRange, Record!ReputationStaysInRange

\* The sorted vector of MemoryPool implements the bag served by priority: each of
\* its operations does what PriorityPool says, whatever the sizes, the ages and the
\* priorities, and whatever order sort gives to equal ones.
THEOREM PoolImplements == Spec => PoolSpec
<1>1. Init => PoolInv /\ Pool!P!Init
  BY PoolStart DEF Init
<1>2. PoolInv /\ [Next]_vars
        => PoolInv' /\ [Pool!P!Next]_<<Pool!Contents, time, result>>
  <2>. SUFFICES ASSUME PoolInv, [Next]_vars
                PROVE  PoolInv' /\ [Pool!P!Next]_<<Pool!Contents, time, result>>
    OBVIOUS
  <2>1. CASE focus = "pool" /\ Pool!Next
    BY <2>1, PoolNext
  <2>2. CASE UNCHANGED poolVars
    <3>1. pool' = pool /\ time' = time /\ result' = result
      BY <2>2 DEF poolVars
    <3>2. PoolInv'
      BY <3>1 DEF PoolInv, Pool!Sorted, Pool!Entry
    <3>3. Pool!Contents' = Pool!Contents
      BY <3>1, ContentsIs
    <3>. QED  BY <3>1, <3>2, <3>3
  <2>. QED  BY <2>1, <2>2 DEF Next, vars
<1>. QED  BY <1>1, <1>2, PTL DEF Spec, PoolSpec, Pool!PoolSpec, Pool!P!Spec

\* For lists of any strings and of any length, the loop of calculateMerkleRoot ends
\* at the root of the full tree; and two lists of strings of one length with trees
\* of one height have one root only if the longer one repeats strings of the
\* shorter one at its end.
THEOREM RootTellsTheList == Spec => []RootTellsLists
<1>1. Init => (focus = "root" => MerkleInv)
  BY MerkleStart DEF Init
<1>2. (focus = "root" => MerkleInv) /\ [Next]_vars => (focus = "root" => MerkleInv)'
  <2>. SUFFICES ASSUME focus = "root" => MerkleInv, [Next]_vars
                PROVE  (focus = "root" => MerkleInv)'
    OBVIOUS
  <2>1. CASE UNCHANGED <<focus, merkleVars>>
    BY <2>1 DEF merkleVars, MerkleInv, AtLevel
  <2>2. CASE focus = "root" /\ Root!Next
    BY <2>2, MerkleClimbs DEF Root!Next
  <2>. QED  BY <2>1, <2>2 DEF Next, vars
<1>3. (focus = "root" => MerkleInv) => RootTellsLists
  BY MerkleEnds DEF RootTellsLists
<1>. QED  BY <1>1, <1>2, <1>3, PTL DEF Spec
=============================================================================
