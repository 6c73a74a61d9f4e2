---------------------------- MODULE TinyOscProofs ----------------------------
(***************************************************************************)
(* The OSC writer and reader for every length of the buffer and all        *)
(* messages: what tosc_vwrite leaves in the buffer is the encoding that    *)
(* OSC 1.0 defines, it refuses only what does not fit, and the reader      *)
(* finds every message again with each of its arguments.                   *)
(*                                                                         *)
(* The loop over the format, the encoding of a message and that of a       *)
(* bundle are recursive functions; what they return is proved by induction *)
(* on the number of arguments, or of messages, done through the least      *)
(* element of the set where the claim would fail.                          *)
(***************************************************************************)
EXTENDS TinyOsc, SequenceTheorems, WellFoundedInduction, TLAPS

-----------------------------------------------------------------------------
(* Induction and recursion.                                                *)

\* Less-than is well founded on the naturals, as a relation.
LEMMA LessWellFounded == IsWellFoundedOn({ss \in Nat \X Nat : ss[1] < ss[2]}, Nat)
  BY NatLessThanWellFounded DEF OpToRel

\* A set of naturals has a least element.
LEMMA LeastOne ==
  ASSUME NEW T \in SUBSET Nat, T # {}
  PROVE  \E x \in T : \A y \in T : x <= y
<1> DEFINE R == {ss \in Nat \X Nat : ss[1] < ss[2]}
<1>1. IsWellFoundedOn(R, Nat)
  BY LessWellFounded
<1>2. PICK x \in T : \A y \in T : ~ (<<y, x>> \in R)
  <2> HIDE DEF R
  <2> QED BY <1>1, WFMin
<1>3. ASSUME NEW y \in T PROVE x <= y
  <2>1. <<y, x>> \in Nat \X Nat => ~(y < x)
    BY <1>2
  <2>2. x \in Nat /\ y \in Nat
    OBVIOUS
  <2> QED
    BY <2>1, <2>2, SMT
<1> QED
  BY <1>3

\* Induction up to n: a set of numbers that holds 0, and with each number the
\* next, holds them all.
LEMMA UpTo ==
  ASSUME NEW n \in Nat, NEW P, 0 \in P, \A k \in 1..n : k - 1 \in P => k \in P
  PROVE  0..n \subseteq P
<1> DEFINE Bad == {k \in 0..n : k \notin P}
<1> SUFFICES ASSUME Bad # {} PROVE FALSE
  OBVIOUS
<1>1. Bad \in SUBSET Nat
  OBVIOUS
<1>2. PICK k \in Bad : \A j \in Bad : k <= j
  <2> HIDE DEF Bad
  <2> QED BY <1>1, LeastOne
<1>3. k \in 1..n /\ k - 1 \in 0..n
  BY <1>2
<1>4. k - 1 \notin Bad
  <2> HIDE DEF Bad
  <2> QED BY <1>2, <1>3, SMT
<1> QED
  BY <1>3, <1>4

\* A recursion over 0..n that stays in a set has a solution.
Solves(g, n, base, F) ==
  g = [k \in 0..n |-> IF k = 0 THEN base ELSE F[<<k, g[k - 1]>>]]

LEMMA Recursion ==
  ASSUME NEW S, NEW n \in Nat, NEW base \in S, NEW F \in [(1..n) \X S -> S]
  PROVE  \E g \in [0..n -> S] : Solves(g, n, base, F)
<1> DEFINE P == {k \in 0..n : \E g \in [0..k -> S] : Solves(g, k, base, F)}
<1>1. 0 \in P
  <2> DEFINE g == [k \in 0..0 |-> base]
  <2>1. g \in [0..0 -> S]
    OBVIOUS
  <2>2. g = [k \in 0..0 |-> IF k = 0 THEN base ELSE F[<<k, g[k - 1]>>]]
    <3>1. \A k \in 0..0 : k = 0
      BY SMT
    <3> QED
      BY <3>1, Zenon
  <2>3. 0 \in 0..n
    BY SMT
  <2> HIDE DEF g
  <2> QED
    BY <2>1, <2>2, <2>3, Zenon DEF Solves
<1>2. ASSUME NEW k \in 1..n, k - 1 \in P PROVE k \in P
  <2>1. PICK g \in [0..(k - 1) -> S] : Solves(g, k - 1, base, F)
    BY <1>2
  <2> DEFINE h == [j \in 0..k |-> IF j = k THEN F[<<k, g[k - 1]>>] ELSE g[j]]
  <2>2. /\ k - 1 \in 0..(k - 1) /\ k \in 0..k /\ k # 0 /\ k # k - 1
        /\ \A j \in 0..k : j # k => j \in 0..(k - 1)
        /\ \A j \in 0..k : j # 0 => j - 1 \in 0..(k - 1) /\ j - 1 # k /\ j - 1 \in 0..k
        /\ k \in 0..n
    BY SMT
  <2>3. <<k, g[k - 1]>> \in (1..n) \X S
    BY <2>2, Zenon
  <2>4. F[<<k, g[k - 1]>>] \in S
    BY <2>3, Zenon
  <2>5. h \in [0..k -> S]
    BY <2>2, <2>4, Zenon
  <2>6. \A j \in 0..k : h[j] = IF j = 0 THEN base ELSE F[<<j, h[j - 1]>>]
    <3>1. ASSUME NEW j \in 0..k, j # 0 PROVE h[j - 1] = g[j - 1]
      BY <2>2, <3>1, Zenon
    <3>2. ASSUME NEW j \in 0..k, j # k
          PROVE  h[j] = IF j = 0 THEN base ELSE F[<<j, g[j - 1]>>]
      <4>1. h[j] = g[j] /\ j \in 0..(k - 1)
        BY <2>2, <3>2, Zenon
      <4>2. g[j] = IF j = 0 THEN base ELSE F[<<j, g[j - 1]>>]
        <5>1. g = [i \in 0..(k - 1) |-> IF i = 0 THEN base ELSE F[<<i, g[i - 1]>>]]
          BY <2>1, Zenon DEF Solves
        <5> QED
          BY <4>1, <5>1, Zenon
      <4> QED
        BY <4>1, <4>2, Zenon
    <3>3. h[k] = F[<<k, g[k - 1]>>]
      BY <2>2, Zenon
    <3> HIDE DEF h
    <3> QED
      BY <2>2, <3>1, <3>2, <3>3, Zenon
  <2>7. h = [j \in 0..k |-> IF j = 0 THEN base ELSE F[<<j, h[j - 1]>>]]
    <3>1. h = [j \in 0..k |-> h[j]]
      BY <2>5, Zenon
    <3> HIDE DEF h
    <3> QED
      BY <2>6, <3>1, Zenon
  <2>8. Solves(h, k, base, F)
    BY <2>7, Zenon DEF Solves
  <2> QED
    BY <2>2, <2>5, <2>8, Zenon
<1>3. 0..n \subseteq P
  <2> HIDE DEF P
  <2> QED BY <1>1, <1>2, UpTo
<1>4. n \in 0..n
  BY SMT
<1> QED
  BY <1>3, <1>4, Zenon

\* What never falls from one number to the next never falls.
LEMMA Rising ==
  ASSUME NEW n \in Nat, NEW f \in [0..n -> Nat], \A k \in 1..n : f[k - 1] <= f[k]
  PROVE  \A k \in 0..n : \A j \in 0..k : f[j] <= f[k]
<1> DEFINE P == {k \in 0..n : \A j \in 0..k : f[j] <= f[k]}
<1>1. \A k \in 0..n : f[k] \in Nat
  OBVIOUS
<1>2. 0 \in P
  <2>1. 0 \in 0..n /\ \A j \in 0..0 : j = 0
    BY SMT
  <2>2. f[0] <= f[0]
    BY <1>1, <2>1, SMT
  <2> QED
    BY <2>1, <2>2, Zenon
<1>3. ASSUME NEW k \in 1..n, k - 1 \in P PROVE k \in P
  <2>1. k \in 0..n /\ k - 1 \in 0..n /\ \A j \in 0..k : j = k \/ j \in 0..(k - 1)
    BY SMT
  <2>2. \A j \in 0..(k - 1) : f[j] <= f[k - 1]
    BY <1>3, Zenon
  <2>3. f[k - 1] <= f[k]
    BY Zenon
  <2>4. \A j \in 0..(k - 1) : f[j] <= f[k]
    <3> TAKE j \in 0..(k - 1)
    <3>1. j \in 0..n
      BY SMT
    <3>2. f[j] \in Nat /\ f[k - 1] \in Nat /\ f[k] \in Nat
      BY <1>1, <2>1, <3>1, Zenon
    <3> QED
      BY <2>2, <2>3, <3>2, SMT
  <2>5. f[k] <= f[k]
    BY <1>1, <2>1, SMT
  <2> QED
    BY <2>1, <2>4, <2>5, Zenon
<1>4. 0..n \subseteq P
  <2> HIDE DEF P
  <2> QED BY <1>2, <1>3, UpTo
<1> QED
  BY <1>4, Zenon

-----------------------------------------------------------------------------
(* Words, padding and the encodings.                                       *)

\* n & ~0x3 is the multiple of four at n or just below.
LEMMA AlignIs ==
  ASSUME NEW n \in Nat
  PROVE  /\ Align(n) \in Nat /\ Align(n) % 4 = 0
         /\ Align(n) <= n /\ n < Align(n) + 4
         /\ \A i \in Nat : i % 4 = 0 => Align(i + n) = i + Align(n)
         /\ \A i \in Nat : i % 4 = 0 /\ i <= n => i <= Align(n)
  BY SMT DEF Align

\* Zeros are octets.
LEMMA ZerosAre ==
  ASSUME NEW n \in Nat
  PROVE  Zeros(n) \in Seq(Octets) /\ Len(Zeros(n)) = n /\ \A k \in 1..n : Zeros(n)[k] = NUL
  BY SMT DEF Zeros, Octets, NUL

\* Two sequences of octets, one after the other.
LEMMA JoinIs ==
  ASSUME NEW s \in Seq(Octets), NEW t \in Seq(Octets)
  PROVE  /\ s \o t \in Seq(Octets) /\ Len(s \o t) = Len(s) + Len(t)
         /\ Len(s) \in Nat /\ Len(t) \in Nat
         /\ \A k \in 1..Len(s) : (s \o t)[k] = s[k]
         /\ \A k \in 1..Len(t) : (s \o t)[Len(s) + k] = t[k]
<1>1. Len(s) \in Nat /\ Len(t) \in Nat
  BY LenProperties
<1>2. /\ s \o t \in Seq(Octets) /\ Len(s \o t) = Len(s) + Len(t)
      /\ \A k \in 1..(Len(s) + Len(t)) :
           (s \o t)[k] = IF k <= Len(s) THEN s[k] ELSE t[k - Len(s)]
  BY ConcatProperties, Zenon
<1>3. \A k \in 1..Len(s) : k \in 1..(Len(s) + Len(t)) /\ k <= Len(s)
  BY <1>1, SMT
<1>4. \A k \in 1..Len(t) : /\ Len(s) + k \in 1..(Len(s) + Len(t)) /\ ~(Len(s) + k <= Len(s))
                            /\ (Len(s) + k) - Len(s) = k
  BY <1>1, SMT
<1> QED
  BY <1>1, <1>2, <1>3, <1>4, Zenon

\* A text with its zeros.
LEMMA TerminatedIs ==
  ASSUME NEW t \in Seq(Octets)
  PROVE  /\ Terminated(t) \in Seq(Octets)
         /\ Len(Terminated(t)) = Align(Len(t) + 4)
         /\ \A k \in 1..Len(t) : Terminated(t)[k] = t[k]
         /\ \A k \in (Len(t) + 1)..Align(Len(t) + 4) : Terminated(t)[k] = NUL
<1> DEFINE n == 4 - (Len(t) % 4)
           z == Zeros(n)
<1>1. n \in Nat /\ Align(Len(t) + 4) = Len(t) + n /\ Len(t) \in Nat
  BY SMT DEF Align
<1>2. z \in Seq(Octets) /\ Len(z) = n /\ \A k \in 1..n : z[k] = NUL
  <2> HIDE DEF n
  <2> QED BY <1>1, ZerosAre
<1>3. Terminated(t) = t \o z
  BY Zenon DEF Terminated
<1> HIDE DEF n, z
<1>4. /\ t \o z \in Seq(Octets) /\ Len(t \o z) = Len(t) + n
      /\ \A k \in 1..Len(t) : (t \o z)[k] = t[k]
      /\ \A k \in (Len(t) + 1)..(Len(t) + n) : (t \o z)[k] = z[k - Len(t)]
  BY <1>1, <1>2, SMT
<1>5. \A k \in (Len(t) + 1)..(Len(t) + n) : k - Len(t) \in 1..n
  BY <1>1, SMT
<1> QED
  BY <1>1, <1>2, <1>3, <1>4, <1>5, Zenon

\* A blob with its zeros, if it needs any.
LEMMA FilledIs ==
  ASSUME NEW t \in Seq(Octets)
  PROVE  /\ Filled(t) \in Seq(Octets)
         /\ Len(Filled(t)) = Align(Len(t) + 3)
         /\ \A k \in 1..Len(t) : Filled(t)[k] = t[k]
         /\ \A k \in (Len(t) + 1)..Align(Len(t) + 3) : Filled(t)[k] = NUL
<1> DEFINE n == (4 - (Len(t) % 4)) % 4
           z == Zeros(n)
<1>1. n \in Nat /\ Align(Len(t) + 3) = Len(t) + n /\ Len(t) \in Nat
  BY SMT DEF Align
<1>2. z \in Seq(Octets) /\ Len(z) = n /\ \A k \in 1..n : z[k] = NUL
  <2> HIDE DEF n
  <2> QED BY <1>1, ZerosAre
<1>3. Filled(t) = t \o z
  BY Zenon DEF Filled
<1> HIDE DEF n, z
<1>4. /\ t \o z \in Seq(Octets) /\ Len(t \o z) = Len(t) + n
      /\ \A k \in 1..Len(t) : (t \o z)[k] = t[k]
      /\ \A k \in (Len(t) + 1)..(Len(t) + n) : (t \o z)[k] = z[k - Len(t)]
  BY <1>1, <1>2, SMT
<1>5. \A k \in (Len(t) + 1)..(Len(t) + n) : k - Len(t) \in 1..n
  BY <1>1, SMT
<1> QED
  BY <1>1, <1>2, <1>3, <1>4, <1>5, Zenon

\* A word is four octets.
LEMMA WordIs ==
  ASSUME NEW n \in Int
  PROVE  Word(n) \in Seq(Octets) /\ Len(Word(n)) = 4
<1>1. \A x \in Int : x % 256 \in Octets
  BY SMT DEF Octets
<1>2. n \div 16777216 \in Int /\ n \div 65536 \in Int /\ n \div 256 \in Int
  BY SMT
<1>3. /\ (n \div 16777216) % 256 \in Octets /\ (n \div 65536) % 256 \in Octets
      /\ (n \div 256) % 256 \in Octets /\ n % 256 \in Octets
  BY <1>1, <1>2, SMT
<1>4. \A x1, x2, x3, x4 \in Octets : <<x1, x2, x3, x4>> \in Seq(Octets) /\ Len(<<x1, x2, x3, x4>>) = 4
  OBVIOUS
<1> QED
  BY <1>3, <1>4, SMT DEF Word

\* What a message consists of.
LEMMA MessageIs ==
  ASSUME NEW m \in Messages
  PROVE  /\ m.address \in Seq(Octets) /\ m.args \in Seq(Arguments)
         /\ Len(m.address) \in Nat /\ Len(m.args) \in Nat
         /\ Types(m) \in Seq(Octets) /\ Len(Types(m)) = Len(m.args)
         /\ <<Comma>> \o Types(m) \in Seq(Octets)
         /\ Len(<<Comma>> \o Types(m)) = Len(m.args) + 1
         /\ (<<Comma>> \o Types(m))[1] = Comma
         /\ \A k \in 1..Len(m.args) : (<<Comma>> \o Types(m))[k + 1] = Types(m)[k]
         /\ m.address \in Seq(Characters)
<1>1. m.address \in Seq(Characters) /\ m.args \in Seq(Arguments)
  BY MessagesAssumption
<1>2. Characters \subseteq Octets
  BY DEF Characters, Octets
<1>3. m.address \in Seq(Octets)
  BY <1>1, <1>2
<1>4. \A k \in 1..Len(m.args) : m.args[k].type \in Octets
  <2>1. \A k \in 1..Len(m.args) : m.args[k] \in Arguments
    BY <1>1
  <2>2. \A a \in Arguments : a.type \in Characters
    BY DEF Arguments
  <2> QED
    BY <1>2, <2>1, <2>2
<1>5. Types(m) \in Seq(Octets) /\ Len(Types(m)) = Len(m.args)
  BY <1>1, <1>4 DEF Types
<1>6. Comma \in Octets
  BY DEF Comma, Octets
<1>7. Len(m.address) \in Nat /\ Len(m.args) \in Nat
  BY <1>1, LenProperties, Zenon
<1> DEFINE t == Types(m)
<1> HIDE DEF t
<1>8. t \in Seq(Octets) /\ Len(t) = Len(m.args)
  BY <1>5, Zenon DEF t
<1>9. /\ <<Comma>> \o t \in Seq(Octets) /\ Len(<<Comma>> \o t) = 1 + Len(t)
      /\ (<<Comma>> \o t)[1] = Comma
      /\ \A k \in 1..Len(t) : (<<Comma>> \o t)[1 + k] = t[k]
  BY <1>6, <1>8, SMT
<1>10. 1 + Len(m.args) = Len(m.args) + 1 /\ \A k \in 1..Len(m.args) : 1 + k = k + 1
  BY <1>7, SMT
<1> QED
  BY <1>1, <1>3, <1>7, <1>8, <1>9, <1>10, Zenon DEF t

\* Every argument is encoded in octets.
LEMMA EncodedArgumentIs ==
  ASSUME NEW a \in Arguments
  PROVE  EncodedArgument(a) \in Seq(Octets)
<1>1. a.value \in Seq(Octets) /\ Len(a.value) \in Int
  BY DEF Arguments
<1>2. Word(Len(a.value)) \o a.value \in Seq(Octets)
  BY <1>1, WordIs
<1> QED
  BY <1>1, <1>2, TerminatedIs, FilledIs, Zenon DEF EncodedArgument

\* The header is encoded in octets, and takes as long as the two texts it is made of.
LEMMA EncodedHeaderIs ==
  ASSUME NEW m \in Messages
  PROVE  /\ EncodedHeader(m) \in Seq(Octets)
         /\ Len(EncodedHeader(m)) = Align(Len(m.address) + 4) + Align(Len(m.args) + 5)
<1> DEFINE x == Terminated(m.address)
           y == Terminated(<<Comma>> \o Types(m))
<1>1. x \in Seq(Octets) /\ Len(x) = Align(Len(m.address) + 4)
  BY MessageIs, TerminatedIs, Zenon
<1>2. y \in Seq(Octets) /\ Len(y) = Align(Len(<<Comma>> \o Types(m)) + 4)
  BY MessageIs, TerminatedIs, Zenon
<1>3. Len(<<Comma>> \o Types(m)) + 4 = Len(m.args) + 5
  <2>1. Len(<<Comma>> \o Types(m)) = Len(m.args) + 1 /\ Len(m.args) \in Nat
    BY MessageIs, Zenon
  <2> QED
    BY <2>1, SMT
<1> HIDE DEF x, y
<1>4. x \o y \in Seq(Octets) /\ Len(x \o y) = Len(x) + Len(y)
  BY <1>1, <1>2, ConcatProperties, Zenon
<1> QED
  BY <1>1, <1>2, <1>3, <1>4, Zenon DEF EncodedHeader, x, y

\* What the recursion over the arguments returns.
LEMMA EncodingsAre ==
  ASSUME NEW m \in Messages
  PROVE  /\ Encodings(m) \in [0..Len(m.args) -> Seq(Octets)]
         /\ Encodings(m)[0] = EncodedHeader(m)
         /\ \A k \in 1..Len(m.args) :
              Encodings(m)[k] = Encodings(m)[k - 1] \o EncodedArgument(m.args[k])
<1> DEFINE n == Len(m.args)
           S == Seq(Octets)
           F == [p \in (1..n) \X S |-> p[2] \o EncodedArgument(m.args[p[1]])]
           Is(g) == g = [k \in 0..n |-> IF k = 0 THEN EncodedHeader(m)
                                        ELSE g[k - 1] \o EncodedArgument(m.args[k])]
<1>1. n \in Nat /\ EncodedHeader(m) \in S
  BY MessageIs, EncodedHeaderIs
<1>2. \A k \in 1..n, t \in S : t \o EncodedArgument(m.args[k]) \in S
  <2>1. \A k \in 1..n : EncodedArgument(m.args[k]) \in S
    BY MessageIs, ElementOfSeq, EncodedArgumentIs
  <2> QED
    BY <2>1, ConcatProperties
<1>3. F \in [(1..n) \X S -> S]
  <2>1. \A p \in (1..n) \X S : p[1] \in 1..n /\ p[2] \in S
    OBVIOUS
  <2> HIDE DEF S
  <2> QED
    BY <1>2, <2>1, Zenon
<1>4. \A k \in 1..n, t \in S : F[<<k, t>>] = t \o EncodedArgument(m.args[k])
  <2>1. \A k \in 1..n, t \in S : <<k, t>> \in (1..n) \X S /\ <<k, t>>[1] = k /\ <<k, t>>[2] = t
    OBVIOUS
  <2> HIDE DEF S
  <2> QED
    BY <2>1, Zenon
<1> HIDE DEF S, F
<1>5. PICK g \in [0..n -> S] : Solves(g, n, EncodedHeader(m), F)
  BY <1>1, <1>3, Recursion
<1>6. \A k \in 0..n : k # 0 => k \in 1..n /\ k - 1 \in 0..n
  BY <1>1, SMT
<1>7. Is(g)
  <2>1. g = [k \in 0..n |-> IF k = 0 THEN EncodedHeader(m) ELSE F[<<k, g[k - 1]>>]]
    BY <1>5, Zenon DEF Solves
  <2>2. \A k \in 0..n : k # 0 => F[<<k, g[k - 1]>>] = g[k - 1] \o EncodedArgument(m.args[k])
    BY <1>4, <1>5, <1>6, Zenon
  <2> QED
    BY <2>1, <2>2, Zenon
<1>8. Encodings(m) = CHOOSE h : Is(h)
  BY Zenon DEF Encodings
<1>9. Is(Encodings(m))
  <2> HIDE DEF Is
  <2> QED BY <1>7, <1>8, Zenon
<1> DEFINE e == Encodings(m)
<1>10. e = [k \in 0..n |-> IF k = 0 THEN EncodedHeader(m)
                           ELSE e[k - 1] \o EncodedArgument(m.args[k])]
  BY <1>9, Zenon
<1> HIDE DEF e, n
<1>11. /\ e[0] = EncodedHeader(m)
       /\ \A k \in 1..n : e[k] = e[k - 1] \o EncodedArgument(m.args[k])
  <2>1. 0 \in 0..n /\ \A k \in 1..n : k \in 0..n /\ k # 0
    BY <1>1, SMT
  <2> QED
    BY <1>10, <2>1, Zenon
<1>12. \A k \in 0..n : e[k] \in S
  <2> DEFINE P == {k \in 0..n : e[k] \in S}
  <2>1. 0 \in P
    <3>1. 0 \in 0..n
      BY <1>1, SMT
    <3> QED
      BY <1>1, <1>11, <3>1, Zenon
  <2>2. ASSUME NEW k \in 1..n, k - 1 \in P PROVE k \in P
    <3>1. e[k - 1] \in S /\ k \in 0..n
      BY <1>1, <2>2, SMT
    <3> QED
      BY <1>2, <1>11, <3>1, Zenon
  <2>3. 0..n \subseteq P
    <3> HIDE DEF P
    <3> QED BY <1>1, <2>1, <2>2, UpTo
  <2> QED
    BY <2>3, Zenon
<1>13. e \in [0..n -> S]
  BY <1>10, <1>12, Zenon
<1> QED
  BY <1>11, <1>13, Zenon DEF e, n, S

\* The encoding of a message, as a whole and as an element of a bundle.
LEMMA EncodedIs ==
  ASSUME NEW m \in Messages
  PROVE  /\ Encoded(m) \in Seq(Octets) /\ Len(Encoded(m)) \in Nat
         /\ Element(m) \in Seq(Octets) /\ Len(Element(m)) = 4 + Len(Encoded(m))
         /\ \A k \in 1..4 : Element(m)[k] = Word(Len(Encoded(m)))[k]
         /\ \A k \in 1..Len(Encoded(m)) : Element(m)[4 + k] = Encoded(m)[k]
<1> DEFINE e == Encoded(m)
           w == Word(Len(e))
<1>1. e \in Seq(Octets) /\ Len(e) \in Nat
  <2>1. Len(m.args) \in Nat /\ Len(m.args) \in 0..Len(m.args)
    BY MessageIs
  <2>2. e \in Seq(Octets)
    BY <2>1, EncodingsAre, Zenon DEF Encoded
  <2> QED
    BY <2>2, LenProperties
<1>2. w \in Seq(Octets) /\ Len(w) = 4
  BY <1>1, WordIs
<1> HIDE DEF e, w
<1>3. /\ w \o e \in Seq(Octets) /\ Len(w \o e) = 4 + Len(e)
      /\ \A k \in 1..4 : (w \o e)[k] = w[k]
      /\ \A k \in 1..Len(e) : (w \o e)[4 + k] = e[k]
  <2>1. /\ w \o e \in Seq(Octets) /\ Len(w \o e) = Len(w) + Len(e)
        /\ \A k \in 1..Len(w) : (w \o e)[k] = w[k]
        /\ \A k \in 1..Len(e) : (w \o e)[Len(w) + k] = e[k]
    BY <1>1, <1>2, JoinIs, Zenon
  <2> DEFINE four == 4
  <2>2. Len(w) = four
    BY <1>2
  <2> HIDE DEF four
  <2>3. /\ Len(w \o e) = four + Len(e)
        /\ \A k \in 1..four : (w \o e)[k] = w[k]
        /\ \A k \in 1..Len(e) : (w \o e)[four + k] = e[k]
    BY <2>1, <2>2, Zenon
  <2> QED
    BY <2>1, <2>3 DEF four
<1> QED
  BY <1>1, <1>3, Zenon DEF Element, e, w

Records == [message : Messages, cut : BOOLEAN]

\* What the recursion over the messages returns.
LEMMA BundlesAre ==
  ASSUME NEW ms \in Seq(Records)
  PROVE  /\ Bundles(ms) \in [0..Len(ms) -> Seq(Octets)]
         /\ Bundles(ms)[0] = BundleId \o Timetag
         /\ \A k \in 1..Len(ms) :
              Bundles(ms)[k] = Bundles(ms)[k - 1] \o Element(ms[k].message)
<1> DEFINE n == Len(ms)
           S == Seq(Octets)
           F == [p \in (1..n) \X S |-> p[2] \o Element(ms[p[1]].message)]
           Is(g) == g = [k \in 0..n |-> IF k = 0 THEN BundleId \o Timetag
                                        ELSE g[k - 1] \o Element(ms[k].message)]
<1>1. n \in Nat /\ BundleId \o Timetag \in S
  <2>1. BundleId \in S
    BY DEF BundleId, Octets
  <2> QED
    BY <2>1, BufferAssumption, LenProperties, ConcatProperties
<1>2. \A k \in 1..n, t \in S : t \o Element(ms[k].message) \in S
  <2>1. \A k \in 1..n : ms[k].message \in Messages
    <3>1. \A k \in 1..n : ms[k] \in Records
      BY ElementOfSeq, Zenon
    <3>2. \A r \in Records : r.message \in Messages
      BY Zenon DEF Records
    <3> QED
      BY <3>1, <3>2, Zenon
  <2>2. \A k \in 1..n : Element(ms[k].message) \in S
    BY <2>1, EncodedIs
  <2> QED
    BY <2>2, ConcatProperties
<1>3. F \in [(1..n) \X S -> S]
  <2>1. \A p \in (1..n) \X S : p[1] \in 1..n /\ p[2] \in S
    OBVIOUS
  <2> HIDE DEF S
  <2> QED
    BY <1>2, <2>1, Zenon
<1>4. \A k \in 1..n, t \in S : F[<<k, t>>] = t \o Element(ms[k].message)
  <2>1. \A k \in 1..n, t \in S : <<k, t>> \in (1..n) \X S /\ <<k, t>>[1] = k /\ <<k, t>>[2] = t
    OBVIOUS
  <2> HIDE DEF S
  <2> QED
    BY <2>1, Zenon
<1> HIDE DEF S, F
<1>5. PICK g \in [0..n -> S] : Solves(g, n, BundleId \o Timetag, F)
  BY <1>1, <1>3, Recursion
<1>6. \A k \in 0..n : k # 0 => k \in 1..n /\ k - 1 \in 0..n
  BY <1>1, SMT
<1>7. Is(g)
  <2>1. g = [k \in 0..n |-> IF k = 0 THEN BundleId \o Timetag ELSE F[<<k, g[k - 1]>>]]
    BY <1>5, Zenon DEF Solves
  <2>2. \A k \in 0..n : k # 0 => F[<<k, g[k - 1]>>] = g[k - 1] \o Element(ms[k].message)
    BY <1>4, <1>5, <1>6, Zenon
  <2> QED
    BY <2>1, <2>2, Zenon
<1>8. Bundles(ms) = CHOOSE h : Is(h)
  BY Zenon DEF Bundles
<1>9. Is(Bundles(ms))
  <2> HIDE DEF Is
  <2> QED BY <1>7, <1>8, Zenon
<1> DEFINE e == Bundles(ms)
<1>10. e = [k \in 0..n |-> IF k = 0 THEN BundleId \o Timetag
                           ELSE e[k - 1] \o Element(ms[k].message)]
  BY <1>9, Zenon
<1> HIDE DEF e, n
<1>11. /\ e[0] = BundleId \o Timetag
       /\ \A k \in 1..n : e[k] = e[k - 1] \o Element(ms[k].message)
  <2>1. 0 \in 0..n /\ \A k \in 1..n : k \in 0..n /\ k # 0
    BY <1>1, SMT
  <2> QED
    BY <1>10, <2>1, Zenon
<1>12. \A k \in 0..n : e[k] \in S
  <2> DEFINE P == {k \in 0..n : e[k] \in S}
  <2>1. 0 \in P
    <3>1. 0 \in 0..n
      BY <1>1, SMT
    <3> QED
      BY <1>1, <1>11, <3>1, Zenon
  <2>2. ASSUME NEW k \in 1..n, k - 1 \in P PROVE k \in P
    <3>1. e[k - 1] \in S /\ k \in 0..n
      BY <1>1, <2>2, SMT
    <3> QED
      BY <1>2, <1>11, <3>1, Zenon
  <2>3. 0..n \subseteq P
    <3> HIDE DEF P
    <3> QED BY <1>1, <2>1, <2>2, UpTo
  <2> QED
    BY <2>3, Zenon
<1>13. e \in [0..n -> S]
  BY <1>10, <1>12, Zenon
<1> QED
  BY <1>11, <1>13, Zenon DEF e, n, S

\* A bundle with a message more is the bundle with an element more.
LEMMA BundleGrows ==
  ASSUME NEW ms \in Seq(Records), NEW r \in Records
  PROVE  /\ Bundles(Append(ms, r))[Len(ms) + 1] = Bundles(ms)[Len(ms)] \o Element(r.message)
         /\ \A k \in 0..Len(ms) : Bundles(Append(ms, r))[k] = Bundles(ms)[k]
<1> DEFINE n  == Len(ms)
           ns == Append(ms, r)
           f  == Bundles(ms)
           g  == Bundles(ns)
           P  == {k \in 0..n : g[k] = f[k]}
<1>1. /\ n \in Nat /\ ns \in Seq(Records) /\ Len(ns) = n + 1 /\ ns[n + 1] = r
      /\ \A k \in 1..n : ns[k] = ms[k]
  BY AppendProperties, LenProperties
<1>2. /\ f[0] = BundleId \o Timetag
      /\ \A k \in 1..n : f[k] = f[k - 1] \o Element(ms[k].message)
  BY BundlesAre, Zenon
<1>3. /\ g[0] = BundleId \o Timetag
      /\ \A k \in 1..(n + 1) : g[k] = g[k - 1] \o Element(ns[k].message)
  <2> HIDE DEF ns, n
  <2> QED BY <1>1, BundlesAre, Zenon
<1> HIDE DEF n, ns, f, g
<1>4. 0 \in P
  <2>1. 0 \in 0..n
    BY <1>1, SMT
  <2> QED
    BY <1>2, <1>3, <2>1, Zenon
<1>5. ASSUME NEW k \in 1..n, k - 1 \in P PROVE k \in P
  <2>1. k \in 0..n /\ k \in 1..(n + 1)
    BY <1>1, SMT
  <2>2. g[k - 1] = f[k - 1]
    BY <1>5, Zenon
  <2> QED
    BY <1>1, <1>2, <1>3, <2>1, <2>2, Zenon
<1>6. 0..n \subseteq P
  <2> HIDE DEF P
  <2> QED BY <1>1, <1>4, <1>5, UpTo
<1>7. n \in 0..n /\ n + 1 \in 1..(n + 1) /\ (n + 1) - 1 = n
  BY <1>1, SMT
<1>8. g[n + 1] = g[(n + 1) - 1] \o Element(ns[n + 1].message)
  BY <1>3, <1>7, Zenon
<1>9. g[n + 1] = g[n] \o Element(r.message)
  BY <1>1, <1>7, <1>8, Zenon
<1>10. \A k \in 0..n : g[k] = f[k]
  BY <1>6, Zenon
<1> QED
  BY <1>7, <1>9, <1>10, Zenon DEF n, ns, f, g

\* Each element of a bundle begins where the one before it ends.
LEMMA BundlesRise ==
  ASSUME NEW ms \in Seq(Records)
  PROVE  /\ \A k \in 0..Len(ms) : Len(Bundles(ms)[k]) \in Nat
         /\ \A k \in 1..Len(ms) :
              Len(Bundles(ms)[k]) = Len(Bundles(ms)[k - 1]) + 4 + Len(Encoded(ms[k].message))
         /\ \A k \in 0..Len(ms) : \A j \in 0..k : Len(Bundles(ms)[j]) <= Len(Bundles(ms)[k])
<1> DEFINE n == Len(ms)
           b == Bundles(ms)
           f == [k \in 0..n |-> Len(b[k])]
           x(k) == Element(ms[k].message)
<1>1. n \in Nat /\ \A k \in 1..n : ms[k].message \in Messages
  <2>1. n \in Nat /\ \A k \in 1..n : ms[k] \in Records
    BY LenProperties, ElementOfSeq, Zenon
  <2> QED
    BY <2>1, Zenon DEF Records
<1>2. /\ b \in [0..n -> Seq(Octets)]
      /\ \A k \in 1..n : b[k] = b[k - 1] \o x(k)
  BY BundlesAre, Zenon
<1>3. \A k \in 1..n : /\ x(k) \in Seq(Octets) /\ Len(x(k)) = 4 + Len(Encoded(ms[k].message))
                      /\ Len(Encoded(ms[k].message)) \in Nat
  BY <1>1, EncodedIs, Zenon
<1> HIDE DEF n, b, x
<1>4. \A k \in 0..n : b[k] \in Seq(Octets) /\ Len(b[k]) \in Nat
  <2>1. \A k \in 0..n : b[k] \in Seq(Octets)
    BY <1>2, Zenon
  <2> QED
    BY <2>1, LenProperties
<1>5. \A k \in 1..n : k \in 0..n /\ k - 1 \in 0..n
  BY <1>1, SMT
<1>6. \A k \in 1..n : /\ Len(b[k]) = Len(b[k - 1]) + 4 + Len(Encoded(ms[k].message))
                      /\ Len(b[k - 1]) <= Len(b[k])
  <2> TAKE k \in 1..n
  <2>1. Len(b[k]) = Len(b[k - 1]) + Len(x(k))
    BY <1>2, <1>3, <1>4, <1>5, JoinIs, Zenon
  <2>2. Len(b[k - 1]) \in Nat /\ Len(b[k]) \in Nat
    BY <1>4, <1>5, Zenon
  <2>3. Len(x(k)) = 4 + Len(Encoded(ms[k].message)) /\ Len(Encoded(ms[k].message)) \in Nat
    BY <1>3, Zenon
  <2>4. Len(b[k]) = Len(b[k - 1]) + (4 + Len(Encoded(ms[k].message)))
    BY <2>1, <2>3, Zenon
  <2> DEFINE p == Len(b[k])
             q == Len(b[k - 1])
             l == Len(Encoded(ms[k].message))
  <2>5. p \in Nat /\ q \in Nat /\ l \in Nat /\ p = q + (4 + l)
    BY <2>2, <2>3, <2>4, Zenon
  <2> HIDE DEF p, q, l
  <2>6. p = q + 4 + l /\ q <= p
    BY <2>5, SMT
  <2> QED
    BY <2>6, Zenon DEF p, q, l
<1>7. f \in [0..n -> Nat] /\ \A k \in 0..n : f[k] = Len(b[k])
  BY <1>4, Zenon
<1> HIDE DEF f
<1>8. \A k \in 1..n : f[k - 1] <= f[k]
  BY <1>5, <1>6, <1>7, Zenon
<1>9. \A k \in 0..n : \A j \in 0..k : f[j] <= f[k]
  BY <1>1, <1>7, <1>8, Rising
<1>10. \A k \in 0..n : \A j \in 0..k : j \in 0..n
  BY <1>1, SMT
<1>11. \A k \in 0..n : \A j \in 0..k : Len(b[j]) <= Len(b[k])
  BY <1>7, <1>9, <1>10, Zenon
<1> QED
  BY <1>4, <1>6, <1>11, Zenon DEF n, b

-----------------------------------------------------------------------------
(* What is put into the buffer.                                            *)

Buffers == [1..Size -> Octets]
Writers == [i : Int, bytes : Buffers, cut : BOOLEAN, spill : BOOLEAN]

\* Putting changes the buffer where it puts, and no further than the buffer goes.
LEMMA PutIs ==
  ASSUME NEW b \in Buffers, NEW at \in Int, NEW t \in Seq(Octets)
  PROVE  /\ Put(b, at, t) \in Buffers
         /\ \A j \in 1..Size :
              Put(b, at, t)[j] = IF j - at \in 1..Len(t) THEN t[j - at] ELSE b[j]
<1>1. DOMAIN b = 1..Size /\ \A j \in 1..Size : b[j] \in Octets
  BY Zenon DEF Buffers
<1>2. DOMAIN t = 1..Len(t) /\ \A k \in 1..Len(t) : t[k] \in Octets
  BY LenProperties, ElementOfSeq
<1>3. Put(b, at, t) = [j \in 1..Size |-> IF j - at \in 1..Len(t) THEN t[j - at] ELSE b[j]]
  BY <1>1, <1>2, Zenon DEF Put
<1>4. \A j \in 1..Size : (IF j - at \in 1..Len(t) THEN t[j - at] ELSE b[j]) \in Octets
  BY <1>1, <1>2, Zenon
<1> QED
  BY <1>3, <1>4, Zenon DEF Buffers

\* strncpy of n bytes.
LEMMA CopyTextIs ==
  ASSUME NEW b \in Buffers, NEW at \in Int, NEW t \in Seq(Octets), NEW n \in Nat
  PROVE  /\ CopyText(b, at, t, n) \in Buffers
         /\ \A j \in 1..Size :
              CopyText(b, at, t, n)[j] =
                IF j - at \in 1..n THEN (IF j - at <= Len(t) THEN t[j - at] ELSE NUL) ELSE b[j]
<1> DEFINE c == [k \in 1..n |-> IF k <= Len(t) THEN t[k] ELSE NUL]
<1>1. \A k \in 1..n : (IF k <= Len(t) THEN t[k] ELSE NUL) \in Octets
  <2>1. Len(t) \in Nat /\ \A k \in 1..Len(t) : t[k] \in Octets
    BY LenProperties, ElementOfSeq
  <2>2. NUL \in Octets
    BY DEF NUL, Octets
  <2>3. \A k \in 1..n : k <= Len(t) => k \in 1..Len(t)
    BY <2>1, SMT
  <2> QED
    BY <2>1, <2>2, <2>3, Zenon
<1>2. c \in Seq(Octets) /\ Len(c) = n
  BY <1>1
<1>3. CopyText(b, at, t, n) = Put(b, at, c)
  BY Zenon DEF CopyText
<1>4. \A k \in 1..n : c[k] = IF k <= Len(t) THEN t[k] ELSE NUL
  BY Zenon
<1> HIDE DEF c
<1>5. /\ Put(b, at, c) \in Buffers
      /\ \A j \in 1..Size :
           Put(b, at, c)[j] = IF j - at \in 1..n THEN c[j - at] ELSE b[j]
  BY <1>2, PutIs, Zenon
<1> QED
  BY <1>3, <1>4, <1>5, Zenon

\* Nothing stands behind the first n bytes.
Clear(b, n) == \A j \in 1..Size : j > n => b[j] = NUL

\* w has written e to the room bytes from base, which were cleared before: nothing
\* in front of them has changed, and e is there if no text was cut.  The padding
\* of e may be behind the room, in the whole words that hold it, the space, where
\* nothing is written.
Holds(w, b, base, room, space, e) ==
  /\ w.i = Len(e) /\ w.i % 4 = 0 /\ w.i <= space /\ ~w.spill
  /\ \A j \in 1..base : w.bytes[j] = b[j]
  /\ ~w.cut => \A k \in 1..Len(e) : w.bytes[base + k] = e[k]
  /\ \A k \in (Len(e) + 1)..space : w.bytes[base + k] = NUL
  /\ Clear(w.bytes, base + room)

\* Writing x behind e.
LEMMA HoldsMore ==
  ASSUME NEW base \in Nat, NEW room \in Nat, NEW space \in Nat, base + space <= Size,
         NEW b \in Buffers, NEW w \in Writers, NEW v \in Writers,
         NEW e \in Seq(Octets), NEW x \in Seq(Octets),
         Holds(w, b, base, room, space, e),
         Len(x) % 4 = 0, Len(e) + Len(x) <= space,
         v.i = w.i + Len(x), ~v.spill, ~v.cut => ~w.cut,
         \A j \in 1..Size : j <= base + w.i => v.bytes[j] = w.bytes[j],
         ~v.cut => \A k \in 1..Len(x) : v.bytes[base + w.i + k] = x[k],
         \A k \in (Len(e) + Len(x) + 1)..space : v.bytes[base + k] = NUL,
         Clear(v.bytes, base + room)
  PROVE  Holds(v, b, base, room, space, e \o x)
<1> DEFINE y == e \o x
           n == Len(e)
           l == Len(x)
<1>1. /\ y \in Seq(Octets) /\ Len(y) = n + l /\ n \in Nat /\ l \in Nat
      /\ \A k \in 1..n : y[k] = e[k]
      /\ \A k \in 1..l : y[n + k] = x[k]
  BY JoinIs
<1>2. w.i = n /\ n % 4 = 0
  BY DEF Holds
<1>3. v.i = Len(y) /\ v.i % 4 = 0 /\ v.i <= space /\ ~v.spill
  <2>1. \A p, q \in Nat : p % 4 = 0 /\ q % 4 = 0 => (p + q) % 4 = 0
    BY SMTT(20)
  <2>2. (n + l) % 4 = 0
    BY <1>1, <1>2, <2>1, Zenon
  <2> HIDE DEF y
  <2> QED
    BY <1>1, <1>2, <2>2
<1> HIDE DEF y
<1>4. Size \in Nat
  BY BufferAssumption
<1>5. \A j \in 1..base : v.bytes[j] = b[j]
  <2>1. \A j \in 1..base : j \in 1..Size /\ j <= base + w.i
    BY <1>1, <1>2, <1>4, SMT
  <2> QED
    BY <2>1, Zenon DEF Holds
<1>6. ASSUME ~v.cut, NEW k \in 1..Len(y) PROVE v.bytes[base + k] = y[k]
  <2>1. CASE k \in 1..n
    <3>1. base + k \in 1..Size /\ base + k <= base + w.i
      BY <1>1, <1>2, <1>4, <2>1, SMT
    <3>2. v.bytes[base + k] = w.bytes[base + k]
      BY <3>1, Zenon
    <3>3. w.bytes[base + k] = e[k]
      BY <1>6, <2>1, Zenon DEF Holds
    <3> QED
      BY <1>1, <2>1, <3>2, <3>3, Zenon
  <2>2. CASE k - n \in 1..l
    <3>1. k = n + (k - n) /\ base + w.i + (k - n) = base + k
      BY <1>1, <1>2, SMT
    <3>2. v.bytes[base + w.i + (k - n)] = x[k - n]
      BY <1>6, <2>2, Zenon
    <3>3. y[n + (k - n)] = x[k - n]
      BY <1>1, <2>2, Zenon
    <3> HIDE DEF n, l
    <3> QED
      BY <3>1, <3>2, <3>3, Zenon
  <2>3. k \in 1..n \/ k - n \in 1..l
    BY <1>1, <1>6, SMT
  <2> QED
    BY <2>1, <2>2, <2>3
<1>7. \A k \in (Len(y) + 1)..space : v.bytes[base + k] = NUL
  BY <1>1, Zenon
<1> QED
  BY <1>3, <1>5, <1>6, <1>7, Zenon DEF Holds, y

\* Multiples of four: one that is less than four above another is not above it.
LEMMA Fits ==
  ASSUME NEW p \in Nat, NEW q \in Nat, NEW r \in Nat,
         p % 4 = 0, q % 4 = 0, r % 4 = 0, p + q < r + 4
  PROVE  p + q <= r
  BY SMT

\* Of two numbers one is above the other, or not.
LEMMA Over == \A p, q \in Nat : p > q \/ p <= q
  BY SMT

\* Where the bytes of a piece of length h stand that goes to offset i of the room.
LEMMA Places ==
  ASSUME NEW base \in Nat, NEW room \in Nat, NEW i \in Nat, NEW h \in Nat, NEW size \in Nat,
         base + room <= size, i + h <= room
  PROVE  /\ \A k \in 1..h : /\ base + i + k \in 1..size /\ (base + i + k) - (base + i) = k
                            /\ base + i + k = base + (i + k) /\ i + k \in (i + 1)..room
         /\ \A l \in Nat, k \in 1..h : /\ k <= l => k \in 1..l
                                       /\ ~(k <= l) => k \in (l + 1)..h /\ ~(k \in 1..l)
  BY SMT

\* The states of the writer.
LEMMA WriterIs ==
  ASSUME NEW i \in Int, NEW bytes \in Buffers, NEW cut \in BOOLEAN, NEW spill \in BOOLEAN
  PROVE  [i |-> i, bytes |-> bytes, cut |-> cut, spill |-> spill] \in Writers
  BY Zenon DEF Writers

\* An error leaves all but the index.
LEMMA StoppedIs ==
  ASSUME NEW w \in Writers, NEW code \in Int
  PROVE  /\ Stopped(w, code) \in Writers /\ Stopped(w, code).i = code
         /\ Stopped(w, code).spill = w.spill
  BY DEF Stopped, Writers

\* A text behind what is there, with its zeros, or nothing.
LEMMA TextHolds ==
  ASSUME NEW base \in Nat, NEW room \in Nat, NEW space \in Nat,
         base + space <= Size, space % 4 = 0, room <= space,
         NEW b \in Buffers, NEW w \in Writers, NEW e \in Seq(Octets),
         Holds(w, b, base, room, space, e),
         NEW t \in Seq(Octets), NEW v, v = WriteText(w, base, room, t, -3)
  PROVE  /\ v \in Writers /\ v.spill = w.spill
         /\ w.i + Len(t) >= room => v.i < 0
         /\ ~(w.i + Len(t) >= room) => Holds(v, b, base, room, space, e \o Terminated(t))
<1> DEFINE i == w.i
           l == Len(t)
           n == room - i - l
           x == Terminated(t)
<1>1. /\ i \in Nat /\ i = Len(e) /\ i % 4 = 0 /\ i <= space /\ l \in Nat
      /\ w.bytes \in Buffers /\ w.cut \in BOOLEAN /\ w.spill \in BOOLEAN
      /\ w.i = i /\ Len(t) = l /\ n = room - i - l /\ Size \in Nat
  BY LenProperties, BufferAssumption DEF Holds, Writers
<1>2. PICK code \in Int : code = -3
  BY SMT
<1>3. v = WriteText(w, base, room, t, code) /\ code < 0
  <2>1. code < 0
    BY <1>2, SMT
  <2> QED
    BY <1>2, <2>1, Zenon
<1>4. CASE i + l >= room
  <2>1. v = Stopped(w, code)
    BY <1>4, <1>3, Zenon DEF WriteText
  <2>2. v \in Writers /\ v.spill = w.spill /\ v.i = code
    BY <2>1, StoppedIs, ZenonT(30)
  <2> QED
    BY <1>4, <1>3, <2>2, Zenon
<1>5. CASE ~(i + l >= room)
  <2>1. v = [i |-> Align(i + 4 + l), bytes |-> CopyText(w.bytes, base + i, t, n),
             cut |-> w.cut \/ l > n, spill |-> w.spill]
    BY <1>5, <1>3, Zenon DEF WriteText
  <2>2. /\ x \in Seq(Octets) /\ Len(x) = Align(l + 4)
        /\ \A k \in 1..l : x[k] = t[k]
        /\ \A k \in (l + 1)..Align(l + 4) : x[k] = NUL
    BY TerminatedIs, Zenon
  <2> HIDE DEF x
  <2>3. /\ Align(i + 4 + l) = i + Len(x)
        /\ Len(x) % 4 = 0 /\ l < Len(x) /\ Len(x) \in Nat
        /\ i + Len(x) <= space /\ n \in Nat /\ base + i \in Int
    <3> HIDE DEF i, l, n
    <3>1. l + 4 \in Nat /\ i + 4 + l = i + (l + 4)
      BY <1>1, SMT
    <3>2. Align(i + 4 + l) = i + Align(l + 4)
      BY <1>1, <3>1, AlignIs, Zenon
    <3>3. /\ Align(l + 4) \in Nat /\ Align(l + 4) % 4 = 0
          /\ Align(l + 4) <= l + 4 /\ l + 4 < Align(l + 4) + 4
      BY <3>1, AlignIs, Zenon
    <3>4. i + Align(l + 4) <= space
      <4> DEFINE q == Align(l + 4)
      <4>1. q \in Nat /\ q % 4 = 0 /\ q <= l + 4
        BY <3>3, Zenon
      <4> HIDE DEF q
      <4>2. i + q < space + 4
        BY <1>1, <1>5, <4>1, SMT
      <4> QED
        BY <1>1, <4>1, <4>2, Fits, Zenon DEF q
    <3>5. n \in Nat /\ base + i \in Int
      BY <1>1, <1>5, SMT
    <3>6. l < Align(l + 4)
      BY <1>1, <3>3, SMT
    <3> QED
      BY <2>2, <3>2, <3>3, <3>4, <3>5, <3>6, Zenon
  <2>4. /\ CopyText(w.bytes, base + i, t, n) \in Buffers
        /\ \A j \in 1..Size : CopyText(w.bytes, base + i, t, n)[j] =
             IF j - (base + i) \in 1..n
             THEN (IF j - (base + i) <= l THEN t[j - (base + i)] ELSE NUL) ELSE w.bytes[j]
    <3>1. w.bytes \in Buffers /\ n \in Nat /\ base + i \in Int
      BY <1>1, <2>3, Zenon
    <3>2. \A p \in Nat :
            /\ CopyText(w.bytes, base + i, t, p) \in Buffers
            /\ \A j \in 1..Size : CopyText(w.bytes, base + i, t, p)[j] =
                 IF j - (base + i) \in 1..p
                 THEN (IF j - (base + i) <= l THEN t[j - (base + i)] ELSE NUL) ELSE w.bytes[j]
      BY <3>1, CopyTextIs, Zenon
    <3> QED
      BY <3>1, <3>2, Zenon
  <2>5. /\ v.i = w.i + Len(x) /\ v.spill = w.spill /\ (v.cut <=> w.cut \/ l > n)
        /\ v.bytes = CopyText(w.bytes, base + i, t, n)
    <3>1. Align(i + 4 + l) = i + Len(x)
      BY <2>3, Zenon
    <3> DEFINE c == CopyText(w.bytes, base + i, t, n)
               d == w.cut \/ l > n
    <3>2. v = [i |-> i + Len(x), bytes |-> c, cut |-> d, spill |-> w.spill]
      BY <2>1, <3>1, Zenon
    <3> HIDE DEF c, d
    <3>3. v.i = i + Len(x) /\ v.spill = w.spill /\ v.cut = d /\ v.bytes = c
      BY <3>2, SMT
    <3> QED
      BY <3>3, Zenon DEF c, d
  <2> HIDE DEF i, l, n
  <2>8. ~v.cut => ~w.cut /\ l <= n
    <3>1. l > n \/ l <= n
      BY <1>1, <2>3, Over, Zenon
    <3> QED
      BY <2>5, <3>1, Zenon
  <2>6. v \in Writers
    <3>1. Align(i + 4 + l) \in Int
      BY <1>1, <2>3, SMT
    <3>2. (w.cut \/ l > n) \in BOOLEAN
      BY <1>1
    <3> QED
      BY <1>1, <2>1, <2>4, <3>1, <3>2, WriterIs, Zenon
  <2>7. \A j \in 1..Size : v.bytes[j] =
             IF j - (base + i) \in 1..n
             THEN (IF j - (base + i) <= l THEN t[j - (base + i)] ELSE NUL) ELSE w.bytes[j]
    BY <2>4, <2>5, Zenon
  <2>9. \A j \in 1..Size : j <= base + w.i => v.bytes[j] = w.bytes[j]
    <3>1. \A j \in 1..Size : j <= base + i => ~(j - (base + i) \in 1..n)
      BY <1>1, <2>3, SMT
    <3> QED
      BY <1>1, <2>7, <3>1, Zenon
  <2>10. \A k \in (i + 1)..space : w.bytes[base + k] = NUL
    BY <1>1, Zenon DEF Holds
  <2>11. ASSUME ~v.cut, NEW k \in 1..Len(x) PROVE v.bytes[base + w.i + k] = x[k]
    <3> DEFINE h == Len(x)
    <3>1. h \in Nat /\ i + h <= space /\ k \in 1..h /\ l < h /\ h = Len(x) /\ h = Align(l + 4)
      BY <2>2, <2>3, <2>11, Zenon
    <3> HIDE DEF h
    <3>2. /\ base + i + k \in 1..Size /\ (base + i + k) - (base + i) = k
          /\ base + i + k = base + (i + k) /\ i + k \in (i + 1)..space
      BY <1>1, <3>1, Places, ZenonT(30)
    <3>3. v.bytes[base + i + k] =
            IF k \in 1..n THEN (IF k <= l THEN t[k] ELSE NUL) ELSE w.bytes[base + i + k]
      BY <2>7, <3>2, Zenon
    <3>4. w.bytes[base + i + k] = NUL
      BY <2>10, <3>2, Zenon
    <3>5. l <= n
      BY <2>8, <2>11, Zenon
    <3>6. CASE k <= l
      <4>1. k \in 1..n /\ k \in 1..l
        BY <1>1, <2>3, <3>1, <3>5, <3>6, SMTT(20)
      <4> QED
        BY <1>1, <2>2, <3>3, <3>6, <4>1, Zenon
    <3>7. CASE ~(k <= l)
      <4>1. k \in (l + 1)..h
        BY <1>1, <3>1, <3>7, SMT
      <4> QED
        BY <1>1, <2>2, <3>1, <3>3, <3>4, <3>7, <4>1, Zenon
    <3> QED
      BY <3>6, <3>7, Zenon
  <2>12. ASSUME NEW k \in (Len(e) + Len(x) + 1)..space PROVE v.bytes[base + k] = NUL
    <3> DEFINE h == Len(x)
    <3>1. h \in Nat /\ k \in (i + h + 1)..space /\ l < h
      BY <1>1, <2>3, <2>12, Zenon
    <3> HIDE DEF h
    <3>2. base + k \in 1..Size /\ k \in (i + 1)..space /\ ~((base + k) - (base + i) <= l)
      BY <1>1, <3>1, SMT
    <3> QED
      BY <2>7, <2>10, <3>2, Zenon
  <2>13. ~v.spill
    BY <2>5, Zenon DEF Holds
  <2>14. Len(e) + Len(x) <= space
    BY <1>1, <2>3, Zenon
  <2>15. Clear(v.bytes, base + room)
    <3>1. \A j \in 1..Size : j > base + room => ~(j - (base + i) \in 1..n)
      BY <1>1, <2>3, SMT
    <3>2. Clear(w.bytes, base + room)
      BY Zenon DEF Holds
    <3> QED
      BY <2>7, <3>1, <3>2, Zenon DEF Clear
  <2>16. Holds(v, b, base, room, space, e \o x)
    BY <2>2, <2>3, <2>5, <2>8, <2>6, <2>9, <2>11, <2>12, <2>13, <2>14, <2>15,
       HoldsMore, ZenonT(60)
  <2> QED
    BY <1>1, <1>5, <2>5, <2>6, <2>16, Zenon DEF x
<1> QED
  BY <1>4, <1>5, Zenon

\* Plain bytes behind what is there, filled up to a word, or nothing.
LEMMA BytesHold ==
  ASSUME NEW base \in Nat, NEW room \in Nat, NEW space \in Nat,
         base + space <= Size, space % 4 = 0, room <= space,
         NEW b \in Buffers, NEW w \in Writers, NEW e \in Seq(Octets),
         Holds(w, b, base, room, space, e),
         NEW t \in Seq(Octets), NEW v, v = WriteBytes(w, base, room, t)
  PROVE  /\ v \in Writers /\ v.spill = w.spill
         /\ w.i + Len(t) > room => v.i < 0
         /\ ~(w.i + Len(t) > room) => Holds(v, b, base, room, space, e \o Filled(t))
<1> DEFINE i == w.i
           l == Len(t)
           x == Filled(t)
<1>1. /\ i \in Nat /\ i = Len(e) /\ i % 4 = 0 /\ i <= space /\ l \in Nat
      /\ w.bytes \in Buffers /\ w.cut \in BOOLEAN /\ w.spill \in BOOLEAN
      /\ w.i = i /\ Len(t) = l /\ Size \in Nat
  <2>1. /\ w.i \in Int /\ w.bytes \in Buffers /\ w.cut \in BOOLEAN /\ w.spill \in BOOLEAN
        /\ w.i = Len(e) /\ w.i % 4 = 0 /\ w.i <= space
    BY Zenon DEF Holds, Writers
  <2>2. Len(e) \in Nat /\ Len(t) \in Nat /\ Size \in Nat
    BY LenProperties, BufferAssumption, Zenon
  <2> QED
    BY <2>1, <2>2, Zenon
<1>2. CASE i + l > room
  <2> DEFINE code == -3
  <2>1. v = Stopped(w, code)
    BY <1>2, Zenon DEF WriteBytes
  <2>2. code \in Int /\ code < 0
    BY SMT
  <2> HIDE DEF code
  <2>3. v \in Writers /\ v.i = code /\ v.spill = w.spill
    BY <2>1, <2>2, StoppedIs, ZenonT(30)
  <2> QED
    BY <1>2, <2>2, <2>3, Zenon
<1>3. CASE ~(i + l > room)
  <2>1. v = [w EXCEPT !.i = Align(i + 3 + l), !.bytes = Put(w.bytes, base + i, t)]
    BY <1>3, Zenon DEF WriteBytes
  <2>2. /\ x \in Seq(Octets) /\ Len(x) = Align(l + 3)
        /\ \A k \in 1..l : x[k] = t[k]
        /\ \A k \in (l + 1)..Align(l + 3) : x[k] = NUL
    BY FilledIs, Zenon
  <2> HIDE DEF x, i, l
  <2>3. /\ Align(i + 3 + l) = i + Len(x)
        /\ Len(x) % 4 = 0 /\ l <= Len(x) /\ Len(x) \in Nat
        /\ i + Len(x) <= space /\ base + i \in Int
    <3>1. l + 3 \in Nat /\ i + 3 + l = i + (l + 3) /\ base + i \in Int
      BY <1>1, SMT
    <3>2. Align(i + 3 + l) = i + Align(l + 3)
      BY <1>1, <3>1, AlignIs, Zenon
    <3>3. /\ Align(l + 3) \in Nat /\ Align(l + 3) % 4 = 0
          /\ Align(l + 3) <= l + 3 /\ l + 3 < Align(l + 3) + 4
      BY <3>1, AlignIs, Zenon
    <3>4. i + Align(l + 3) <= space
      <4> DEFINE q == Align(l + 3)
      <4>1. q \in Nat /\ q % 4 = 0 /\ q <= l + 3
        BY <3>3, Zenon
      <4> HIDE DEF q
      <4>2. i + q < space + 4
        BY <1>1, <1>3, <4>1, SMT
      <4> QED
        BY <1>1, <4>1, <4>2, Fits, Zenon DEF q
    <3>5. l <= Align(l + 3)
      BY <1>1, <3>3, SMT
    <3> QED
      BY <2>2, <3>1, <3>2, <3>3, <3>4, <3>5, Zenon
  <2>4. /\ Put(w.bytes, base + i, t) \in Buffers
        /\ \A j \in 1..Size : Put(w.bytes, base + i, t)[j] =
             IF j - (base + i) \in 1..l THEN t[j - (base + i)] ELSE w.bytes[j]
    BY <1>1, <2>3, PutIs, ZenonT(30)
  <2>5. /\ v.i = w.i + Len(x) /\ v.spill = w.spill /\ v.cut = w.cut
        /\ v.bytes = Put(w.bytes, base + i, t)
    BY <1>1, <2>1, <2>3, Zenon DEF Writers
  <2>6. v \in Writers
    <3>1. Align(i + 3 + l) \in Int
      BY <1>1, <2>3, SMT
    <3>2. v = [i |-> Align(i + 3 + l), bytes |-> Put(w.bytes, base + i, t),
               cut |-> w.cut, spill |-> w.spill]
      BY <2>1, Zenon DEF Writers
    <3> QED
      BY <1>1, <2>4, <3>1, <3>2, WriterIs, Zenon
  <2>7. \A j \in 1..Size : v.bytes[j] =
             IF j - (base + i) \in 1..l THEN t[j - (base + i)] ELSE w.bytes[j]
    BY <2>4, <2>5, Zenon
  <2>9. \A j \in 1..Size : j <= base + w.i => v.bytes[j] = w.bytes[j]
    <3>1. \A j \in 1..Size : j <= base + i => ~(j - (base + i) \in 1..l)
      BY <1>1, <2>3, SMT
    <3> QED
      BY <1>1, <2>7, <3>1, Zenon
  <2>10. \A k \in (i + 1)..space : w.bytes[base + k] = NUL
    BY <1>1, Zenon DEF Holds
  <2>11. ASSUME NEW k \in 1..Len(x) PROVE v.bytes[base + w.i + k] = x[k]
    <3> DEFINE h == Len(x)
    <3>1. h \in Nat /\ i + h <= space /\ k \in 1..h /\ l <= h /\ h = Len(x) /\ h = Align(l + 3)
      BY <2>2, <2>3, <2>11, Zenon
    <3> HIDE DEF h
    <3>2. /\ base + i + k \in 1..Size /\ (base + i + k) - (base + i) = k
          /\ base + i + k = base + (i + k) /\ i + k \in (i + 1)..space
      BY <1>1, <3>1, Places, ZenonT(30)
    <3>3. v.bytes[base + i + k] = IF k \in 1..l THEN t[k] ELSE w.bytes[base + i + k]
      BY <2>7, <3>2, Zenon
    <3>4. w.bytes[base + i + k] = NUL
      BY <2>10, <3>2, Zenon
    <3>5. (k \in 1..l) \/ ((k \in (l + 1)..h) /\ ~(k \in 1..l))
      <4>1. /\ k <= l => k \in 1..l
            /\ ~(k <= l) => k \in (l + 1)..h /\ ~(k \in 1..l)
        BY <1>1, <3>1, Places
      <4> QED
        BY <4>1, Zenon
    <3> QED
      BY <1>1, <2>2, <3>1, <3>3, <3>4, <3>5, Zenon
  <2>12. ASSUME NEW k \in (Len(e) + Len(x) + 1)..space PROVE v.bytes[base + k] = NUL
    <3> DEFINE h == Len(x)
    <3>1. h \in Nat /\ k \in (i + h + 1)..space /\ l <= h
      BY <1>1, <2>3, <2>12, Zenon
    <3> HIDE DEF h
    <3>2. base + k \in 1..Size /\ k \in (i + 1)..space /\ ~((base + k) - (base + i) \in 1..l)
      BY <1>1, <3>1, SMT
    <3> QED
      BY <2>7, <2>10, <3>2, Zenon
  <2>13. ~v.spill
    BY <2>5, Zenon DEF Holds
  <2>14. Len(e) + Len(x) <= space
    BY <1>1, <2>3, Zenon
  <2>15. Clear(v.bytes, base + room)
    <3>1. \A j \in 1..Size : j > base + room => ~(j - (base + i) \in 1..l)
      BY <1>1, <1>3, <2>3, SMT
    <3>2. Clear(w.bytes, base + room)
      BY Zenon DEF Holds
    <3> QED
      BY <2>7, <3>1, <3>2, Zenon DEF Clear
  <2>16. Holds(v, b, base, room, space, e \o x)
    BY <2>2, <2>3, <2>5, <2>6, <2>9, <2>11, <2>12, <2>13, <2>14, <2>15,
       HoldsMore, ZenonT(60)
  <2> QED
    BY <1>1, <1>3, <2>5, <2>6, <2>16, Zenon DEF x
<1> QED
  BY <1>2, <1>3, Zenon

\* The address stands in the cleared room, with its zeros, before the comma is put.
LEMMA AddressHolds ==
  ASSUME NEW base \in Nat, NEW room \in Nat, NEW space \in Nat,
         base + space <= Size, space % 4 = 0, room <= space,
         NEW b \in Buffers, Clear(b, base + room), NEW m \in Messages, Len(m.address) < room,
         NEW c, c = CopyText(Put(b, base, Zeros(room)), base, m.address, room),
         NEW w, w = [i |-> Align(Len(m.address) + 4), bytes |-> c, cut |-> FALSE, spill |-> FALSE]
  PROVE  c \in Buffers /\ w \in Writers /\ Holds(w, b, base, room, space, Terminated(m.address))
<1> DEFINE t == m.address
           a == Len(t)
           i == Align(a + 4)
           e == Terminated(t)
           z == Put(b, base, Zeros(room))
<1>1. t \in Seq(Octets) /\ a \in Nat /\ a + 4 \in Nat
  <2>1. t \in Seq(Octets) /\ a \in Nat
    BY MessageIs, Zenon
  <2> HIDE DEF a
  <2> QED BY <2>1, SMT
<1>2. i \in Nat /\ i % 4 = 0 /\ i <= a + 4 /\ a + 4 < i + 4
  BY <1>1, AlignIs, Zenon
<1>3. /\ e \in Seq(Octets) /\ Len(e) = i
      /\ \A k \in 1..a : e[k] = t[k]
      /\ \A k \in (a + 1)..i : e[k] = NUL
  BY <1>1, TerminatedIs, Zenon
<1>4. base \in Int /\ Size \in Nat
  BY BufferAssumption, SMT
<1>5. z \in Buffers /\ \A j \in 1..Size : ~(j - base \in 1..room) => z[j] = b[j]
  <2> DEFINE y == Zeros(room)
  <2>1. y \in Seq(Octets) /\ Len(y) = room
    BY ZerosAre, Zenon
  <2> HIDE DEF y
  <2>2. /\ Put(b, base, y) \in Buffers
        /\ \A j \in 1..Size :
             Put(b, base, y)[j] = IF j - base \in 1..Len(y) THEN y[j - base] ELSE b[j]
    BY <1>4, <2>1, PutIs, Zenon
  <2> QED
    BY <2>1, <2>2, Zenon DEF y
<1> HIDE DEF z
<1>6. /\ CopyText(z, base, t, room) \in Buffers
      /\ \A j \in 1..Size : CopyText(z, base, t, room)[j] =
           IF j - base \in 1..room THEN (IF j - base <= a THEN t[j - base] ELSE NUL) ELSE z[j]
  BY <1>1, <1>4, <1>5, CopyTextIs, ZenonT(30)
<1>7. c = CopyText(z, base, t, room)
  BY Zenon DEF z
<1>8. /\ c \in Buffers
      /\ \A j \in 1..Size : c[j] =
           IF j - base \in 1..room THEN (IF j - base <= a THEN t[j - base] ELSE NUL) ELSE b[j]
  BY <1>5, <1>6, <1>7, Zenon
<1>9. a < room
  BY Zenon
<1>10. w.i = i /\ w.bytes = c /\ w.cut = FALSE /\ w.spill = FALSE
  BY Zenon
<1> HIDE DEF t, a, i, e
<1>11. w \in Writers
  <2>1. i \in Int
    BY <1>2, SMT
  <2>2. FALSE \in BOOLEAN
    OBVIOUS
  <2> QED
    BY <1>8, <2>1, <2>2, WriterIs, Zenon DEF i, a, t
<1>12. i <= space
  <2>1. 0 + i < space + 4 /\ 0 \in Nat /\ 0 % 4 = 0 /\ 0 + i = i
    BY <1>1, <1>2, <1>9, SMT
  <2> QED
    BY <1>2, <2>1, Fits, Zenon
<1>13. \A j \in 1..base : c[j] = b[j]
  <2>1. \A j \in 1..base : j \in 1..Size /\ ~(j - base \in 1..room)
    BY <1>4, SMT
  <2> QED
    BY <1>8, <2>1, Zenon
<1>14. \A k \in 1..space : /\ k <= a => c[base + k] = t[k]
                           /\ ~(k <= a) => c[base + k] = NUL
  <2>1. \A k \in 1..space : /\ base + k \in 1..Size /\ (base + k) - base = k
                            /\ k <= a => k \in 1..room
                            /\ ~(k \in 1..room) => base + k > base + room
    BY <1>1, <1>4, <1>9, SMT
  <2> TAKE k \in 1..space
  <2>2. /\ base + k \in 1..Size /\ (base + k) - base = k
        /\ k <= a => k \in 1..room
        /\ ~(k \in 1..room) => base + k > base + room
    BY <2>1, Zenon
  <2>3. c[base + k] = IF k \in 1..room THEN (IF k <= a THEN t[k] ELSE NUL) ELSE b[base + k]
    BY <1>8, <2>2, Zenon
  <2>4. ~(k \in 1..room) => b[base + k] = NUL
    BY <2>2, Zenon DEF Clear
  <2> QED
    BY <2>2, <2>3, <2>4, Zenon
<1>15. \A k \in 1..i : c[base + k] = e[k]
  <2>1. \A k \in 1..i : k \in 1..space /\ (k <= a => k \in 1..a) /\ (~(k <= a) => k \in (a + 1)..i)
    BY <1>1, <1>2, <1>12, SMT
  <2> QED
    BY <1>3, <1>14, <2>1, Zenon
<1>16. \A k \in (i + 1)..space : c[base + k] = NUL
  <2>1. \A k \in (i + 1)..space : k \in 1..space /\ ~(k <= a)
    BY <1>1, <1>2, SMT
  <2> QED
    BY <1>14, <2>1, Zenon
<1>17. Clear(c, base + room)
  <2>1. \A j \in 1..Size : j > base + room => ~(j - base \in 1..room)
    BY <1>4, SMT
  <2> QED
    BY <1>8, <2>1, Zenon DEF Clear
<1>18. Holds(w, b, base, room, space, e)
  BY <1>2, <1>3, <1>10, <1>12, <1>13, <1>15, <1>16, <1>17, Zenon DEF Holds
<1> QED
  BY <1>8, <1>11, <1>18, Zenon DEF e, t

\* The address, the comma and the types, or an error.
LEMMA HeaderHolds ==
  ASSUME NEW base \in Nat, NEW room \in Nat, NEW space \in Nat,
         base + space <= Size, space % 4 = 0, room <= space,
         NEW b \in Buffers, Clear(b, base + room), NEW m \in Messages,
         NEW v, v = WriteHeader(b, base, room, m)
  PROVE  /\ v \in Writers
         /\ v.i >= 0 => Holds(v, b, base, room, space, EncodedHeader(m))
         /\ v.i < 0 => Len(EncodedHeader(m)) > room
<1> DEFINE a == Len(m.address)
           n == Len(m.args)
           i == Align(a + 4)
           h == Align(n + 5)
           t == Types(m)
           z == Put(b, base, Zeros(room))
           c == CopyText(z, base, m.address, room)
           d == Put(c, base + i, <<Comma>>)
           q == room - (i + 1) - n
           e == Terminated(m.address)
           x == Terminated(<<Comma>> \o t)
           u == [i |-> i, bytes |-> c, cut |-> FALSE, spill |-> FALSE]
           w == WriteAddress(b, base, room, m)
<1>1. a \in Nat /\ n \in Nat /\ t \in Seq(Octets) /\ Len(t) = n
  BY MessageIs, Zenon
<1>2. /\ i \in Nat /\ i % 4 = 0 /\ i <= a + 4 /\ a + 4 < i + 4
      /\ h \in Nat /\ h % 4 = 0 /\ h <= n + 5 /\ n + 5 < h + 4
  <2> HIDE DEF a, n
  <2>1. a + 4 \in Nat /\ n + 5 \in Nat
    BY <1>1, SMT
  <2> QED
    BY <2>1, AlignIs, Zenon
<1>3. Size \in Nat /\ -1 \in Int /\ -2 \in Int /\ (-1 < 0) /\ (-2 < 0) /\ ~(-1 >= 0) /\ ~(-2 >= 0)
  BY BufferAssumption, SMT
<1>4. Len(EncodedHeader(m)) = i + h
  BY EncodedHeaderIs, Zenon
<1>5. CASE a >= room
  <2>1. v = [i |-> -1, bytes |-> z, cut |-> FALSE, spill |-> FALSE]
    <3>1. w = [i |-> -1, bytes |-> z, cut |-> FALSE, spill |-> FALSE]
      BY <1>5, Zenon DEF WriteAddress
    <3>2. w.i < 0
      BY <1>3, <3>1
    <3> QED
      BY <3>1, <3>2, Zenon DEF WriteHeader
  <2>2. z \in Buffers
    <3>1. Zeros(room) \in Seq(Octets) /\ base \in Int
      BY ZerosAre
    <3> QED
      BY <3>1, PutIs, Zenon
  <2>3. v \in Writers /\ v.i = -1
    <3> HIDE DEF z
    <3> QED BY <2>1, <2>2 DEF Writers
  <2>4. i + h > room
    <3> HIDE DEF a, n, i, h
    <3> QED BY <1>1, <1>2, <1>5, SMT
  <2> HIDE DEF i, h
  <2> QED
    BY <1>3, <1>4, <2>3, <2>4, SMT
<1>6. CASE ~(a >= room)
  <2>1. a < room
    <3> HIDE DEF a
    <3> QED BY <1>1, <1>6, SMT
  <2>2. c \in Buffers /\ u \in Writers /\ Holds(u, b, base, room, space, e)
    BY <2>1, AddressHolds, Zenon
  <2>3. w = [i |-> i + 1, bytes |-> d, cut |-> FALSE, spill |-> i >= room]
    BY <1>6, Zenon DEF WriteAddress
  <2> HIDE DEF c, z
  <2>4. /\ d \in Buffers
        /\ \A j \in 1..Size : d[j] = IF j - (base + i) \in 1..1 THEN Comma ELSE c[j]
    <3>1. <<Comma>> \in Seq(Octets) /\ Len(<<Comma>>) = 1 /\ \A k \in 1..1 : <<Comma>>[k] = Comma
      <4>1. Comma \in Octets
        BY DEF Comma, Octets
      <4>2. \A y \in Octets : <<y>> \in Seq(Octets) /\ Len(<<y>>) = 1 /\ \A k \in 1..1 : <<y>>[k] = y
        BY SMT
      <4> QED
        BY <4>1, <4>2, Zenon
    <3>2. base + i \in Int
      <4> HIDE DEF i
      <4> QED BY <1>2, SMT
    <3> DEFINE s == <<Comma>>
    <3> HIDE DEF s, i
    <3>3. /\ Put(c, base + i, s) \in Buffers
          /\ \A j \in 1..Size :
               Put(c, base + i, s)[j] = IF j - (base + i) \in 1..Len(s) THEN s[j - (base + i)] ELSE c[j]
      BY <2>2, <3>1, <3>2, PutIs, Zenon DEF s
    <3> QED
      BY <3>1, <3>3, Zenon DEF s
  <2> HIDE DEF d
  <2>5. w \in Writers /\ w.i = i + 1 /\ w.bytes = d /\ w.cut = FALSE /\ w.spill = (i >= room)
        /\ ~(w.i < 0)
    <3>1. i + 1 \in Int /\ ~(i + 1 < 0)
      <4> HIDE DEF i
      <4> QED BY <1>2, SMT
    <3> DEFINE r == i + 1
               y == (i >= room)
    <3>2. y \in BOOLEAN
      OBVIOUS
    <3>3. w = [i |-> r, bytes |-> d, cut |-> FALSE, spill |-> y]
      BY <2>3, Zenon
    <3> HIDE DEF w, r, y
    <3>4. w \in Writers /\ w.i = r /\ w.bytes = d /\ w.cut = FALSE /\ w.spill = y
      BY <2>4, <3>1, <3>2, <3>3 DEF Writers, r
    <3> QED
      BY <3>1, <3>4, Zenon DEF r, y
  <2>6. v = WriteText(w, base, room, t, -2)
    BY <2>5, Zenon DEF WriteHeader
  <2>7. CASE w.i + n >= room
    <3>1. v = Stopped(w, -2)
      BY <1>1, <2>6, <2>7, Zenon DEF WriteText
    <3> DEFINE code == -2
    <3>4. v = Stopped(w, code) /\ code \in Int
      BY <1>3, <3>1
    <3>2. v \in Writers /\ v.i = code
      <4> HIDE DEF code, w, a, n, i, h, t, q, e, x, u
      <4>1. w \in Writers
        BY <2>5, Zenon
      <4>2. \A y \in Writers, r \in Int :
              Stopped(y, r) \in Writers /\ Stopped(y, r).i = r
        BY StoppedIs, Zenon
      <4> QED
        BY <3>4, <4>1, <4>2, Zenon
    <3>3. i + h > room
      <4>1. i + 1 + n >= room
        BY <2>5, <2>7, Zenon
      <4> HIDE DEF a, n, i, h
      <4> QED BY <1>1, <1>2, <4>1, SMT
    <3> HIDE DEF i, h
    <3> QED
      BY <1>3, <1>4, <3>2, <3>3, SMT
  <2>8. CASE ~(w.i + n >= room)
    <3>1. v = [i |-> Align(w.i + 4 + n), bytes |-> CopyText(w.bytes, base + w.i, t, room - w.i - n),
               cut |-> w.cut \/ n > room - w.i - n, spill |-> w.spill]
      BY <1>1, <2>6, <2>8, Zenon DEF WriteText
    <3>2. ~(i + 1 + n >= room)
      BY <2>5, <2>8, Zenon
    <3>3. i + h <= space
      <4> HIDE DEF a, n, i, h
      <4>1. i + h < space + 4
        BY <1>1, <1>2, <3>2, SMT
      <4> QED
        BY <1>2, <4>1, Fits, Zenon
    <3>4. Align((i + 1) + 4 + n) = i + h
      <4>1. (i + 1) + 4 + n = i + (n + 5) /\ n + 5 \in Nat
        <5> HIDE DEF n, i
        <5> QED BY <1>1, <1>2, SMT
      <4>2. Align(i + (n + 5)) = i + Align(n + 5)
        <5> HIDE DEF i
        <5> QED BY <1>2, <4>1, AlignIs, Zenon
      <4> QED
        BY <4>1, <4>2, Zenon
    <3>5. ~(i >= room) /\ q \in Nat /\ base + (i + 1) \in Int /\ (n > q \/ n <= q)
      <4> HIDE DEF n, i
      <4>1. ~(i >= room) /\ q \in Nat /\ base + (i + 1) \in Int
        BY <1>1, <1>2, <3>2, SMT
      <4> HIDE DEF q
      <4> QED BY <1>1, <4>1, Over, Zenon
    <3> DEFINE f == CopyText(d, base + (i + 1), t, q)
               g == FALSE \/ n > q
               y == (i >= room)
    <3>6. v = [i |-> i + h, bytes |-> f, cut |-> g, spill |-> y]
      <4> HIDE DEF w, i, h, n
      <4> QED BY <2>5, <3>1, <3>4, Zenon
    <3>7. /\ f \in Buffers
          /\ \A j \in 1..Size : f[j] =
               IF j - (base + (i + 1)) \in 1..q
               THEN (IF j - (base + (i + 1)) <= n THEN t[j - (base + (i + 1))] ELSE NUL) ELSE d[j]
      <4>1. \A p \in Nat :
              /\ CopyText(d, base + (i + 1), t, p) \in Buffers
              /\ \A j \in 1..Size : CopyText(d, base + (i + 1), t, p)[j] =
                   IF j - (base + (i + 1)) \in 1..p
                   THEN (IF j - (base + (i + 1)) <= Len(t) THEN t[j - (base + (i + 1))] ELSE NUL)
                   ELSE d[j]
        <5> HIDE DEF t, i
        <5> QED BY <1>1, <2>4, <3>5, CopyTextIs, Zenon
      <4> HIDE DEF t, n, i
      <4> QED
        BY <1>1, <3>5, <4>1, Zenon
    <3>8. /\ v \in Writers /\ v.i = i + h /\ v.bytes = f /\ ~v.spill /\ (~v.cut => n <= q)
          /\ i + h \in Nat /\ ~(i + h < 0)
      <4>1. g \in BOOLEAN /\ y \in BOOLEAN
        OBVIOUS
      <4>2. i + h \in Int /\ i + h \in Nat /\ ~(i + h < 0)
        <5> HIDE DEF i, h
        <5> QED BY <1>2, SMT
      <4> DEFINE r == i + h
      <4> HIDE DEF f, g, y, r
      <4>3. v = [i |-> r, bytes |-> f, cut |-> g, spill |-> y]
        BY <3>6, Zenon DEF r
      <4>4. v.i = r /\ v.bytes = f /\ v.cut = g /\ v.spill = y
        BY <4>3, SMT
      <4>5. v \in Writers
        BY <3>7, <4>1, <4>2, <4>3, WriterIs, Zenon DEF r
      <4>6. ~y /\ (~g => n <= q)
        <5> HIDE DEF n, q, i
        <5> QED BY <3>5, Zenon DEF g, y
      <4> QED
        BY <4>2, <4>4, <4>5, <4>6, Zenon DEF r
    <3>9. /\ x \in Seq(Octets) /\ Len(x) = h /\ x[1] = Comma
          /\ \A k \in 1..n : x[k + 1] = t[k]
          /\ \A k \in (n + 2)..h : x[k] = NUL
          /\ e \in Seq(Octets) /\ Len(e) = i
      <4> DEFINE ct == <<Comma>> \o t
      <4>1. /\ ct \in Seq(Octets) /\ Len(ct) = n + 1 /\ ct[1] = Comma
            /\ \A k \in 1..n : ct[k + 1] = t[k]
        BY MessageIs, Zenon
      <4>2. /\ e \in Seq(Octets) /\ Len(e) = i
        BY MessageIs, TerminatedIs, Zenon
      <4> HIDE DEF ct
      <4>3. /\ Terminated(ct) \in Seq(Octets) /\ Len(Terminated(ct)) = Align(Len(ct) + 4)
            /\ \A k \in 1..Len(ct) : Terminated(ct)[k] = ct[k]
            /\ \A k \in (Len(ct) + 1)..Align(Len(ct) + 4) : Terminated(ct)[k] = NUL
        BY <4>1, TerminatedIs, Zenon
      <4>4. /\ Len(ct) + 4 = n + 5 /\ Len(ct) + 1 = n + 2 /\ 1 \in 1..Len(ct)
            /\ \A k \in 1..n : k + 1 \in 1..Len(ct)
        <5> HIDE DEF n
        <5> QED BY <1>1, <4>1, SMT
      <4> HIDE DEF n, i, e, t
      <4> QED
        BY <4>1, <4>2, <4>3, <4>4, Zenon DEF ct
    <3> HIDE DEF f, e, x, q, t, u, i, h, n, a
    <3>10. u.i = i /\ u.bytes = c /\ u.cut = FALSE
      BY DEF u
    <3>11. Len(x) % 4 = 0 /\ Len(e) + Len(x) <= space /\ v.i = u.i + Len(x)
      BY <1>2, <3>3, <3>8, <3>9, <3>10, Zenon
    <3>12. \A j \in 1..Size : j <= base + u.i => v.bytes[j] = u.bytes[j]
      <4>1. \A j \in 1..Size : j <= base + i => /\ ~(j - (base + (i + 1)) \in 1..q)
                                                  /\ ~(j - (base + i) \in 1..1)
        BY <1>2, <1>3, <3>5, SMT
      <4> QED
        BY <2>4, <3>7, <3>8, <3>10, <4>1, Zenon
    <3>13. \A k \in (i + 1)..space : c[base + k] = NUL
      BY <2>2, <3>9, <3>10, Zenon DEF Holds
    <3>14. \A k \in 1..(space - i) :
             /\ base + i + k \in 1..Size /\ base + i + k = base + (i + k) /\ i + k \in (i + 1)..space
             /\ (base + i + k) - (base + i) = k /\ (base + i + k) - (base + (i + 1)) = k - 1
      BY <1>2, <1>3, <3>3, SMT
    <3>15. \A k \in 1..(space - i) : v.bytes[base + i + k] =
             IF k - 1 \in 1..q THEN (IF k - 1 <= n THEN t[k - 1] ELSE NUL)
             ELSE IF k \in 1..1 THEN Comma ELSE NUL
      <4> TAKE k \in 1..(space - i)
      <4>1. d[base + i + k] = IF k \in 1..1 THEN Comma ELSE c[base + i + k]
        BY <2>4, <3>14, Zenon
      <4>2. f[base + i + k] =
              IF k - 1 \in 1..q THEN (IF k - 1 <= n THEN t[k - 1] ELSE NUL) ELSE d[base + i + k]
        BY <3>7, <3>14, ZenonT(30)
      <4>3. c[base + i + k] = NUL
        <5>1. base + i + k = base + (i + k) /\ i + k \in (i + 1)..space
          BY <3>14, Zenon
        <5>2. c[base + (i + k)] = NUL
          BY <3>13, <5>1, Zenon
        <5> QED
          BY <5>1, <5>2, Zenon
      <4> QED
        BY <3>8, <4>1, <4>2, <4>3, Zenon
    <3>16. ASSUME ~v.cut, NEW k \in 1..Len(x) PROVE v.bytes[base + u.i + k] = x[k]
      <4>1. k \in 1..h /\ k \in 1..(space - i) /\ n <= q
        <5>1. k \in 1..h /\ n <= q
          BY <3>8, <3>9, <3>16, Zenon
        <5> QED
          BY <1>2, <3>3, <5>1, SMT
      <4>2. CASE k \in 1..1
        <5>1. k = 1 /\ ~(k - 1 \in 1..q)
          BY <3>5, <4>2, SMT
        <5> QED
          BY <3>9, <3>10, <3>15, <4>1, <4>2, <5>1, Zenon
      <4>3. CASE ~(k \in 1..1) /\ k - 1 <= n
        <5>1. k - 1 \in 1..q /\ k - 1 \in 1..n /\ (k - 1) + 1 = k
          BY <1>1, <3>5, <4>1, <4>3, SMT
        <5>2. x[(k - 1) + 1] = t[k - 1]
          BY <3>9, <5>1, Zenon
        <5>3. v.bytes[base + i + k] = t[k - 1]
          BY <3>15, <4>1, <4>3, <5>1, Zenon
        <5> DEFINE r == k - 1
        <5> HIDE DEF r
        <5>4. x[r + 1] = t[r] /\ r + 1 = k /\ v.bytes[base + i + k] = t[r]
          BY <5>1, <5>2, <5>3, Zenon DEF r
        <5> QED
          BY <3>10, <5>4, Zenon
      <4>4. CASE ~(k \in 1..1) /\ ~(k - 1 <= n)
        <5>1. k \in (n + 2)..h
          BY <1>1, <1>2, <4>1, <4>4, SMT
        <5>2. x[k] = NUL
          BY <3>9, <5>1, Zenon
        <5> QED
          BY <3>10, <3>15, <4>1, <4>4, <5>2, Zenon
      <4> QED
        BY <4>2, <4>3, <4>4, Zenon
    <3>17. ASSUME NEW k \in (Len(e) + Len(x) + 1)..space PROVE v.bytes[base + k] = NUL
      <4> DEFINE r == k - i
      <4>1. k \in (i + h + 1)..space
        BY <3>9, <3>17, Zenon
      <4>2. r \in 1..(space - i) /\ base + i + r = base + k /\ ~(r \in 1..1) /\ ~(r - 1 <= n)
        BY <1>1, <1>2, <4>1, SMT
      <4> HIDE DEF r
      <4>3. v.bytes[base + i + r] = NUL
        BY <3>15, <4>2, Zenon
      <4> QED
        BY <4>2, <4>3, Zenon
    <3>18. Clear(v.bytes, base + room)
      <4>1. \A j \in 1..Size : j > base + room => /\ ~(j - (base + (i + 1)) \in 1..q)
                                                  /\ ~(j - (base + i) \in 1..1)
        BY <1>1, <1>2, <1>3, <3>2, <3>5, SMT DEF q
      <4>2. Clear(c, base + room)
        BY <2>2, <3>10, Zenon DEF Holds
      <4> QED
        BY <2>4, <3>7, <3>8, <4>1, <4>2, Zenon DEF Clear
    <3>19. Holds(v, b, base, room, space, e \o x)
      <4>1. ~v.cut => ~u.cut
        BY <3>10, Zenon
      <4>2. u \in Writers /\ Holds(u, b, base, room, space, e) /\ v \in Writers /\ ~v.spill
        BY <2>2, <3>8, Zenon DEF u, i, a, e
      <4> QED
        BY <3>9, <3>11, <3>12, <3>16, <3>17, <3>18, <4>1, <4>2, HoldsMore, Zenon
    <3>20. EncodedHeader(m) = e \o x
      BY Zenon DEF EncodedHeader, e, x, t
    <3> QED
      BY <3>8, <3>19, <3>20, Zenon
  <2> QED
    BY <2>7, <2>8
<1> QED
  BY <1>5, <1>6

KnownTypes == {Text, Blob} \cup Words \cup Longs \cup Bare

\* The types are different characters.
LEMMA TypesDiffer ==
  /\ Text # Blob /\ Text \notin Words \cup Longs \cup Bare /\ Blob \notin Words \cup Longs \cup Bare
  /\ \A c \in Bare : c \notin Words \cup Longs
  BY SMT DEF Text, Blob, Words, Longs, Bare

\* Bytes that fill their last word get no zeros.
LEMMA FilledAlready ==
  ASSUME NEW t \in Seq(Octets), Len(t) % 4 = 0
  PROVE  Filled(t) = t
<1>1. \A p \in Nat : p % 4 = 0 => (4 - (p % 4)) % 4 = 0
  BY SMT
<1>2. Len(t) \in Nat
  BY LenProperties
<1>3. (4 - (Len(t) % 4)) % 4 = 0
  BY <1>1, <1>2, Zenon
<1>4. Filled(t) = t \o Zeros(0)
  BY <1>3, Zenon DEF Filled
<1>5. Zeros(0) = <<>>
  <2>1. Zeros(0) \in Seq(Octets) /\ Len(Zeros(0)) = 0
    BY ZerosAre, SMT
  <2> QED
    BY <2>1, EmptySeq
<1> QED
  BY <1>4, <1>5, ConcatEmptySeq

\* An argument behind what is there, or an error.
LEMMA ArgumentHolds ==
  ASSUME NEW base \in Nat, NEW room \in Nat, NEW space \in Nat,
         base + space <= Size, space % 4 = 0, room <= space,
         NEW b \in Buffers, NEW w \in Writers, NEW e \in Seq(Octets),
         Holds(w, b, base, room, space, e),
         NEW a \in Arguments, NEW v, v = WriteArgument(w, base, room, a)
  PROVE  /\ v \in Writers
         /\ v.i >= 0 => Holds(v, b, base, room, space, e \o EncodedArgument(a))
         /\ v.i < 0 => Len(e \o EncodedArgument(a)) > room \/ a.type \notin KnownTypes
<1> DEFINE t == a.value
           x == EncodedArgument(a)
<1>1. /\ t \in Seq(Octets) /\ Len(t) \in Nat /\ Len(t) \in Int
      /\ a.type \in Words => Len(t) = 4
      /\ a.type \in Longs => Len(t) = 8
      /\ a.type \in Bare  => t = <<>>
  BY DEF Arguments
<1>2. w.i = Len(e) /\ w.i \in Nat /\ w.i >= 0 /\ ~(w.i < 0)
  <2>1. w.i = Len(e) /\ Len(e) \in Nat
    BY LenProperties, Zenon DEF Holds
  <2> QED
    BY <2>1, SMT
<1>3. x \in Seq(Octets) /\ Len(x) \in Nat /\ Len(e \o x) = w.i + Len(x)
  BY <1>2, EncodedArgumentIs, ConcatProperties, LenProperties
<1>4. /\ -3 \in Int /\ -4 \in Int /\ (-3 < 0) /\ (-4 < 0) /\ ~(-3 >= 0) /\ ~(-4 >= 0)
      /\ \A k \in Nat : k >= 0 /\ ~(k < 0)
  BY SMT
<1> HIDE DEF t, x
<1>5. CASE a.type = Text
  <2>1. v = WriteText(w, base, room, t, -3)
    <3>1. a.type \notin Words \cup Longs /\ a.type \notin Bare /\ a.type # Blob
      BY <1>5, TypesDiffer, Zenon
    <3> QED
      BY <1>2, <1>5, <3>1, Zenon DEF WriteArgument, t
  <2>2. x = Terminated(t)
    BY <1>5, Zenon DEF EncodedArgument, t, x
  <2>3. /\ v \in Writers
        /\ w.i + Len(t) >= room => v.i < 0
        /\ ~(w.i + Len(t) >= room) => Holds(v, b, base, room, space, e \o Terminated(t))
    BY <1>1, <2>1, TextHolds, Zenon
  <2>4. w.i + Len(t) >= room => Len(e \o x) > room
    <3> DEFINE l == Len(t)
               h == Align(l + 4)
    <3>1. Len(x) = h
      BY <1>1, <2>2, TerminatedIs, Zenon
    <3>2. l \in Nat
      BY <1>1, Zenon
    <3> HIDE DEF l
    <3>3. h \in Nat /\ l + 4 < h + 4
      <4>1. l + 4 \in Nat
        BY <3>2, SMT
      <4> QED BY <4>1, AlignIs, Zenon
    <3> HIDE DEF h
    <3>4. w.i + l >= room => w.i + h > room
      BY <1>2, <3>2, <3>3, SMT
    <3> QED
      BY <1>3, <3>1, <3>4, Zenon DEF l
  <2>5. Holds(v, b, base, room, space, e \o x) => v.i >= 0 /\ ~(v.i < 0)
    <3>1. Len(e \o x) \in Nat
      BY <1>2, <1>3, SMT
    <3> QED
      BY <1>4, <3>1, Zenon DEF Holds
  <2>6. v.i < 0 => ~(v.i >= 0)
    <3>1. v \in Writers => v.i \in Int
      BY Zenon DEF Writers
    <3> QED
      BY <2>3, <3>1, SMT
  <2> QED
    BY <2>2, <2>3, <2>4, <2>5, <2>6, Zenon DEF x
<1>6. ASSUME NEW s \in Seq(Octets), x = Filled(s), v = WriteBytes(w, base, room, s)
      PROVE  /\ v \in Writers
             /\ v.i >= 0 => Holds(v, b, base, room, space, e \o x)
             /\ v.i < 0 => Len(e \o x) > room
  <2>1. /\ v \in Writers
        /\ w.i + Len(s) > room => v.i < 0
        /\ ~(w.i + Len(s) > room) => Holds(v, b, base, room, space, e \o Filled(s))
    BY <1>6, BytesHold, Zenon
  <2>2. w.i + Len(s) > room => Len(e \o x) > room
    <3> DEFINE l == Len(s)
               h == Align(l + 3)
    <3>1. Len(x) = h
      BY <1>6, FilledIs, Zenon
    <3>2. l \in Nat
      BY LenProperties
    <3> HIDE DEF l
    <3>3. h \in Nat /\ l + 3 < h + 4
      <4>1. l + 3 \in Nat
        BY <3>2, SMT
      <4> QED BY <4>1, AlignIs, Zenon
    <3> HIDE DEF h
    <3>4. w.i + l > room => w.i + h > room
      BY <1>2, <3>2, <3>3, SMT
    <3> QED
      BY <1>3, <3>1, <3>4, Zenon DEF l
  <2>3. Holds(v, b, base, room, space, e \o x) => v.i >= 0 /\ ~(v.i < 0)
    <3>1. Len(e \o x) \in Nat
      BY <1>2, <1>3, SMT
    <3> QED
      BY <1>4, <3>1, Zenon DEF Holds
  <2>4. v.i < 0 => ~(v.i >= 0)
    <3>1. v \in Writers => v.i \in Int
      BY Zenon DEF Writers
    <3> QED
      BY <2>1, <3>1, SMT
  <2> QED
    BY <1>6, <2>1, <2>2, <2>3, <2>4, Zenon
<1>7. CASE a.type = Blob
  <2> DEFINE s == Word(Len(t)) \o t
  <2>1. s \in Seq(Octets)
    BY <1>1, WordIs, ConcatProperties, Zenon
  <2>2. v = WriteBytes(w, base, room, s)
    BY <1>2, <1>7, TypesDiffer, Zenon DEF WriteArgument, t
  <2>3. x = Filled(s)
    BY <1>7, TypesDiffer, Zenon DEF EncodedArgument, t, x
  <2> HIDE DEF s
  <2> QED
    BY <1>6, <2>1, <2>2, <2>3, Zenon DEF x
<1>8. CASE a.type \in Words \cup Longs
  <2>1. a.type # Text /\ a.type # Blob
    BY <1>8, TypesDiffer, Zenon
  <2>2. v = WriteBytes(w, base, room, t)
    <3>1. a.type \notin Bare
      BY <1>8, TypesDiffer, Zenon
    <3> QED
      BY <1>2, <1>8, <2>1, <3>1, Zenon DEF WriteArgument, t
  <2>3. x = t
    BY <2>1, Zenon DEF EncodedArgument, t, x
  <2>4. Len(t) % 4 = 0
    <3>1. Len(t) = 4 \/ Len(t) = 8
      BY <1>1, <1>8, Zenon
    <3>2. 4 % 4 = 0 /\ 8 % 4 = 0
      BY SMT
    <3> QED
      BY <3>1, <3>2
  <2>5. x = Filled(t)
    BY <1>1, <2>3, <2>4, FilledAlready, Zenon
  <2> QED
    BY <1>1, <1>6, <2>2, <2>5, Zenon DEF x
<1>9. CASE a.type \in Bare
  <2>1. a.type # Text /\ a.type # Blob /\ a.type \notin Words \cup Longs
    BY <1>9, TypesDiffer, Zenon
  <2>2. v = w
    BY <1>2, <1>9, <2>1, Zenon DEF WriteArgument
  <2>3. x = <<>>
    BY <1>1, <1>9, <2>1, Zenon DEF EncodedArgument, t, x
  <2>4. e \o x = e
    BY <2>3, ConcatEmptySeq
  <2> QED
    BY <1>2, <2>2, <2>4, Zenon DEF x
<1>10. CASE a.type \notin KnownTypes
  <2>1. a.type # Text /\ a.type # Blob /\ a.type \notin Words \cup Longs /\ a.type \notin Bare
    BY <1>10, Zenon DEF KnownTypes
  <2> DEFINE code == -4
  <2>2. v = Stopped(w, code)
    BY <1>2, <2>1, Zenon DEF WriteArgument
  <2>3. code \in Int /\ ~(code >= 0)
    BY <1>4
  <2> HIDE DEF code
  <2>4. v \in Writers /\ v.i = code
    BY <2>2, <2>3, StoppedIs, Zenon
  <2> QED
    BY <1>10, <2>3, <2>4, Zenon
<1>11. a.type \in {Text, Blob} \cup Words \cup Longs \cup Bare \/ a.type \notin KnownTypes
  BY Zenon DEF KnownTypes
<1> QED
  BY <1>5, <1>7, <1>8, <1>9, <1>10, <1>11, Zenon

\* Where the loop over the format can stand: it has failed, or written something.
Standing(b, base, room, space) ==
  { w \in Writers : w.i < 0 \/ \E e \in Seq(Octets) : Holds(w, b, base, room, space, e) }

\* A writer that has failed stays as it is.
LEMMA FailedStays ==
  ASSUME NEW w \in Writers, w.i < 0, NEW base, NEW room, NEW a
  PROVE  WriteArgument(w, base, room, a) = w
<1>1. ~(w.i >= 0)
  <2>1. w.i \in Int
    BY Zenon DEF Writers
  <2> QED
    BY <2>1, SMT
<1> QED
  BY <1>1, Zenon DEF WriteArgument

\* What the loop over the format returns.
LEMMA StepsAre ==
  ASSUME NEW base \in Nat, NEW room \in Nat, NEW space \in Nat,
         base + space <= Size, space % 4 = 0, room <= space,
         NEW b \in Buffers, Clear(b, base + room), NEW m \in Messages
  PROVE  /\ WriteSteps(b, base, room, m) \in [0..Len(m.args) -> Standing(b, base, room, space)]
         /\ WriteSteps(b, base, room, m)[0] = WriteHeader(b, base, room, m)
         /\ \A k \in 1..Len(m.args) :
              WriteSteps(b, base, room, m)[k] =
                WriteArgument(WriteSteps(b, base, room, m)[k - 1], base, room, m.args[k])
<1> DEFINE n == Len(m.args)
           S == Standing(b, base, room, space)
           h == WriteHeader(b, base, room, m)
           A(w, k) == WriteArgument(w, base, room, m.args[k])
           F == [p \in (1..n) \X S |-> A(p[2], p[1])]
           Is(g) == g = [k \in 0..n |-> IF k = 0 THEN h ELSE A(g[k - 1], k)]
<1>1. n \in Nat /\ h \in S
  <2>1. n \in Nat
    BY MessageIs
  <2>2. /\ h \in Writers
        /\ h.i >= 0 => Holds(h, b, base, room, space, EncodedHeader(m))
    BY HeaderHolds, Zenon
  <2>3. h.i >= 0 \/ h.i < 0
    <3>1. h.i \in Int
      BY <2>2, Zenon DEF Writers
    <3> HIDE DEF h
    <3> QED
      BY <3>1, SMT
  <2>4. EncodedHeader(m) \in Seq(Octets)
    BY EncodedHeaderIs, Zenon
  <2> HIDE DEF h
  <2> QED
    BY <2>1, <2>2, <2>3, <2>4, Zenon DEF Standing
<1>2. \A k \in 1..n, w \in S : A(w, k) \in S
  <2> TAKE k \in 1..n, w \in S
  <2>1. m.args[k] \in Arguments
    BY MessageIs, ElementOfSeq
  <2>2. w \in Writers /\ (w.i < 0 \/ \E e \in Seq(Octets) : Holds(w, b, base, room, space, e))
    BY Zenon DEF Standing
  <2>3. CASE w.i < 0
    BY <2>2, <2>3, FailedStays, Zenon
  <2>4. CASE ~(w.i < 0)
    <3>1. PICK e \in Seq(Octets) : Holds(w, b, base, room, space, e)
      BY <2>2, <2>4, Zenon
    <3> DEFINE a == m.args[k]
               v == A(w, k)
               x == EncodedArgument(m.args[k])
    <3>6. v = WriteArgument(w, base, room, a) /\ a \in Arguments /\ x = EncodedArgument(a)
      BY <2>1, Zenon
    <3>2. v \in Writers /\ (v.i >= 0 => Holds(v, b, base, room, space, e \o x))
      <4> HIDE DEF a, v, x, n, S, h, A, F, Is
      <4>1. /\ v \in Writers
            /\ v.i >= 0 => Holds(v, b, base, room, space, e \o EncodedArgument(a))
        BY <2>2, <3>1, <3>6, ArgumentHolds, ZenonT(60)
      <4> QED
        BY <3>6, <4>1, Zenon
    <3>3. e \o x \in Seq(Octets)
      BY <2>1, EncodedArgumentIs, ConcatProperties, Zenon
    <3> HIDE DEF v, x
    <3>4. v.i >= 0 \/ v.i < 0
      <4>1. v.i \in Int
        BY <3>2, Zenon DEF Writers
      <4> QED
        BY <4>1, SMT
    <3>5. v \in S
      BY <3>2, <3>3, <3>4, Zenon DEF Standing
    <3> QED
      BY <3>5, Zenon DEF v
  <2> QED
    BY <2>3, <2>4, Zenon
<1>3. F \in [(1..n) \X S -> S]
  <2>1. \A p \in (1..n) \X S : p[1] \in 1..n /\ p[2] \in S
    OBVIOUS
  <2> HIDE DEF S, A
  <2> QED
    BY <1>2, <2>1, Zenon
<1>4. \A k \in 1..n, w \in S : F[<<k, w>>] = A(w, k)
  <2>1. \A k \in 1..n, w \in S : <<k, w>> \in (1..n) \X S /\ <<k, w>>[1] = k /\ <<k, w>>[2] = w
    OBVIOUS
  <2> HIDE DEF S, A
  <2> QED
    BY <2>1, Zenon
<1>5. WriteSteps(b, base, room, m) = CHOOSE g : Is(g)
  BY Zenon DEF WriteSteps
<1> HIDE DEF S, F, A, h
<1>6. PICK g \in [0..n -> S] : Solves(g, n, h, F)
  BY <1>1, <1>3, Recursion
<1>7. \A k \in 0..n : k # 0 => k \in 1..n /\ k - 1 \in 0..n
  BY <1>1, SMT
<1>8. Is(g)
  <2>1. g = [k \in 0..n |-> IF k = 0 THEN h ELSE F[<<k, g[k - 1]>>]]
    BY <1>6, Zenon DEF Solves
  <2>2. \A k \in 0..n : k # 0 => F[<<k, g[k - 1]>>] = A(g[k - 1], k)
    BY <1>4, <1>6, <1>7, Zenon
  <2> QED
    BY <2>1, <2>2, Zenon
<1>9. Is(WriteSteps(b, base, room, m))
  <2> HIDE DEF Is
  <2> QED BY <1>5, <1>8, Zenon
<1> DEFINE f == WriteSteps(b, base, room, m)
<1>10. f = [k \in 0..n |-> IF k = 0 THEN h ELSE A(f[k - 1], k)]
  BY <1>9, Zenon
<1> HIDE DEF f, n
<1>11. /\ f[0] = h
       /\ \A k \in 1..n : f[k] = A(f[k - 1], k)
  <2>1. 0 \in 0..n /\ \A k \in 1..n : k \in 0..n /\ k # 0
    BY <1>1, SMT
  <2> QED
    BY <1>10, <2>1, Zenon
<1>12. \A k \in 0..n : f[k] \in S
  <2> DEFINE P == {k \in 0..n : f[k] \in S}
  <2>1. 0 \in P
    <3>1. 0 \in 0..n
      BY <1>1, SMT
    <3> QED
      BY <1>1, <1>11, <3>1, Zenon
  <2>2. ASSUME NEW k \in 1..n, k - 1 \in P PROVE k \in P
    <3>1. f[k - 1] \in S /\ k \in 0..n
      BY <1>1, <2>2, SMT
    <3> QED
      BY <1>2, <1>11, <3>1, Zenon
  <2>3. 0..n \subseteq P
    <3> HIDE DEF P
    <3> QED BY <1>1, <2>1, <2>2, UpTo
  <2> QED
    BY <2>3, Zenon
<1>13. f \in [0..n -> S]
  BY <1>10, <1>12, Zenon
<1> QED
  BY <1>11, <1>13, Zenon DEF f, n, S, h, A

\* What tosc_vwrite comes to: the encoding of the message, or an error where it does
\* not fit or has a type that is not known.
LEMMA WriteHolds ==
  ASSUME NEW base \in Nat, NEW room \in Nat, NEW space \in Nat,
         base + space <= Size, space % 4 = 0, room <= space,
         NEW b \in Buffers, Clear(b, base + room), NEW m \in Messages, NEW v, v = Write(b, base, room, m)
  PROVE  /\ v \in Writers
         /\ v.i >= 0 => Holds(v, b, base, room, space, Encoded(m))
         /\ v.i < 0 => Len(Encoded(m)) > room \/ ~Known(m)
<1> DEFINE n == Len(m.args)
           f == WriteSteps(b, base, room, m)
           e == Encodings(m)
           Unknown == \E j \in 1..n : m.args[j].type \notin KnownTypes
           P == { k \in 0..n : /\ f[k].i >= 0 => Holds(f[k], b, base, room, space, e[k])
                               /\ f[k].i < 0  => Len(e[k]) > room \/ Unknown }
<1>1. n \in Nat
  BY MessageIs
<1>2. /\ f \in [0..n -> Standing(b, base, room, space)]
      /\ f[0] = WriteHeader(b, base, room, m)
      /\ \A k \in 1..n : f[k] = WriteArgument(f[k - 1], base, room, m.args[k])
  BY StepsAre, ZenonT(60)
<1>3. /\ e \in [0..n -> Seq(Octets)] /\ e[0] = EncodedHeader(m)
      /\ \A k \in 1..n : e[k] = e[k - 1] \o EncodedArgument(m.args[k])
  BY EncodingsAre, Zenon
<1> HIDE DEF n, f, e
<1>4. \A k \in 0..n : f[k] \in Writers /\ (f[k].i >= 0 \/ f[k].i < 0)
  <2> TAKE k \in 0..n
  <2>1. f[k] \in Writers
    BY <1>2, Zenon DEF Standing
  <2>2. f[k].i \in Int
    BY <2>1, Zenon DEF Writers
  <2> QED
    BY <2>1, <2>2, SMT
<1>5. 0 \in P
  <2>1. 0 \in 0..n
    BY <1>1, SMT
  <2>2. /\ f[0].i >= 0 => Holds(f[0], b, base, room, space, e[0])
        /\ f[0].i < 0  => Len(e[0]) > room
    BY <1>2, <1>3, HeaderHolds, Zenon
  <2> QED
    BY <2>1, <2>2, Zenon
<1>6. ASSUME NEW k \in 1..n, k - 1 \in P PROVE k \in P
  <2> DEFINE j == k - 1
             x == EncodedArgument(m.args[k])
  <2>1. k \in 0..n /\ j \in 0..n
    BY <1>1, SMT
  <2>2. /\ f[j].i >= 0 => Holds(f[j], b, base, room, space, e[j])
        /\ f[j].i < 0  => Len(e[j]) > room \/ Unknown
    BY <1>6, Zenon
  <2>3. m.args[k] \in Arguments
    BY MessageIs, ElementOfSeq DEF n
  <2>4. f[k] = WriteArgument(f[j], base, room, m.args[k])
    BY <1>2, Zenon
  <2>5. e[k] = e[j] \o x
    BY <1>3, Zenon
  <2> HIDE DEF j, x
  <2>6. f[j] \in Writers /\ e[j] \in Seq(Octets) /\ x \in Seq(Octets)
    BY <1>3, <1>4, <2>1, <2>3, EncodedArgumentIs, Zenon DEF x
  <2>7. CASE f[j].i < 0
    <3>1. f[k] = f[j]
      BY <2>4, <2>6, <2>7, FailedStays, ZenonT(30)
    <3>2. Len(e[j]) > room => Len(e[k]) > room
      <4>1. Len(e[k]) = Len(e[j]) + Len(x) /\ Len(e[j]) \in Nat /\ Len(x) \in Nat
        BY <2>5, <2>6, JoinIs, Zenon
      <4> QED
        BY <4>1, SMT
    <3>3. ~(f[j].i >= 0)
      <4>1. f[j].i \in Int
        BY <2>6, Zenon DEF Writers
      <4> QED
        BY <2>7, <4>1, SMT
    <3> QED
      BY <2>1, <2>2, <2>7, <3>1, <3>2, <3>3, Zenon
  <2>8. CASE f[j].i >= 0
    <3> DEFINE w == f[j]
               c == e[j]
               a == m.args[k]
               y == f[k]
    <3>2. /\ w \in Writers /\ c \in Seq(Octets) /\ Holds(w, b, base, room, space, c)
          /\ a \in Arguments /\ y = WriteArgument(w, base, room, a)
          /\ e[k] = c \o EncodedArgument(a)
      BY <2>2, <2>3, <2>4, <2>5, <2>6, <2>8, Zenon DEF x
    <3> HIDE DEF w, c, a, y, P, Unknown
    <3>3. /\ y.i >= 0 => Holds(y, b, base, room, space, c \o EncodedArgument(a))
          /\ y.i < 0 => Len(c \o EncodedArgument(a)) > room \/ a.type \notin KnownTypes
      BY <3>2, ArgumentHolds, ZenonT(60)
    <3>1. /\ f[k].i >= 0 => Holds(f[k], b, base, room, space, e[k])
          /\ f[k].i < 0 => Len(e[k]) > room \/ m.args[k].type \notin KnownTypes
      BY <3>2, <3>3, Zenon DEF y, a
    <3> USE DEF P, Unknown
    <3> QED
      BY <2>1, <3>1, Zenon
  <2> QED
    BY <1>4, <2>1, <2>7, <2>8, Zenon
<1>7. n \in P
  <2>1. 0..n \subseteq P
    <3> HIDE DEF P
    <3> QED BY <1>1, <1>5, <1>6, UpTo
  <2>2. n \in 0..n
    BY <1>1, SMT
  <2> QED
    BY <2>1, <2>2, Zenon
<1>8. v = f[n] /\ Encoded(m) = e[n]
  BY Zenon DEF Write, Encoded, f, e, n
<1>9. Unknown => ~Known(m)
  <2>1. DOMAIN m.args = 1..n
    BY MessageIs, LenProperties DEF n
  <2> QED
    BY <2>1, Zenon DEF Known, KnownTypes
<1>10. n \in 0..n
  BY <1>1, SMT
<1> QED
  BY <1>4, <1>7, <1>8, <1>9, <1>10, Zenon

-----------------------------------------------------------------------------
(* The invariant of the writer.                                            *)

BundleOf(ws) == Bundles(ws)[Len(ws)]
Uncut(ws) == \A k \in DOMAIN ws : ~ws[k].cut
Begins(b, s) == \A k \in 1..Len(s) : b[k] = s[k]

\* The whole words that hold n bytes.
Space(n) == Align(n + 3)

\* A length of whole words that is behind the room by padding at most, and nothing
\* put behind the room.
Within(len, room, b, spill) ==
  len \in Nat /\ len % 4 = 0 /\ len <= Space(room) /\ Clear(b, room) /\ ~spill

\* What was accepted is as long as its encoding, and is it if nothing was cut.
Accepted(md, b, len, ws) ==
  /\ md = "bundle" => /\ len = Len(BundleOf(ws))
                      /\ Uncut(ws) => Begins(b, BundleOf(ws))
  /\ md = "message" /\ ws # <<>> => /\ len = Len(Encoded(ws[1].message))
                                    /\ Uncut(ws) => Begins(b, Encoded(ws[1].message))

Justified(rs) == Len(Encoded(rs[1].message)) > rs[1].room \/ ~Known(rs[1].message)

WriteInv ==
  /\ mode \in {"message", "bundle"} /\ bufLen \in Lengths
  /\ buf \in Buffers /\ written \in Seq(Records)
  /\ refused = <<>> => /\ Within(length, bufLen, buf, spilled)
                       /\ Accepted(mode, buf, length, written)
                       /\ mode = "bundle" /\ phase = "write" => next = length
  /\ refused # <<>> => Justified(refused)
  /\ phase = "lost" => bufLen % 4 # 0 /\ length = Align(bufLen)

\* The array has room for the whole words that hold the buffer.
LEMMA SpaceIs ==
  ASSUME NEW n \in Lengths
  PROVE  /\ n \in Nat /\ 16 <= n /\ n <= Size /\ Size \in Nat
         /\ Space(n) \in Nat /\ Space(n) % 4 = 0
         /\ n <= Space(n) /\ Space(n) < n + 4 /\ Space(n) <= Size
<1>1. Size \in Nat /\ Size % 4 = 0 /\ n \in 16..Size
  BY BufferAssumption, Zenon
<1>2. n \in Nat /\ 16 <= n /\ n <= Size /\ n + 3 \in Nat
  BY <1>1, SMT
<1> DEFINE q == Align(n + 3)
<1>3. q \in Nat /\ q % 4 = 0 /\ q <= n + 3 /\ n + 3 < q + 4
  BY <1>2, AlignIs, Zenon
<1> HIDE DEF q
<1>4. n <= q /\ q < n + 4 /\ q < Size + 4
  BY <1>1, <1>2, <1>3, SMT
<1>5. q <= Size
  <2>1. \A i, j \in Nat : i % 4 = 0 /\ j % 4 = 0 /\ i < j + 4 => i <= j
    BY SMT
  <2> QED
    BY <1>1, <1>3, <1>4, <2>1, Zenon
<1> QED
  BY <1>1, <1>2, <1>3, <1>4, <1>5, Zenon DEF Space, q

\* The head of a bundle.
LEMMA HeadIs ==
  /\ BundleId \o Timetag \in Seq(Octets) /\ Len(BundleId \o Timetag) = 16
  /\ BundleOf(<<>>) = BundleId \o Timetag
<1>1. BundleId \in Seq(Octets) /\ Len(BundleId) = 8
  BY DEF BundleId, Octets
<1>2. Timetag \in Seq(Octets) /\ Len(Timetag) = 8
  BY BufferAssumption
<1>3. BundleId \o Timetag \in Seq(Octets) /\ Len(BundleId \o Timetag) = 16
  <2>1. /\ BundleId \o Timetag \in Seq(Octets)
        /\ Len(BundleId \o Timetag) = Len(BundleId) + Len(Timetag)
    BY <1>1, <1>2, JoinIs, Zenon
  <2>2. Len(BundleId) + Len(Timetag) = 16
    <3>1. 8 + 8 = 16
      BY SMT
    <3> QED
      BY <1>1, <1>2, <3>1
  <2> QED
    BY <2>1, <2>2
<1>4. <<>> \in Seq(Records) /\ Len(<<>>) = 0
  OBVIOUS
<1>5. Bundles(<<>>)[0] = BundleId \o Timetag
  BY <1>4, BundlesAre, Zenon
<1> QED
  BY <1>3, <1>4, <1>5, Zenon DEF BundleOf

\* The writer starts with the invariant.
LEMMA WriteInvStarts == Init => WriteInv
<1> SUFFICES ASSUME Init PROVE WriteInv
  OBVIOUS
<1> DEFINE x == BundleId \o Timetag
           z == Found
<1>1. /\ mode \in {"message", "bundle"} /\ written = <<>> /\ refused = <<>> /\ spilled = FALSE
      /\ next = length
      /\ mode = "bundle" => buf = Put(z, 0, x) /\ length = 16
      /\ mode # "bundle" => buf = z /\ length = 0
  BY DEF Init
<1>2. /\ bufLen \in Lengths
      /\ Size \in Nat /\ bufLen \in Nat /\ 16 <= bufLen /\ bufLen <= Size /\ 16 <= Size
      /\ 16 % 4 = 0 /\ 0 % 4 = 0 /\ 16 \in Nat /\ 0 \in Nat
      /\ 16 <= Space(bufLen) /\ 0 <= Space(bufLen)
  <2>1. bufLen \in Lengths
    BY DEF Init
  <2> DEFINE q == Space(bufLen)
  <2>2. /\ bufLen \in Nat /\ 16 <= bufLen /\ bufLen <= Size /\ Size \in Nat
        /\ q \in Nat /\ bufLen <= q
    BY <2>1, SpaceIs, Zenon
  <2> HIDE DEF q
  <2>3. /\ 16 <= Size /\ 16 % 4 = 0 /\ 0 % 4 = 0 /\ 16 \in Nat /\ 0 \in Nat
        /\ 16 <= q /\ 0 <= q
    BY <2>2, SMT
  <2> QED
    BY <2>1, <2>2, <2>3, Zenon DEF q
<1>3. x \in Seq(Octets) /\ Len(x) = 16 /\ BundleOf(<<>>) = x
  BY HeadIs, Zenon
<1>4. z \in Buffers /\ Clear(z, bufLen)
  <2>1. \A k \in 1..Size : z[k] = IF k <= bufLen THEN 255 ELSE NUL
    BY Zenon DEF Found
  <2>2. NUL \in Octets /\ 255 \in Octets
    BY SMT DEF NUL, Octets
  <2>3. \A k \in 1..Size : z[k] \in Octets
    BY <2>1, <2>2, Zenon
  <2>4. z = [k \in 1..Size |-> z[k]]
    BY Zenon DEF Found
  <2>5. \A k \in 1..Size : k > bufLen => ~(k <= bufLen)
    BY <1>2, SMT
  <2> QED
    BY <2>1, <2>3, <2>4, <2>5, Zenon DEF Buffers, Clear
<1> HIDE DEF x, z
<1>5. /\ Put(z, 0, x) \in Buffers
      /\ \A j \in 1..Size : Put(z, 0, x)[j] = IF j - 0 \in 1..Len(x) THEN x[j - 0] ELSE z[j]
  <2>1. 0 \in Int
    BY SMT
  <2> QED
    BY <1>3, <1>4, <2>1, PutIs, Zenon
<1>6. Begins(Put(z, 0, x), x)
  <2>1. \A k \in 1..Len(x) : k \in 1..Size /\ k - 0 = k
    BY <1>2, <1>3, SMT
  <2> QED
    BY <1>5, <2>1, Zenon DEF Begins
<1>7. written \in Seq(Records)
  BY <1>1, EmptySeq
<1>8. Within(length, bufLen, buf, spilled)
  <2>1. length = 16 \/ length = 0
    BY <1>1, Zenon
  <2>2. Clear(z, bufLen) /\ Clear(Put(z, 0, x), bufLen)
    <3>1. \A j \in 1..Size : j > bufLen => ~(j - 0 \in 1..16)
      BY <1>2, SMT
    <3> QED
      BY <1>3, <1>4, <1>5, <3>1, Zenon DEF Clear
  <2>3. Clear(buf, bufLen)
    BY <1>1, <2>2, Zenon
  <2>4. length \in Nat /\ length % 4 = 0 /\ length <= Space(bufLen)
    BY <1>2, <2>1, Zenon
  <2> QED
    BY <1>1, <2>3, <2>4, Zenon DEF Within
<1>9. Accepted(mode, buf, length, written)
  <2>1. mode = "bundle" => length = Len(x) /\ buf = Put(z, 0, x)
    BY <1>1, <1>3
  <2> QED
    BY <1>1, <1>3, <1>6, <2>1, Zenon DEF Accepted
<1>10. buf \in Buffers
  BY <1>1, <1>4, <1>5, Zenon
<1>11. phase # "lost"
  BY DEF Init
<1> QED
  BY <1>1, <1>2, <1>7, <1>8, <1>9, <1>10, <1>11, Zenon DEF WriteInv

\* A message that is written alone.
LEMMA WriteMessageKeeps ==
  ASSUME WriteInv, NEW m \in Messages, WriteMessage(m)
  PROVE  WriteInv'
<1> DEFINE w == Write(buf, 0, bufLen, m)
           space == Space(bufLen)
           r == [message |-> m, cut |-> w.cut]
           e == Encoded(m)
<1>1. /\ mode = "message" /\ mode' = mode /\ written = <<>> /\ buf' = w.bytes /\ length' = w.i
      /\ phase = "write" /\ phase' = phase /\ bufLen' = bufLen
      /\ Recorded(m, bufLen, w)
  BY Zenon DEF WriteMessage
<1>2. /\ w \in Writers
      /\ w.i >= 0 => Holds(w, buf, 0, bufLen, space, e)
      /\ w.i < 0 => Len(e) > bufLen \/ ~Known(m)
  <2>1. bufLen \in Lengths
    BY Zenon DEF WriteInv
  <2>2. /\ bufLen \in Nat /\ space \in Nat /\ space % 4 = 0 /\ bufLen <= space
        /\ space <= Size
    BY <2>1, SpaceIs, Zenon
  <2> HIDE DEF space
  <2>3. 0 \in Nat /\ 0 + space = space /\ 0 + bufLen = bufLen
    BY <2>2, SMT
  <2>4. 0 + space <= Size
    BY <2>2, <2>3, Zenon
  <2>5. refused = <<>>
    BY Zenon DEF WriteMessage
  <2>6. buf \in Buffers /\ Clear(buf, 0 + bufLen)
    BY <2>3, <2>5, Zenon DEF WriteInv, Within
  <2> QED
    BY <2>2, <2>3, <2>4, <2>6, WriteHolds, Zenon
<1> HIDE DEF w, space
<1>3. w.i \in Int /\ w.bytes \in Buffers /\ w.cut \in BOOLEAN
  BY <1>2, Zenon DEF Writers
<1>4. /\ mode' \in {"message", "bundle"} /\ buf' \in Buffers /\ mode' = "message"
      /\ mode' # "bundle" /\ phase' # "lost"
  BY <1>1, <1>3
<1>12. bufLen' \in Lengths
  BY <1>1, Zenon DEF WriteInv
<1>5. CASE w.i < 0
  <2>1. written' = <<>> /\ refused' = <<[message |-> m, room |-> bufLen, code |-> w.i]>>
    BY <1>1, <1>5, Zenon DEF Recorded
  <2>2. /\ refused' # <<>> /\ refused'[1].message = m /\ refused'[1].room = bufLen
    BY <2>1
  <2>3. Justified(refused')
    BY <1>2, <1>5, <2>2, Zenon DEF Justified
  <2>4. written' \in Seq(Records)
    BY <2>1, EmptySeq
  <2> QED
    BY <1>4, <1>12, <2>2, <2>3, <2>4, Zenon DEF WriteInv
<1>6. CASE ~(w.i < 0)
  <2>1. written' = Append(<<>>, r) /\ refused' = <<>> /\ spilled' = w.spill
    BY <1>1, <1>6, Zenon DEF Recorded
  <2>2. r \in Records /\ r.message = m /\ r.cut = w.cut
    BY <1>3 DEF Records
  <2> HIDE DEF r
  <2>3. written' \in Seq(Records) /\ written'[1] = r /\ DOMAIN written' = 1..1 /\ 1 \in 1..1
    BY <2>1, <2>2
  <2>4. Holds(w, buf, 0, bufLen, space, e)
    BY <1>2, <1>3, <1>6, SMT
  <2>5. /\ w.i = Len(e) /\ w.i % 4 = 0 /\ w.i <= space /\ ~w.spill
        /\ Clear(w.bytes, 0 + bufLen)
        /\ ~w.cut => \A k \in 1..Len(e) : w.bytes[0 + k] = e[k]
    BY <2>4, Zenon DEF Holds
  <2>6. w.i \in Nat
    BY <1>3, <1>6, SMT
  <2>7. Within(length', bufLen', buf', spilled')
    <3>1. bufLen \in Nat
      <4>1. bufLen \in Lengths
        BY Zenon DEF WriteInv
      <4> QED
        BY <4>1, SpaceIs, Zenon
    <3>2. 0 + bufLen = bufLen
      BY <3>1, SMT
    <3> QED
      BY <1>1, <2>1, <2>5, <2>6, <3>2, Zenon DEF Within, space
  <2>8. ~w.cut => Begins(w.bytes, e)
    <3>1. \A k \in 1..Len(e) : 0 + k = k
      BY <2>5, <2>6, SMT
    <3> QED
      BY <2>5, <3>1, Zenon DEF Begins
  <2>9. Uncut(written') => ~w.cut
    BY <2>2, <2>3, Zenon DEF Uncut
  <2>10. written'[1].message = m
    BY <2>2, <2>3, Zenon
  <2>11. Accepted(mode', buf', length', written')
    BY <1>1, <1>4, <2>5, <2>8, <2>9, <2>10, Zenon DEF Accepted
  <2> QED
    BY <1>4, <1>12, <2>1, <2>3, <2>7, <2>11, Zenon DEF WriteInv
<1> QED
  BY <1>5, <1>6

\* A message that is added to a bundle.
LEMMA WriteNextMessageKeeps ==
  ASSUME WriteInv, NEW m \in Messages, WriteNextMessage(m)
  PROVE  WriteInv'
<1> DEFINE four == 4
           room == RoomLeft
           base == length + four
           space == Space(bufLen) - base
           w == Write(buf, base, room, m)
           r == [message |-> m, cut |-> w.cut]
           e == Encoded(m)
           old == BundleOf(written)
           new == BundleOf(Append(written, r))
           l == Word(w.i)
<1>1. /\ mode = "bundle" /\ mode' = mode /\ phase = "write" /\ refused = <<>>
      /\ length < bufLen /\ room >= 0 /\ next = length
      /\ bufLen \in Lengths /\ bufLen' = bufLen /\ phase' = phase
      /\ Within(length, bufLen, buf, spilled) /\ Accepted(mode, buf, length, written)
      /\ buf \in Buffers /\ written \in Seq(Records)
  BY Zenon DEF WriteNextMessage, WriteInv
<1>2. /\ buf' = Put(w.bytes, length, l)
      /\ next' = base + w.i /\ length' = base + w.i
      /\ Recorded(m, room, w)
  BY <1>1, Zenon DEF WriteNextMessage
<1>3. /\ length \in Nat /\ length % 4 = 0 /\ Size \in Nat /\ bufLen \in Nat /\ bufLen <= Size
      /\ Clear(buf, bufLen)
  BY <1>1, SpaceIs, Zenon DEF Within
<1>4. /\ room \in Nat /\ base \in Nat /\ base + room = bufLen /\ base + room <= Size
      /\ length + 4 <= bufLen /\ bufLen = base + room
  <2>1. room = bufLen - length - 4
    BY Zenon DEF RoomLeft
  <2> HIDE DEF room
  <2> QED
    BY <1>1, <1>3, <2>1, SMT
<1>5. base % 4 = 0
  <2>1. \A p \in Nat : p % 4 = 0 => (p + 4) % 4 = 0
    BY SMT
  <2> QED
    BY <1>3, <2>1, Zenon
<1>13. /\ space \in Nat /\ space % 4 = 0 /\ room <= space
       /\ base + space = Space(bufLen) /\ base + space <= Size
  <2> DEFINE q == Space(bufLen)
  <2>1. q \in Nat /\ q % 4 = 0 /\ bufLen <= q /\ q <= Size
    BY <1>1, SpaceIs, Zenon
  <2>2. space = q - base
    BY Zenon
  <2> HIDE DEF q, space, base, room
  <2>3. /\ space \in Nat /\ room <= space /\ base + space = q
    BY <1>3, <1>4, <2>1, <2>2, SMT
  <2>4. \A i, k \in Nat : i % 4 = 0 /\ k % 4 = 0 => (i - k) % 4 = 0
    BY SMT
  <2>5. space % 4 = 0
    BY <1>4, <1>5, <2>1, <2>2, <2>4, Zenon
  <2> QED
    BY <2>1, <2>3, <2>5, Zenon DEF q
<1> HIDE DEF four, room, base, space
<1>6. /\ w \in Writers
      /\ w.i >= 0 => Holds(w, buf, base, room, space, e)
      /\ w.i < 0 => Len(e) > room \/ ~Known(m)
  <2>1. Clear(buf, base + room)
    BY <1>3, <1>4, Zenon
  <2> QED
    BY <1>1, <1>4, <1>13, <2>1, WriteHolds, Zenon
<1> HIDE DEF w
<1>7. w.i \in Int /\ w.bytes \in Buffers /\ w.cut \in BOOLEAN
  BY <1>6, Zenon DEF Writers
<1>8. l \in Seq(Octets) /\ Len(l) = four
  BY <1>7, WordIs, Zenon DEF four
<1> HIDE DEF l
<1>9. /\ buf' \in Buffers
      /\ \A j \in 1..Size :
           buf'[j] = IF j - length \in 1..four THEN l[j - length] ELSE w.bytes[j]
  <2>1. length \in Int
    BY <1>3, SMT
  <2>2. /\ Put(w.bytes, length, l) \in Buffers
        /\ \A j \in 1..Size : Put(w.bytes, length, l)[j] =
             IF j - length \in 1..Len(l) THEN l[j - length] ELSE w.bytes[j]
    BY <1>7, <1>8, <2>1, PutIs, Zenon
  <2> QED
    BY <1>2, <1>8, <2>2, Zenon
<1>10. /\ mode' \in {"message", "bundle"} /\ mode' = "bundle" /\ mode' # "message"
       /\ bufLen' \in Lengths /\ phase' # "lost"
  BY <1>1
<1>11. CASE w.i < 0
  <2>1. written' = written /\ refused' = <<[message |-> m, room |-> room, code |-> w.i]>>
    BY <1>2, <1>11, Zenon DEF Recorded
  <2>2. /\ refused' # <<>> /\ refused'[1].message = m /\ refused'[1].room = room
    BY <2>1
  <2>3. Justified(refused')
    BY <1>6, <1>11, <2>2, Zenon DEF Justified
  <2> QED
    BY <1>1, <1>9, <1>10, <2>1, <2>2, <2>3, Zenon DEF WriteInv
<1>12. CASE ~(w.i < 0)
  <2>1. written' = Append(written, r) /\ refused' = <<>> /\ spilled' = w.spill
    BY <1>2, <1>12, Zenon DEF Recorded
  <2>2. r \in Records /\ r.message = m /\ r.cut = w.cut
    BY <1>7 DEF Records
  <2> HIDE DEF r
  <2>3. /\ written' \in Seq(Records) /\ Len(written') = Len(written) + 1
        /\ Len(written) \in Nat /\ written'[Len(written) + 1] = r
        /\ \A k \in 1..Len(written) : written'[k] = written[k]
    <3> DEFINE ws == Append(written, r)
    <3>1. /\ ws \in Seq(Records) /\ Len(ws) = Len(written) + 1
          /\ Len(written) \in Nat /\ ws[Len(written) + 1] = r
          /\ \A k \in 1..Len(written) : ws[k] = written[k]
      BY <1>1, <2>2, AppendProperties, LenProperties
    <3> QED
      BY <2>1, <3>1, Zenon
  <2>4. w.i \in Nat /\ w.i >= 0
    BY <1>7, <1>12, SMT
  <2>5. Holds(w, buf, base, room, space, e)
    BY <1>6, <2>4, Zenon
  <2>6. /\ w.i = Len(e) /\ w.i % 4 = 0 /\ w.i <= space /\ ~w.spill
        /\ Clear(w.bytes, base + room)
        /\ \A j \in 1..base : w.bytes[j] = buf[j]
        /\ ~w.cut => \A k \in 1..Len(e) : w.bytes[base + k] = e[k]
    BY <2>5, Zenon DEF Holds
  <2>7. Within(length', bufLen', buf', spilled')
    <3>1. \A p, q \in Nat : p % 4 = 0 /\ q % 4 = 0 => p + q \in Nat /\ (p + q) % 4 = 0
      BY SMT
    <3>2. (base + w.i) % 4 = 0 /\ base + w.i \in Nat
      BY <1>4, <1>5, <2>4, <2>6, <3>1, Zenon
    <3>3. base + w.i <= Space(bufLen)
      <4>1. base + w.i <= base + space
        BY <1>4, <1>13, <2>4, <2>6, SMT
      <4> QED
        BY <1>13, <4>1, Zenon
    <3>4. Clear(buf', bufLen)
      <4>1. \A j \in 1..Size : j > bufLen => ~(j - length \in 1..four)
        BY <1>3, <1>4, SMT DEF four
      <4>2. Clear(w.bytes, bufLen)
        BY <1>4, <2>6, Zenon
      <4> QED
        BY <1>9, <4>1, <4>2, Zenon DEF Clear
    <3> QED
      BY <1>1, <1>2, <2>1, <2>6, <3>2, <3>3, <3>4, Zenon DEF Within
  <2>8. /\ old \in Seq(Octets) /\ Len(old) = length
        /\ new = old \o Element(m)
    <3>1. /\ Bundles(Append(written, r))[Len(written) + 1] = Bundles(written)[Len(written)] \o Element(m)
      BY <1>1, <2>2, BundleGrows, Zenon
    <3>2. new = old \o Element(m)
      BY <2>1, <2>3, <3>1, Zenon DEF BundleOf
    <3>3. old \in Seq(Octets)
      <4>1. Len(written) \in 0..Len(written)
        BY <2>3, SMT
      <4> QED
        BY <1>1, <4>1, BundlesAre, Zenon DEF BundleOf
    <3> QED
      BY <1>1, <3>2, <3>3, Zenon DEF Accepted
  <2>9. /\ Element(m) \in Seq(Octets) /\ Len(Element(m)) = four + Len(e)
        /\ \A k \in 1..four : Element(m)[k] = l[k]
        /\ \A k \in 1..Len(e) : Element(m)[four + k] = e[k]
    BY <2>6, EncodedIs, Zenon DEF four, l
  <2> DEFINE x == Element(m)
  <2> HIDE DEF x, old, new, e
  <2>10. /\ new = old \o x /\ Len(new) = length + Len(x)
         /\ \A k \in 1..length : new[k] = old[k]
         /\ \A k \in 1..Len(x) : new[length + k] = x[k]
    BY <2>8, <2>9, JoinIs, Zenon DEF x
  <2>11. Len(x) = four + w.i /\ four \in Nat /\ base = length + four /\ four = 4
    BY <2>6, <2>9, Zenon DEF x, base, four
  <2>12. Len(new) = length'
    <3>1. length + (four + w.i) = base + w.i
      BY <1>3, <2>4, <2>11, SMT
    <3> QED
      BY <1>2, <2>10, <2>11, <3>1, Zenon
  <2>13. Uncut(written') => Uncut(written) /\ ~w.cut
    <3>1. DOMAIN written = 1..Len(written) /\ DOMAIN written' = 1..(Len(written) + 1)
      BY <1>1, <2>3, LenProperties
    <3>2. /\ Len(written) + 1 \in 1..(Len(written) + 1)
          /\ \A k \in 1..Len(written) : k \in 1..(Len(written) + 1)
      BY <2>3, SMT
    <3> QED
      BY <2>2, <2>3, <3>1, <3>2, Zenon DEF Uncut
  <2>14. ASSUME Uncut(written'), NEW k \in 1..Len(new) PROVE buf'[k] = new[k]
    <3>1. ~w.cut /\ \A j \in 1..length : buf[j] = old[j]
      BY <1>1, <2>8, <2>13, <2>14, Zenon DEF Accepted, Begins, old
    <3>2. k \in 1..Size /\ k \in 1..(base + w.i)
      <4>1. length' <= Space(bufLen) /\ Space(bufLen) <= Size /\ Space(bufLen) \in Nat
        BY <1>1, <2>7, SpaceIs, Zenon DEF Within
      <4>3. base + w.i <= Size
        <5> DEFINE q == Space(bufLen)
        <5>1. base + w.i <= q /\ q <= Size /\ q \in Nat
          BY <1>2, <4>1, Zenon
        <5> HIDE DEF q
        <5> QED
          BY <1>3, <1>4, <2>4, <5>1, SMT
      <4>2. k \in 1..(base + w.i) /\ base + w.i <= Size
        BY <1>2, <2>12, <2>14, <4>3, Zenon
      <4> QED
        BY <1>3, <1>4, <2>4, <4>2, SMT
    <3>3. CASE k <= length
      <4>1. k \in 1..length /\ k \in 1..base /\ ~(k - length \in 1..four)
        BY <1>3, <2>11, <3>2, <3>3, SMT
      <4> QED
        BY <1>9, <2>6, <2>10, <3>1, <3>2, <4>1, Zenon
    <3>4. CASE k - length \in 1..four
      <4> DEFINE j == k - length
      <4>1. j \in 1..four /\ j \in 1..(four + w.i) /\ length + j = k
        BY <1>3, <2>4, <2>11, <3>2, <3>4, SMT
      <4>2. buf'[k] = l[j]
        BY <1>9, <3>2, <3>4, Zenon
      <4> HIDE DEF j
      <4>3. x[j] = l[j] /\ new[length + j] = x[j]
        BY <2>9, <2>10, <2>11, <4>1, Zenon DEF x
      <4> QED
        BY <4>1, <4>2, <4>3, Zenon
    <3>5. CASE ~(k <= length) /\ ~(k - length \in 1..four)
      <4> DEFINE j == k - base
      <4>1. j \in 1..w.i /\ four + j \in 1..(four + w.i) /\ length + (four + j) = k /\ base + j = k
        BY <1>3, <2>4, <2>11, <3>2, <3>5, SMT
      <4>2. buf'[k] = w.bytes[k]
        BY <1>9, <3>2, <3>5, Zenon
      <4> HIDE DEF j
      <4>3. w.bytes[base + j] = e[j]
        BY <2>6, <3>1, <4>1, Zenon
      <4>4. x[four + j] = e[j] /\ new[length + (four + j)] = x[four + j]
        BY <2>6, <2>9, <2>10, <2>11, <4>1, Zenon DEF x
      <4> QED
        BY <4>1, <4>2, <4>3, <4>4, Zenon
    <3> QED
      BY <3>3, <3>4, <3>5
  <2>15. Accepted(mode', buf', length', written')
    BY <1>10, <2>1, <2>12, <2>14, Zenon DEF Accepted, Begins, new
  <2>16. next' = length'
    BY <1>2, Zenon
  <2> QED
    BY <1>9, <1>10, <2>1, <2>3, <2>7, <2>15, <2>16, Zenon DEF WriteInv
<1> QED
  BY <1>11, <1>12

\* Every step keeps the invariant.
LEMMA WriteInvKept == WriteInv /\ [Next]_vars => WriteInv'
<1> SUFFICES ASSUME WriteInv, [Next]_vars PROVE WriteInv'
  OBVIOUS
<1>1. CASE /\ UNCHANGED <<mode, bufLen, writeVars>>
           /\ phase' = "write" => phase = "write" /\ next' = next
           /\ phase' = "lost" => phase = "lost" \/ (bufLen % 4 # 0 /\ length = Align(bufLen))
  <2>1. /\ mode' = mode /\ bufLen' = bufLen /\ buf' = buf /\ length' = length /\ written' = written
        /\ refused' = refused /\ spilled' = spilled
    BY <1>1, Zenon DEF writeVars
  <2>2. Within(length', bufLen', buf', spilled') = Within(length, bufLen, buf, spilled)
    BY <2>1, Zenon
  <2>3. Accepted(mode', buf', length', written') = Accepted(mode, buf, length, written)
    BY <2>1, Zenon
  <2>4. Justified(refused') = Justified(refused)
    BY <2>1, Zenon
  <2> QED
    BY <1>1, <2>1, <2>2, <2>3, <2>4, Zenon DEF WriteInv
<1>2. ASSUME NEW m \in Messages, WriteMessage(m) PROVE WriteInv'
  BY <1>2, WriteMessageKeeps
<1>3. ASSUME NEW m \in Messages, WriteNextMessage(m) PROVE WriteInv'
  BY <1>3, WriteNextMessageKeeps
<1>4. CASE Receive
  <2>1. UNCHANGED <<mode, bufLen, writeVars>> /\ phase' = "read"
    BY <1>4, Zenon DEF Receive
  <2>2. phase' # "write" /\ phase' # "lost"
    BY <2>1
  <2> QED
    BY <1>1, <2>1, <2>2, Zenon
<1>5. CASE GetNextMessage
  <2>1. UNCHANGED <<mode, bufLen, phase, writeVars>> /\ phase = "read"
    BY <1>5, Zenon DEF GetNextMessage
  <2>2. phase' # "write" /\ phase' # "lost"
    BY <2>1
  <2> QED
    BY <1>1, <2>1, <2>2, Zenon
<1>6. CASE GetNextNumber \/ GetNextString \/ GetNextBlob \/ PassBare \/ Reset
  <2>1. UNCHANGED <<mode, bufLen, phase, next, writeVars>>
    BY <1>6, Zenon DEF GetNextNumber, GetNextString, GetNextBlob, PassBare, Reset, Reads
  <2> QED
    BY <1>1, <2>1, Zenon
<1>7. CASE UNCHANGED vars
  <2>1. UNCHANGED <<mode, bufLen, phase, next, writeVars>>
    BY <1>7, Zenon DEF vars
  <2> QED
    BY <1>1, <2>1, Zenon
<1>8. CASE Done
  <2>1. UNCHANGED vars
    BY <1>8, Zenon DEF Done
  <2> QED
    BY <1>7, <2>1, Zenon
<1>9. CASE WriteNextMessageLost
  <2>1. /\ UNCHANGED <<mode, bufLen, next, writeVars>> /\ phase' = "lost" /\ phase' # "write"
        /\ mode = "bundle" /\ refused = <<>> /\ length < bufLen /\ bufLen - length - 4 < 0
    BY <1>9 DEF WriteNextMessageLost, RoomLeft
  <2>2. bufLen \in Nat /\ length \in Nat /\ length % 4 = 0
    BY <2>1, SpaceIs, Zenon DEF WriteInv, Within
  <2>3. bufLen % 4 # 0 /\ length = Align(bufLen)
    <3>1. \A i, n \in Nat : i % 4 = 0 /\ i < n /\ n - i - 4 < 0 =>
            n % 4 # 0 /\ i = n - (n % 4)
      BY SMT
    <3> QED
      BY <2>1, <2>2, <3>1, Zenon DEF Align
  <2> QED
    BY <1>1, <2>1, <2>3, Zenon
<1> QED
  BY <1>2, <1>3, <1>4, <1>5, <1>6, <1>7, <1>8, <1>9, Zenon DEF Next

\* s is in the buffer from offset o on.
Stands(b, o, s) == \A k \in 1..Len(s) : b[o + k] = s[k]

\* It stays there as long as the first l bytes do.
LEMMA StandsStill ==
  ASSUME NEW o \in Nat, NEW s \in Seq(Octets), NEW l \in Nat, o + Len(s) <= l,
         NEW b, NEW c, \A j \in 1..l : c[j] = b[j], Stands(b, o, s)
  PROVE  Stands(c, o, s)
<1>1. Len(s) \in Nat
  BY LenProperties
<1>2. \A k \in 1..Len(s) : o + k \in 1..l
  BY <1>1, SMT
<1> QED
  BY <1>2, Zenon DEF Stands

\* A slice of the buffer is what stands there.
LEMMA SliceIs ==
  ASSUME buf \in Buffers, NEW o \in Nat, NEW s \in Seq(Octets), o + Len(s) <= Size,
         Stands(buf, o, s)
  PROVE  Slice(o, Len(s)) = s
<1> DEFINE n == Len(s)
           t == SubSeq(buf, o + 1, o + n)
<1>1. /\ n \in Nat /\ Size \in Nat /\ o + 1 \in Int /\ o + n \in Int
      /\ (IF o + 1 <= o + n THEN (o + n) - (o + 1) + 1 ELSE 0) = n
      /\ (o + n) - (o + 1) + 1 = n
      /\ \A k \in 1..n : (o + 1) + k - 1 = o + k
      /\ \A k \in (o + 1)..(o + n) : k \in 1..Size
  BY BufferAssumption, LenProperties, SMT
<1>2. Slice(o, n) = t
  BY Zenon DEF Slice
<1>3. \A k \in (o + 1)..(o + n) : buf[k] \in Octets
  BY <1>1, Zenon DEF Buffers
<1> HIDE DEF n
<1>4. /\ SubSeq(buf, o + 1, o + n) \in Seq(Octets)
      /\ Len(SubSeq(buf, o + 1, o + n)) =
           IF o + 1 <= o + n THEN (o + n) - (o + 1) + 1 ELSE 0
      /\ \A k \in 1..((o + n) - (o + 1) + 1) :
           SubSeq(buf, o + 1, o + n)[k] = buf[(o + 1) + k - 1]
  BY <1>1, <1>3, SubSeqProperties
<1>5. t \in Seq(Octets) /\ Len(t) = n /\ \A k \in 1..n : t[k] = buf[o + k]
  BY <1>1, <1>4, Zenon
<1> HIDE DEF t
<1>6. Len(t) = Len(s) /\ \A k \in 1..Len(t) : t[k] = s[k]
  BY <1>5, Zenon DEF Stands, n
<1>7. t = s
  BY <1>5, <1>6, SeqEqual, Zenon
<1> QED
  BY <1>2, <1>7, Zenon DEF n

\* The first bytes of the buffer, as a sequence.
LEMMA BeginningIs ==
  ASSUME buf \in Buffers, NEW s \in Seq(Octets), Len(s) <= Size, Begins(buf, s)
  PROVE  Slice(0, Len(s)) = s
<1> DEFINE n == Len(s)
<1>1. n \in Nat
  BY LenProperties
<1> HIDE DEF n
<1>2. 0 \in Nat /\ 0 + n = n /\ \A k \in 1..n : 0 + k = k
  BY <1>1, SMT
<1>3. Stands(buf, 0, s) /\ 0 + Len(s) <= Size
  BY <1>2, Zenon DEF Begins, Stands, n
<1> QED
  BY <1>2, <1>3, SliceIs, Zenon

\* What was accepted is in the array.
LEMMA LengthIs ==
  ASSUME WriteInv, refused = <<>>
  PROVE  length \in Nat /\ length <= Size
<1> DEFINE q == Space(bufLen)
<1>1. q \in Nat /\ q <= Size /\ Size \in Nat /\ length \in Nat /\ length <= q
  BY SpaceIs, Zenon DEF WriteInv, Within
<1> HIDE DEF q
<1> QED
  BY <1>1, SMT

\* The invariant says what was accepted.
LEMMA WriteInvSays == WriteInv => WritesEncoding /\ RefusesWhatDoesNotFit
<1> SUFFICES ASSUME WriteInv PROVE WritesEncoding /\ RefusesWhatDoesNotFit
  OBVIOUS
<1>3. /\ bufLen \in Lengths /\ bufLen \in Nat /\ Size \in Nat
      /\ Space(bufLen) \in Nat /\ Space(bufLen) < bufLen + 4 /\ Space(bufLen) <= Size
  BY SpaceIs, Zenon DEF WriteInv
<1>1. RefusesWhatDoesNotFit
  <2>1. ASSUME refused = <<>>
        PROVE  /\ length % 4 = 0 /\ length < bufLen + 4 /\ ~spilled
               /\ \A k \in (bufLen + 1)..Size : buf[k] = NUL
    <3>1. /\ length \in Nat /\ length % 4 = 0 /\ length <= Space(bufLen) /\ ~spilled
          /\ Clear(buf, bufLen)
      BY <2>1, Zenon DEF WriteInv, Within
    <3>2. length < bufLen + 4
      <4> DEFINE q == Space(bufLen)
      <4>1. q \in Nat /\ q < bufLen + 4 /\ length <= q
        BY <1>3, <3>1, Zenon
      <4> HIDE DEF q
      <4> QED
        BY <1>3, <3>1, <4>1, SMT
    <3>3. \A k \in (bufLen + 1)..Size : k \in 1..Size /\ k > bufLen
      BY <1>3, SMT
    <3> QED
      BY <3>1, <3>2, <3>3, Zenon DEF Clear
  <2> QED
    BY <2>1, Zenon DEF WriteInv, RefusesWhatDoesNotFit, Justified
<1>2. ASSUME refused = <<>>, written # <<>>, \A k \in DOMAIN written : ~written[k].cut
      PROVE  LET whole == IF mode = "bundle" THEN EncodedBundle ELSE Encoded(written[1].message)
             IN length = Len(whole) /\ Slice(0, length) = whole
  <2> DEFINE whole == IF mode = "bundle" THEN EncodedBundle ELSE Encoded(written[1].message)
  <2>1. /\ mode \in {"message", "bundle"} /\ buf \in Buffers /\ written \in Seq(Records)
        /\ length <= Space(bufLen) /\ length \in Nat /\ Accepted(mode, buf, length, written)
    BY <1>2, Zenon DEF WriteInv, Within
  <2>6. length <= Size
    BY <1>2, LengthIs, Zenon
  <2>2. Uncut(written)
    BY <1>2, Zenon DEF Uncut
  <2>3. length = Len(whole) /\ Begins(buf, whole)
    <3>1. mode = "bundle" => length = Len(EncodedBundle) /\ Begins(buf, EncodedBundle)
      BY <2>1, <2>2, Zenon DEF Accepted, BundleOf, EncodedBundle
    <3>2. mode = "message" =>
            length = Len(Encoded(written[1].message)) /\ Begins(buf, Encoded(written[1].message))
      BY <1>2, <2>1, <2>2, Zenon DEF Accepted
    <3> QED
      BY <2>1, <3>1, <3>2, Zenon
  <2>4. whole \in Seq(Octets)
    <3>1. EncodedBundle \in Seq(Octets)
      <4>1. Len(written) \in 0..Len(written)
        BY <2>1, LenProperties
      <4> QED
        BY <2>1, <4>1, BundlesAre, Zenon DEF EncodedBundle
    <3>2. Encoded(written[1].message) \in Seq(Octets)
      <4>1. written[1] \in Records
        BY <1>2, <2>1
      <4>2. written[1].message \in Messages
        BY <4>1, Zenon DEF Records
      <4> QED
        BY <4>2, EncodedIs, Zenon
    <3> QED
      BY <3>1, <3>2, Zenon
  <2> HIDE DEF whole
  <2>5. Slice(0, length) = whole
    BY <2>1, <2>3, <2>4, <2>6, BeginningIs, Zenon
  <2> QED
    BY <2>3, <2>5, Zenon DEF whole
<1> QED
  BY <1>1, <1>2, Zenon DEF WritesEncoding

\* In every state the invariant of the writer holds.
LEMMA WriteInvAlways == Spec => []WriteInv
<1> QED
  BY WriteInvStarts, WriteInvKept, PTL DEF Spec

-----------------------------------------------------------------------------
(* Reading what stands in the buffer.                                      *)

\* A search ends at the first byte that is looked for.
LEMMA FindIs ==
  ASSUME NEW c, NEW o \in Nat, NEW p \in o..(Size - 1), buf[p + 1] = c,
         \A q \in o..(p - 1) : buf[q + 1] # c
  PROVE  Find(c, o) = p
<1> DEFINE S == o..(Size - 1)
           Q(r) == buf[r + 1] = c /\ \A q \in o..(r - 1) : buf[q + 1] # c
<1>1. \E r \in S : Q(r)
  OBVIOUS
<1>2. Find(c, o) = CHOOSE r \in S : Q(r)
  BY DEF Find
<1>3. Find(c, o) \in S /\ Q(Find(c, o))
  <2> HIDE DEF S, Q
  <2> QED
    BY <1>1, <1>2, Zenon
<1>4. \A r \in S : r = p \/ r \in o..(p - 1) \/ p \in o..(r - 1)
  BY BufferAssumption, SMT
<1> QED
  BY <1>3, <1>4, Zenon

\* What ntohl makes of htonl, of a length.
LEMMA NumberIs ==
  ASSUME NEW n \in Nat, n <= IntMax
  PROVE  Number(Word(n)) = n
<1> DEFINE a == n \div 256
           b == a \div 256
           c == b \div 256
<1>1. n = 256 * a + (n % 256) /\ a \in Nat /\ a <= 8388607 /\ n % 256 \in 0..255
  BY SMT DEF IntMax
<1>2. a = 256 * b + (a % 256) /\ b \in Nat /\ b <= 32767 /\ a % 256 \in 0..255
  BY <1>1, SMT
<1>3. b = 256 * c + (b % 256) /\ c \in Nat /\ c <= 127 /\ b % 256 \in 0..255
  BY <1>2, SMT
<1>4. n \div 65536 = b /\ n \div 16777216 = c
  BY SMT
<1>5. Word(n) = <<c % 256, b % 256, a % 256, n % 256>> /\ c % 256 = c
  BY <1>3, <1>4, SMT DEF Word
<1> HIDE DEF a, b, c
<1>6. \A p, q, r, s \in Int : p <= 127 =>
        Number(<<p, q, r, s>>) = p * 16777216 + q * 65536 + r * 256 + s
  BY SMT DEF Number
<1>7. Number(Word(n)) = c * 16777216 + (b % 256) * 65536 + (a % 256) * 256 + (n % 256)
  BY <1>1, <1>2, <1>3, <1>5, <1>6, SMT
<1> QED
  BY <1>1, <1>2, <1>3, <1>7, SMT

\* Where the parts of a header are.
LEMMA HeaderPlaces ==
  ASSUME NEW l \in Nat, NEW n \in Nat, NEW a \in Nat, NEW q \in Nat, l < a, n + 2 <= q
  PROVE  /\ \A k \in 1..l : k \in 1..a
         /\ \A k \in (l + 1)..a : k \in 1..a
         /\ 1 \in 1..q /\ 1 \in 1..(n + 1)
         /\ n + 2 \in 1..q /\ a + (n + 2) = a + n + 2
         /\ \A k \in 1..n : k + 1 \in 1..q /\ k + 1 \in 1..(n + 1) /\ a + (k + 1) = a + 1 + k
         /\ a + n + 2 <= a + q
<1>1. \A k \in 1..l : k \in 1..a
  BY SMT
<1>2. \A k \in (l + 1)..a : k \in 1..a
  BY SMT
<1>3. 1 \in 1..q /\ 1 \in 1..(n + 1)
         /\ n + 2 \in 1..q /\ a + (n + 2) = a + n + 2
  BY SMT
<1>4. \A k \in 1..n : k + 1 \in 1..q /\ k + 1 \in 1..(n + 1) /\ a + (k + 1) = a + 1 + k
  BY SMT
<1>5. a + n + 2 <= a + q
  BY SMT
<1> QED BY <1>1, <1>2, <1>3, <1>4, <1>5, Zenon

\* The header of a message, byte by byte: the address, zeros up to the comma, the
\* types, a zero.
LEMMA HeaderReads ==
  ASSUME NEW m \in Messages
  PROVE  LET l == Len(m.address)
             n == Len(m.args)
             a == Align(l + 4)
             h == EncodedHeader(m)
         IN /\ l \in Nat /\ n \in Nat /\ a \in Nat /\ a % 4 = 0 /\ l < a
            /\ h \in Seq(Octets) /\ Len(h) = a + Align(n + 5) /\ a + n + 2 <= Len(h)
            /\ \A k \in 1..l : h[k] = m.address[k] /\ h[k] # NUL
            /\ \A k \in (l + 1)..a : h[k] = NUL
            /\ h[a + 1] = Comma
            /\ \A k \in 1..n : h[a + 1 + k] = Types(m)[k] /\ h[a + 1 + k] # NUL
            /\ h[a + n + 2] = NUL
<1> DEFINE l == Len(m.address)
           n == Len(m.args)
           a == Align(l + 4)
           h == EncodedHeader(m)
           f == <<Comma>> \o Types(m)
           x == Terminated(m.address)
           y == Terminated(f)
           q == Align(n + 5)
<1>1. /\ l \in Nat /\ n \in Nat /\ m.address \in Seq(Octets) /\ m.address \in Seq(Characters)
      /\ f \in Seq(Octets) /\ Len(f) = n + 1 /\ f[1] = Comma
      /\ \A k \in 1..n : f[k + 1] = Types(m)[k]
  BY MessageIs, Zenon
<1>2. a \in Nat /\ a % 4 = 0 /\ l < a /\ n + 2 <= q /\ q \in Nat
  <2>1. l + 4 \in Nat /\ n + 5 \in Nat
    BY <1>1, SMT
  <2>2. /\ a % 4 = 0 /\ a \in Nat /\ l + 4 < a + 4
        /\ q \in Nat /\ n + 5 < q + 4
    BY <2>1, AlignIs, Zenon
  <2> HIDE DEF l, n, a, q
  <2> QED
    BY <1>1, <2>2, SMT
<1> HIDE DEF q
<1>3. /\ x \in Seq(Octets) /\ Len(x) = a
      /\ \A k \in 1..l : x[k] = m.address[k]
      /\ \A k \in (l + 1)..a : x[k] = NUL
  BY <1>1, TerminatedIs, Zenon
<1> HIDE DEF f
<1>4. /\ y \in Seq(Octets) /\ Len(y) = q
      /\ \A k \in 1..(n + 1) : y[k] = f[k]
      /\ y[n + 2] = NUL
  <2>1. /\ y \in Seq(Octets) /\ Len(y) = Align(Len(f) + 4)
        /\ \A k \in 1..Len(f) : y[k] = f[k]
        /\ \A k \in (Len(f) + 1)..Align(Len(f) + 4) : y[k] = NUL
    BY <1>1, TerminatedIs, Zenon
  <2> HIDE DEF n
  <2>2. (n + 1) + 4 = n + 5 /\ n + 2 \in ((n + 1) + 1)..q
    BY <1>1, <1>2, SMT
  <2>3. Len(f) + 4 = n + 5 /\ n + 2 \in (Len(f) + 1)..q
    BY <1>1, <2>2, Zenon
  <2> QED
    BY <1>1, <2>1, <2>3, Zenon DEF q
<1>5. \A k \in 1..l : m.address[k] # NUL
  <2>1. \A k \in 1..l : m.address[k] \in Characters
    BY <1>1
  <2>2. NUL \notin Characters
    BY DEF NUL, Characters
  <2> QED
    BY <2>1, <2>2, Zenon
<1>6. \A k \in 1..n : Types(m)[k] # NUL
  <2> TAKE k \in 1..n
  <2>1. m.args[k] \in Arguments
    BY MessageIs, ElementOfSeq
  <2>2. m.args[k].type \in Characters
    BY <2>1 DEF Arguments
  <2>3. Types(m)[k] = m.args[k].type
    BY <1>1, MessageIs, LenProperties DEF Types
  <2>4. NUL \notin Characters
    BY DEF NUL, Characters
  <2> QED
    BY <2>2, <2>3, <2>4, Zenon
<1> HIDE DEF l, n, a, h, x, y
<1>7. /\ x \o y \in Seq(Octets) /\ Len(x \o y) = a + q
      /\ \A k \in 1..a : (x \o y)[k] = x[k]
      /\ \A k \in 1..q : (x \o y)[a + k] = y[k]
  <2>1. /\ x \o y \in Seq(Octets) /\ Len(x \o y) = Len(x) + Len(y)
        /\ \A k \in 1..Len(x) : (x \o y)[k] = x[k]
        /\ \A k \in 1..Len(y) : (x \o y)[Len(x) + k] = y[k]
    BY <1>3, <1>4, JoinIs, Zenon
  <2> QED
    BY <1>3, <1>4, <2>1, Zenon
<1>8. h = x \o y
  BY Zenon DEF EncodedHeader, h, x, y, f
<1>9. /\ \A k \in 1..l : k \in 1..a
      /\ \A k \in (l + 1)..a : k \in 1..a
      /\ 1 \in 1..q /\ 1 \in 1..(n + 1)
      /\ n + 2 \in 1..q /\ a + (n + 2) = a + n + 2
      /\ \A k \in 1..n : k + 1 \in 1..q /\ k + 1 \in 1..(n + 1) /\ a + (k + 1) = a + 1 + k
      /\ a + n + 2 <= a + q
  BY <1>1, <1>2, HeaderPlaces, Zenon
<1>10. /\ \A k \in 1..l : h[k] = m.address[k]
       /\ \A k \in (l + 1)..a : h[k] = NUL
  BY <1>3, <1>7, <1>8, <1>9, Zenon
<1>11. h[a + 1] = Comma /\ h[a + n + 2] = NUL
  BY <1>1, <1>4, <1>7, <1>8, <1>9, Zenon
<1>12. \A k \in 1..n : h[a + 1 + k] = Types(m)[k]
  <2> TAKE k \in 1..n
  <2>1. h[a + (k + 1)] = y[k + 1] /\ y[k + 1] = f[k + 1] /\ f[k + 1] = Types(m)[k]
    BY <1>1, <1>4, <1>7, <1>8, <1>9, Zenon
  <2> QED
    BY <1>9, <2>1, Zenon
<1>13. h \in Seq(Octets) /\ Len(h) = a + q /\ a + n + 2 <= Len(h)
  BY <1>7, <1>8, <1>9, Zenon
<1>14. \A k \in 1..n : h[a + 1 + k] # NUL
  BY <1>6, <1>12, Zenon
<1>15. \A k \in 1..l : h[k] # NUL
  BY <1>5, <1>10, Zenon
<1> QED
  BY <1>1, <1>2, <1>10, <1>11, <1>12, <1>13, <1>14, <1>15, Zenon DEF l, n, a, h, q

\* The encoding up to an argument is where the encoding up to a later one begins.
LEMMA EncodingsRise ==
  ASSUME NEW m \in Messages, NEW e, e = Encodings(m), NEW n, n = Len(m.args)
  PROVE  \A k \in 0..n : \A j \in 0..k : Len(e[j]) <= Len(e[k]) /\ Begins(e[k], e[j])
<1> DEFINE Rest(j, k) == Len(e[j]) <= Len(e[k]) /\ Begins(e[k], e[j])
           P == {k \in 0..n : \A j \in 0..k : Rest(j, k)}
<1>1. /\ n \in Nat /\ e \in [0..n -> Seq(Octets)]
      /\ \A k \in 1..n : e[k] = e[k - 1] \o EncodedArgument(m.args[k])
      /\ \A k \in 1..n : EncodedArgument(m.args[k]) \in Seq(Octets)
  BY MessageIs, EncodingsAre, ElementOfSeq, EncodedArgumentIs
<1>2. \A k \in 0..n : Rest(k, k)
  <2>1. \A k \in 0..n : Len(e[k]) \in Nat
    BY <1>1, LenProperties
  <2>2. \A i \in Nat : i <= i
    BY SMT
  <2> QED
    BY <2>1, <2>2, Zenon DEF Begins
<1>3. 0 \in P
  <2>1. 0 \in 0..n /\ \A j \in 0..0 : j = 0
    BY <1>1, SMT
  <2> QED
    BY <1>2, <2>1, Zenon
<1>4. ASSUME NEW k \in 1..n, k - 1 \in P PROVE k \in P
  <2> DEFINE i == k - 1
             x == EncodedArgument(m.args[k])
  <2>1. k \in 0..n /\ i \in 0..n /\ \A j \in 0..k : j = k \/ (j \in 0..i /\ j \in 0..n)
    BY <1>1, SMT
  <2>2. \A j \in 0..i : Rest(j, i)
    BY <1>4, Zenon
  <2>3. e[k] = e[i] \o x /\ e[i] \in Seq(Octets) /\ x \in Seq(Octets)
    BY <1>1, <2>1, Zenon
  <2> HIDE DEF i, x
  <2>4. /\ Len(e[k]) = Len(e[i]) + Len(x) /\ Len(e[i]) \in Nat /\ Len(x) \in Nat
        /\ \A q \in 1..Len(e[i]) : e[k][q] = e[i][q]
    <3>1. /\ Len(e[i] \o x) = Len(e[i]) + Len(x) /\ Len(e[i]) \in Nat /\ Len(x) \in Nat
          /\ \A q \in 1..Len(e[i]) : (e[i] \o x)[q] = e[i][q]
      BY <2>3, JoinIs, Zenon
    <3> QED
      BY <2>3, <3>1, Zenon
  <2>5. ASSUME NEW j \in 0..i, j \in 0..n PROVE Rest(j, k)
    <3>1. Len(e[j]) <= Len(e[i]) /\ Begins(e[i], e[j]) /\ Len(e[j]) \in Nat
      BY <1>1, <2>2, <2>5, LenProperties
    <3>2. Len(e[j]) <= Len(e[i]) + Len(x) /\ \A q \in 1..Len(e[j]) : q \in 1..Len(e[i])
      <4> DEFINE u == Len(e[j])
                 v == Len(e[i])
                 w == Len(x)
      <4>1. u \in Nat /\ v \in Nat /\ w \in Nat /\ u <= v
        BY <2>4, <3>1, Zenon
      <4> HIDE DEF u, v, w
      <4>2. u <= v + w /\ \A q \in 1..u : q \in 1..v
        BY <4>1, SMT
      <4> QED
        BY <4>2, Zenon DEF u, v, w
    <3> QED
      BY <2>4, <3>1, <3>2, Zenon DEF Begins
  <2>6. \A j \in 0..k : Rest(j, k)
    BY <1>2, <2>1, <2>5, Zenon
  <2> QED
    BY <2>1, <2>6, Zenon
<1>5. 0..n \subseteq P
  <2> HIDE DEF P
  <2> QED
    BY <1>1, <1>3, <1>4, UpTo
<1> QED
  BY <1>5, Zenon

\* Where a whole message stands, its header and each of its arguments stand.
LEMMA PartsStand ==
  ASSUME NEW m \in Messages, NEW at \in Nat, Stands(buf, at, Encoded(m)),
         at + Len(Encoded(m)) <= Size
  PROVE  /\ Stands(buf, at, EncodedHeader(m))
         /\ at + Len(EncodedHeader(m)) <= Size /\ Encodings(m)[0] = EncodedHeader(m)
         /\ \A k \in 1..Len(m.args) :
              LET o == at + Len(Encodings(m)[k - 1])
                  x == EncodedArgument(m.args[k])
              IN /\ o \in Nat /\ x \in Seq(Octets) /\ Stands(buf, o, x)
                 /\ at + Len(Encodings(m)[k]) = o + Len(x)
                 /\ o + Len(x) <= at + Len(Encoded(m)) /\ o + Len(x) <= Size
<1> DEFINE n == Len(m.args)
           e == Encodings(m)
           all == Encoded(m)
<1>1. /\ n \in Nat /\ e \in [0..n -> Seq(Octets)] /\ e[0] = EncodedHeader(m) /\ all = e[n]
      /\ \A k \in 1..n : e[k] = e[k - 1] \o EncodedArgument(m.args[k])
      /\ \A k \in 1..n : EncodedArgument(m.args[k]) \in Seq(Octets)
      /\ Len(all) \in Nat /\ Size \in Nat
  BY MessageIs, EncodingsAre, ElementOfSeq, EncodedArgumentIs, EncodedIs, BufferAssumption DEF Encoded
<1>2. \A j \in 0..n : Len(e[j]) <= Len(all) /\ Begins(all, e[j])
  <2>1. n \in 0..n
    BY <1>1, SMT
  <2> QED
    BY <1>1, <2>1, EncodingsRise, Zenon
<1>3. \A j \in 0..n : Len(e[j]) \in Nat
  BY <1>1, LenProperties
<1> HIDE DEF n, e, all
<1>4. ASSUME NEW j \in 0..n
      PROVE  Stands(buf, at, e[j]) /\ at + Len(e[j]) <= at + Len(all) /\ at + Len(e[j]) <= Size
  <2> DEFINE u == Len(e[j])
             v == Len(all)
  <2>1. u \in Nat /\ v \in Nat /\ u <= v /\ at + v <= Size
    BY <1>1, <1>2, <1>3, Zenon DEF all
  <2> HIDE DEF u, v
  <2>2. at + u <= at + v /\ at + u <= Size /\ \A q \in 1..u : q \in 1..v
    BY <1>1, <2>1, SMT
  <2>3. \A q \in 1..u : buf[at + q] = e[j][q]
    BY <1>2, <2>2, Zenon DEF Stands, Begins, u, v, all
  <2> QED
    BY <2>2, <2>3, Zenon DEF Stands, u, v
<1>5. ASSUME NEW k \in 1..n
      PROVE  LET o == at + Len(e[k - 1])
                 x == EncodedArgument(m.args[k])
             IN /\ o \in Nat /\ x \in Seq(Octets) /\ Stands(buf, o, x)
                /\ at + Len(e[k]) = o + Len(x)
                /\ o + Len(x) <= at + Len(all) /\ o + Len(x) <= Size
  <2> DEFINE i == k - 1
             x == EncodedArgument(m.args[k])
             o == at + Len(e[i])
  <2>1. k \in 0..n /\ i \in 0..n
    BY <1>1, SMT
  <2>2. e[k] = e[i] \o x /\ e[i] \in Seq(Octets) /\ x \in Seq(Octets)
    BY <1>1, <2>1, Zenon
  <2> HIDE DEF i, x
  <2>3. /\ Len(e[k]) = Len(e[i]) + Len(x) /\ Len(e[i]) \in Nat /\ Len(x) \in Nat
        /\ \A q \in 1..Len(x) : e[k][Len(e[i]) + q] = x[q]
    <3>1. /\ Len(e[i] \o x) = Len(e[i]) + Len(x) /\ Len(e[i]) \in Nat /\ Len(x) \in Nat
          /\ \A q \in 1..Len(x) : (e[i] \o x)[Len(e[i]) + q] = x[q]
      BY <2>2, JoinIs, Zenon
    <3> QED
      BY <2>2, <3>1, Zenon
  <2>4. /\ at + Len(e[k]) = o + Len(x) /\ o \in Nat
        /\ \A q \in 1..Len(x) : /\ Len(e[i]) + q \in 1..Len(e[k])
                                /\ at + (Len(e[i]) + q) = o + q
    <3> DEFINE u == Len(e[i])
               v == Len(x)
               w == Len(e[k])
    <3>1. u \in Nat /\ v \in Nat /\ w = u + v
      BY <2>3, Zenon
    <3> HIDE DEF u, v, w
    <3>2. /\ at + w = (at + u) + v /\ at + u \in Nat
          /\ \A q \in 1..v : u + q \in 1..w /\ at + (u + q) = (at + u) + q
      BY <3>1, SMT
    <3> QED
      BY <3>2, Zenon DEF u, v, w
  <2>5. Stands(buf, at, e[k]) /\ at + Len(e[k]) <= at + Len(all) /\ at + Len(e[k]) <= Size
    BY <1>4, <2>1, Zenon
  <2>6. Stands(buf, o, x)
    BY <2>3, <2>4, <2>5, Zenon DEF Stands
  <2> HIDE DEF o
  <2>7. o + Len(x) <= at + Len(all) /\ o + Len(x) <= Size
    BY <2>4, <2>5, Zenon
  <2> QED
    BY <2>2, <2>4, <2>6, <2>7, Zenon DEF i, x, o
<1>6. 0 \in 0..n
  BY <1>1, SMT
<1>7. Stands(buf, at, e[0]) /\ at + Len(e[0]) <= Size
  BY <1>4, <1>6, Zenon
<1> QED
  BY <1>1, <1>5, <1>7, Zenon DEF n, e, all

\* The header of a message that stands in the buffer, byte by byte.
LEMMA HeaderStands ==
  ASSUME NEW m \in Messages, NEW at \in Nat, Stands(buf, at, Encoded(m)),
         at + Len(Encoded(m)) <= Size
  PROVE  LET l == Len(m.address)
             n == Len(m.args)
             a == Align(l + 4)
         IN /\ l \in Nat /\ n \in Nat /\ a \in Nat /\ a % 4 = 0 /\ l < a
            /\ Len(EncodedHeader(m)) = a + Align(n + 5) /\ at + (a + n + 2) <= Size
            /\ \A k \in 1..l : buf[at + k] = m.address[k] /\ buf[at + k] # NUL
            /\ \A k \in (l + 1)..a : buf[at + k] = NUL
            /\ buf[at + (a + 1)] = Comma
            /\ \A k \in 1..n : /\ buf[at + (a + 1 + k)] = Types(m)[k]
                               /\ buf[at + (a + 1 + k)] # NUL
            /\ buf[at + (a + n + 2)] = NUL
<1> DEFINE l == Len(m.address)
           n == Len(m.args)
           a == Align(l + 4)
           h == EncodedHeader(m)
           x == Len(h)
<1>1. /\ l \in Nat /\ n \in Nat /\ a \in Nat /\ a % 4 = 0 /\ l < a
      /\ h \in Seq(Octets) /\ x = a + Align(n + 5) /\ a + n + 2 <= x
      /\ \A k \in 1..l : h[k] = m.address[k] /\ h[k] # NUL
      /\ \A k \in (l + 1)..a : h[k] = NUL
      /\ h[a + 1] = Comma
      /\ \A k \in 1..n : h[a + 1 + k] = Types(m)[k] /\ h[a + 1 + k] # NUL
      /\ h[a + n + 2] = NUL
  BY HeaderReads, Zenon
<1>2. x \in Nat /\ Size \in Nat
  BY <1>1, BufferAssumption, LenProperties, Zenon
<1>3. (\A k \in 1..x : buf[at + k] = h[k]) /\ at + x <= Size
  BY PartsStand, Zenon DEF Stands
<1> HIDE DEF l, n, a, h, x
<1>4. /\ \A k \in 1..l : k \in 1..x
      /\ \A k \in (l + 1)..a : k \in 1..x
      /\ a + 1 \in 1..x /\ a + n + 2 \in 1..x
      /\ \A k \in 1..n : a + 1 + k \in 1..x
      /\ at + (a + n + 2) <= Size
  <2>1. /\ l < a /\ a + n + 2 <= x /\ at + x <= Size
        /\ l \in Nat /\ n \in Nat /\ a \in Nat /\ x \in Nat /\ Size \in Nat
    BY <1>1, <1>2, <1>3, Zenon
  <2>2. \A k \in 1..l : k \in 1..x
    BY <2>1, SMT
  <2>3. \A k \in (l + 1)..a : k \in 1..x
    BY <2>1, SMT
  <2>4. \A k \in 1..n : a + 1 + k \in 1..x
    BY <2>1, SMT
  <2>5. a + 1 \in 1..x /\ a + n + 2 \in 1..x /\ at + (a + n + 2) <= Size
    BY <2>1, SMT
  <2> QED
    BY <2>2, <2>3, <2>4, <2>5
<1>5. /\ \A k \in 1..l : buf[at + k] = m.address[k] /\ buf[at + k] # NUL
      /\ \A k \in (l + 1)..a : buf[at + k] = NUL
  <2>1. \A k \in 1..l : buf[at + k] = h[k]
    BY <1>3, <1>4, Zenon
  <2>2. \A k \in (l + 1)..a : buf[at + k] = h[k]
    BY <1>3, <1>4, Zenon
  <2> QED
    BY <1>1, <2>1, <2>2, Zenon
<1>6. buf[at + (a + 1)] = Comma /\ buf[at + (a + n + 2)] = NUL
  BY <1>1, <1>3, <1>4, Zenon
<1>7. \A k \in 1..n : /\ buf[at + (a + 1 + k)] = Types(m)[k]
                      /\ buf[at + (a + 1 + k)] # NUL
  BY <1>1, <1>3, <1>4, Zenon
<1>8. /\ l \in Nat /\ n \in Nat /\ a \in Nat /\ a % 4 = 0 /\ l < a
      /\ Len(EncodedHeader(m)) = a + Align(n + 5) /\ at + (a + n + 2) <= Size
  BY <1>1, <1>4, Zenon DEF h, x
<1> QED
  BY <1>5, <1>6, <1>7, <1>8, Zenon DEF l, n, a

\* Where the address, the padding behind it and the types end.
LEMMA Searches ==
  ASSUME NEW m \in Messages, NEW at \in Nat, Stands(buf, at, Encoded(m)),
         at + Len(Encoded(m)) <= Size
  PROVE  LET l == Len(m.address)
             n == Len(m.args)
             a == Align(l + 4)
         IN /\ Find(NUL, at) = at + l
            /\ Find(Comma, at + l) = at + a
            /\ Find(NUL, at + a) = at + (a + n + 1)
            /\ Find(NUL, at + (a + 1)) = at + (a + n + 1)
<1> DEFINE l == Len(m.address)
           n == Len(m.args)
           a == Align(l + 4)
<1>1. /\ l \in Nat /\ n \in Nat /\ a \in Nat /\ l < a /\ at + (a + n + 2) <= Size
      /\ \A k \in 1..l : buf[at + k] # NUL
      /\ \A k \in (l + 1)..a : buf[at + k] = NUL
      /\ buf[at + (a + 1)] = Comma
      /\ \A k \in 1..n : buf[at + (a + 1 + k)] # NUL
      /\ buf[at + (a + n + 2)] = NUL
  BY HeaderStands, ZenonT(30)
<1> HIDE DEF l, n, a
<1>2. l \in Nat /\ n \in Nat /\ a \in Nat /\ l < a /\ at + (a + n + 2) <= Size /\ Size \in Nat
  BY <1>1, BufferAssumption, Zenon
<1>3. /\ at + l \in Nat /\ at + a \in Nat /\ at + (a + 1) \in Nat
      /\ (at + l) + 1 = at + (l + 1) /\ l + 1 \in (l + 1)..a
      /\ (at + a) + 1 = at + (a + 1)
      /\ (at + (a + n + 1)) + 1 = at + (a + n + 2)
  BY <1>2, SMT
<1>4. /\ at + l \in at..(Size - 1) /\ at + a \in (at + l)..(Size - 1)
      /\ at + (a + n + 1) \in (at + a)..(Size - 1)
      /\ at + (a + n + 1) \in (at + (a + 1))..(Size - 1)
  BY <1>2, SMT
<1>5. Comma # NUL
  BY DEF Comma, NUL
<1>6. Find(NUL, at) = at + l
  <2>1. buf[(at + l) + 1] = NUL
    BY <1>1, <1>3, Zenon
  <2>2. \A q \in at..((at + l) - 1) : buf[q + 1] # NUL
    <3> TAKE q \in at..((at + l) - 1)
    <3>1. q - at + 1 \in 1..l /\ at + (q - at + 1) = q + 1
      BY <1>2, SMT
    <3> QED
      BY <1>1, <3>1, Zenon
  <2>3. at \in Nat /\ at + l \in at..(Size - 1)
    BY <1>3, <1>4, Zenon
  <2> QED
    BY <2>1, <2>2, <2>3, FindIs, Zenon
<1>7. Find(Comma, at + l) = at + a
  <2>1. buf[(at + a) + 1] = Comma
    BY <1>1, <1>3, Zenon
  <2>2. \A q \in (at + l)..((at + a) - 1) : buf[q + 1] # Comma
    <3> TAKE q \in (at + l)..((at + a) - 1)
    <3>1. q - at + 1 \in (l + 1)..a /\ at + (q - at + 1) = q + 1
      BY <1>2, SMT
    <3>2. buf[q + 1] = NUL
      BY <1>1, <3>1, Zenon
    <3> QED
      BY <1>5, <3>2, Zenon
  <2>3. at + l \in Nat /\ at + a \in (at + l)..(Size - 1)
    BY <1>3, <1>4, Zenon
  <2> QED
    BY <2>1, <2>2, <2>3, FindIs, Zenon
<1>8. Find(NUL, at + a) = at + (a + n + 1)
  <2>1. buf[(at + (a + n + 1)) + 1] = NUL
    BY <1>1, <1>3, Zenon
  <2>2. \A q \in (at + a)..((at + (a + n + 1)) - 1) : buf[q + 1] # NUL
    <3> TAKE q \in (at + a)..((at + (a + n + 1)) - 1)
    <3>1. \/ q + 1 = at + (a + 1)
          \/ q - at - a \in 1..n /\ at + (a + 1 + (q - at - a)) = q + 1
      BY <1>2, SMT
    <3> QED
      BY <1>1, <1>5, <3>1, Zenon
  <2>3. at + a \in Nat /\ at + (a + n + 1) \in (at + a)..(Size - 1)
    BY <1>3, <1>4, Zenon
  <2> DEFINE o == at + a
             p == at + (a + n + 1)
  <2>4. /\ o \in Nat /\ p \in o..(Size - 1) /\ buf[p + 1] = NUL
        /\ \A q \in o..(p - 1) : buf[q + 1] # NUL
    BY <2>1, <2>2, <2>3
  <2> HIDE DEF o, p
  <2>5. Find(NUL, o) = p
    BY <2>4, FindIs, Zenon
  <2> QED
    BY <2>5, Zenon DEF o, p
<1>9. Find(NUL, at + (a + 1)) = at + (a + n + 1)
  <2>1. buf[(at + (a + n + 1)) + 1] = NUL
    BY <1>1, <1>3, Zenon
  <2>2. \A q \in (at + (a + 1))..((at + (a + n + 1)) - 1) : buf[q + 1] # NUL
    <3> TAKE q \in (at + (a + 1))..((at + (a + n + 1)) - 1)
    <3>1. q - at - a \in 1..n /\ at + (a + 1 + (q - at - a)) = q + 1
      BY <1>2, SMT
    <3> QED
      BY <1>1, <3>1, Zenon
  <2>3. at + (a + 1) \in Nat /\ at + (a + n + 1) \in (at + (a + 1))..(Size - 1)
    BY <1>3, <1>4, Zenon
  <2> DEFINE o == at + (a + 1)
             p == at + (a + n + 1)
  <2>4. /\ o \in Nat /\ p \in o..(Size - 1) /\ buf[p + 1] = NUL
        /\ \A q \in o..(p - 1) : buf[q + 1] # NUL
    BY <2>1, <2>2, <2>3
  <2> HIDE DEF o, p
  <2>5. Find(NUL, o) = p
    BY <2>4, FindIs, Zenon
  <2> QED
    BY <2>5, Zenon DEF o, p
<1> QED
  BY <1>6, <1>7, <1>8, <1>9, Zenon DEF l, n, a

\* What the parser finds where a message stands (tosc_parseMessage).
LEMMA ParsedIs ==
  ASSUME NEW m \in Messages, NEW at \in Nat, NEW len, Stands(buf, at, Encoded(m)),
         at + Len(Encoded(m)) <= Size
  PROVE  Parsed(at, len) = [at     |-> at,
                            len    |-> len,
                            format |-> at + (Align(Len(m.address) + 4) + 1),
                            marker |-> at + Len(EncodedHeader(m))]
<1> DEFINE l == Len(m.address)
           n == Len(m.args)
           a == Align(l + 4)
<1>1. /\ Find(NUL, at) = at + l
      /\ Find(Comma, at + l) = at + a
      /\ Find(NUL, at + a) = at + (a + n + 1)
  BY Searches, Zenon
<1>2. /\ n \in Nat /\ a \in Nat /\ a % 4 = 0 /\ Len(EncodedHeader(m)) = a + Align(n + 5)
  BY HeaderStands, Zenon
<1> HIDE DEF l, n, a
<1>3. Parsed(at, len) = [at |-> at, len |-> len, format |-> (at + a) + 1,
                         marker |-> at + Align((at + (a + n + 1)) - at + 4)]
  BY <1>1, Zenon DEF Parsed
<1>4. (at + a) + 1 = at + (a + 1) /\ (at + (a + n + 1)) - at + 4 = a + (n + 5) /\ n + 5 \in Nat
  BY <1>2, SMT
<1>5. Align(a + (n + 5)) = a + Align(n + 5)
  BY <1>2, <1>4, AlignIs, Zenon
<1> QED
  BY <1>2, <1>3, <1>4, <1>5, Zenon DEF l, a

-----------------------------------------------------------------------------
(* The reader, within a message.                                           *)

\* r is the reader's record of m, which is whole in b.
Telling(m, b, r) ==
  /\ r = [at |-> r.at, len |-> r.len, format |-> r.format, marker |-> r.marker]
  /\ r.at \in Nat /\ r.len = Len(Encoded(m)) /\ r.at + r.len <= Size
  /\ r.format = r.at + (Align(Len(m.address) + 4) + 1)
  /\ Stands(b, r.at, Encoded(m))

\* Unless it is lost, r points behind the argument that was answered last.
Pointing(m, r, p, given, lost) ==
  /\ p \in 0..Len(m.args)
  /\ lost => Len(m.args) % 4 = 3
  /\ ~lost => r.marker = r.at + Len(Encodings(m)[p])
  /\ ~lost /\ p > 0 => given = m.args[p].value

\* The first bytes of what stands in the buffer.
LEMMA FrontStands ==
  ASSUME NEW o \in Nat, NEW x \in Seq(Octets), NEW t \in Seq(Octets), Stands(buf, o, x),
         o + Len(x) <= Size, Len(t) <= Len(x), \A k \in 1..Len(t) : x[k] = t[k]
  PROVE  Stands(buf, o, t) /\ o + Len(t) <= Size
<1> DEFINE u == Len(t)
           v == Len(x)
<1>1. u \in Nat /\ v \in Nat /\ Size \in Nat /\ u <= v /\ o + v <= Size
  BY BufferAssumption, LenProperties
<1> HIDE DEF u, v
<1>2. o + u <= Size /\ \A k \in 1..u : k \in 1..v
  BY <1>1, SMT
<1> QED
  BY <1>2, Zenon DEF Stands, u, v

\* What is behind the first bytes.
LEMMA RestStands ==
  ASSUME NEW o \in Nat, NEW x \in Seq(Octets), NEW i \in Nat, NEW t \in Seq(Octets),
         Stands(buf, o, x), o + Len(x) <= Size, i + Len(t) <= Len(x),
         \A k \in 1..Len(t) : x[i + k] = t[k]
  PROVE  Stands(buf, o + i, t) /\ (o + i) + Len(t) <= Size /\ o + i \in Nat
<1> DEFINE u == Len(t)
           v == Len(x)
<1>1. u \in Nat /\ v \in Nat /\ Size \in Nat /\ i + u <= v /\ o + v <= Size
  BY BufferAssumption, LenProperties
<1> HIDE DEF u, v
<1>2. /\ (o + i) + u <= Size /\ o + i \in Nat
      /\ \A k \in 1..u : i + k \in 1..v /\ o + (i + k) = (o + i) + k
  <2>1. (o + i) + u <= Size /\ o + i \in Nat
    BY <1>1, SMT
  <2>2. \A k \in 1..u : i + k \in 1..v
    BY <1>1, SMT
  <2>3. \A k \in 1..u : o + (i + k) = (o + i) + k
    BY <1>1, SMT
  <2> QED
    BY <2>1, <2>2, <2>3
<1>3. \A k \in 1..u : buf[(o + i) + k] = t[k]
  <2> TAKE k \in 1..u
  <2>1. buf[o + (i + k)] = x[i + k] /\ x[i + k] = t[k]
    BY <1>2, Zenon DEF Stands, u, v
  <2> QED
    BY <1>2, <2>1, Zenon
<1> QED
  BY <1>2, <1>3, Zenon DEF Stands, u

\* A text in the buffer ends where its first zero is found.
LEMMA TextEnds ==
  ASSUME NEW o \in Nat, NEW t \in Seq(Characters), Stands(buf, o, Terminated(t)),
         o + Len(Terminated(t)) <= Size, buf \in Buffers
  PROVE  /\ Find(NUL, o) = o + Len(t) /\ Slice(o, Len(t)) = t
         /\ Len(t) \in Nat /\ Len(Terminated(t)) = Align(Len(t) + 4)
         /\ Len(t) < Len(Terminated(t)) /\ Len(Terminated(t)) \in Nat
<1> DEFINE n == Len(t)
           x == Terminated(t)
           a == Align(n + 4)
           len == Size
<1>1. Characters \subseteq Octets /\ NUL \notin Characters
  BY DEF Characters, Octets, NUL
<1>2. t \in Seq(Octets) /\ n \in Nat /\ \A k \in 1..n : t[k] # NUL
  <2>1. \A k \in 1..n : t[k] \in Characters
    OBVIOUS
  <2>2. t \in Seq(Octets) /\ n \in Nat
    BY <1>1
  <2> QED
    BY <1>1, <2>1, <2>2, Zenon
<1>3. /\ x \in Seq(Octets) /\ Len(x) = a /\ \A k \in 1..n : x[k] = t[k]
      /\ \A k \in (n + 1)..a : x[k] = NUL
  BY <1>2, TerminatedIs, Zenon
<1>4. a \in Nat /\ n < a /\ len \in Nat
  <2>1. n + 4 \in Nat
    BY <1>2, SMT
  <2>2. a \in Nat /\ n + 4 < a + 4
    BY <2>1, AlignIs, Zenon
  <2> HIDE DEF a
  <2> QED
    BY <1>2, <2>2, BufferAssumption, SMT
<1>5. Stands(buf, o, x) /\ o + a <= len
  BY <1>3, Zenon
<1> HIDE DEF n, x, a, len
<1>6. /\ n <= a /\ o + n \in o..(len - 1) /\ n + 1 \in (n + 1)..a /\ n + 1 \in 1..a
      /\ (o + n) + 1 = o + (n + 1) /\ \A k \in 1..n : k \in 1..a
      /\ \A q \in o..((o + n) - 1) : q - o + 1 \in 1..n /\ o + (q - o + 1) = q + 1
  BY <1>2, <1>4, <1>5, SMT
<1>7. \A k \in 1..a : buf[o + k] = x[k]
  BY <1>3, <1>5, Zenon DEF Stands
<1>8. \A q \in o..((o + n) - 1) : buf[q + 1] # NUL
  <2> TAKE q \in o..((o + n) - 1)
  <2>1. q - o + 1 \in 1..n /\ o + (q - o + 1) = q + 1
    BY <1>6, Zenon
  <2>2. buf[o + (q - o + 1)] = t[q - o + 1]
    BY <1>3, <1>6, <1>7, <2>1, Zenon
  <2> QED
    BY <1>2, <2>1, <2>2, Zenon
<1>9. buf[(o + n) + 1] = NUL
  <2>1. buf[o + (n + 1)] = x[n + 1] /\ x[n + 1] = NUL
    BY <1>3, <1>6, <1>7, Zenon
  <2> QED
    BY <1>6, <2>1, Zenon
<1>10. Find(NUL, o) = o + n
  BY <1>6, <1>8, <1>9, FindIs, Zenon DEF len
<1>11. Stands(buf, o, t) /\ o + Len(t) <= Size
  <2>1. Len(t) <= Len(x) /\ (\A k \in 1..Len(t) : x[k] = t[k]) /\ o + Len(x) <= Size
    BY <1>3, <1>5, <1>6, Zenon DEF n, len
  <2> QED
    BY <1>2, <1>3, <1>5, <2>1, FrontStands, Zenon
<1>12. Slice(o, Len(t)) = t
  BY <1>2, <1>11, SliceIs, Zenon
<1> QED
  BY <1>2, <1>3, <1>4, <1>10, <1>12, Zenon DEF n, x, a

\* A blob in the buffer begins with its length.
LEMMA BlobReads ==
  ASSUME NEW o \in Nat, NEW v \in Seq(Octets), Len(v) <= IntMax,
         NEW x, x = Filled(Word(Len(v)) \o v), Stands(buf, o, x),
         o + Len(x) <= Size, buf \in Buffers
  PROVE  /\ Number(Slice(o, 4)) = Len(v) /\ Slice(o + 4, Len(v)) = v
         /\ Len(v) \in Nat /\ Len(x) = Align(Len(v) + 7) /\ Len(x) \in Nat
         /\ Len(v) + 4 <= Len(x)
<1> DEFINE n == Len(v)
           w == Word(n)
           y == w \o v
           four == 4
<1>1. n \in Nat /\ Number(w) = n /\ w \in Seq(Octets) /\ Len(w) = four
  <2>1. n \in Nat /\ n \in Int
    OBVIOUS
  <2>2. n <= IntMax
    OBVIOUS
  <2> HIDE DEF n
  <2> QED
    BY <2>1, <2>2, WordIs, NumberIs
<1> HIDE DEF w, four
<1>2. /\ y \in Seq(Octets) /\ Len(y) = four + n
      /\ \A k \in 1..four : y[k] = w[k]
      /\ \A k \in 1..n : y[four + k] = v[k]
  <2>1. /\ y \in Seq(Octets) /\ Len(y) = Len(w) + Len(v)
        /\ \A k \in 1..Len(w) : y[k] = w[k]
        /\ \A k \in 1..Len(v) : y[Len(w) + k] = v[k]
    BY <1>1, JoinIs, Zenon
  <2> QED
    BY <1>1, <2>1, Zenon
<1>3. x = Filled(y)
  BY Zenon DEF y, w, n
<1> HIDE DEF y
<1>4. /\ x \in Seq(Octets) /\ Len(x) = Align(Len(y) + 3)
      /\ \A k \in 1..Len(y) : x[k] = y[k]
  BY <1>2, <1>3, FilledIs, Zenon
<1> DEFINE a == Len(x)
<1>5. /\ a \in Nat /\ a = Align(n + 7) /\ four + n <= a
      /\ \A k \in 1..(four + n) : x[k] = y[k]
  <2>1. (four + n) + 3 = n + 7 /\ n + 7 \in Nat
    BY <1>1, SMT DEF four
  <2>2. a = Align(n + 7)
    BY <1>2, <1>4, <2>1, Zenon
  <2>3. a \in Nat /\ n + 7 < a + 4
    BY <2>1, <2>2, AlignIs, Zenon
  <2> HIDE DEF a
  <2>4. four + n <= a
    BY <1>1, <2>3, SMT DEF four
  <2> QED
    BY <1>2, <1>4, <2>2, <2>3, <2>4, Zenon
<1> HIDE DEF n
<1>6. /\ four \in Nat /\ four <= a
      /\ \A k \in 1..four : k \in 1..(four + n)
      /\ \A k \in 1..n : four + k \in 1..(four + n)
  <2> HIDE DEF a
  <2> QED
    BY <1>1, <1>5, SMT DEF four
<1>7. Number(Slice(o, four)) = n
  <2>1. Len(w) <= Len(x) /\ \A k \in 1..Len(w) : x[k] = w[k]
    BY <1>1, <1>2, <1>5, <1>6, Zenon
  <2>2. Stands(buf, o, w) /\ o + Len(w) <= Size
    BY <1>1, <1>4, <2>1, FrontStands, Zenon
  <2>3. Slice(o, Len(w)) = w
    BY <1>1, <2>2, SliceIs, Zenon
  <2> QED
    BY <1>1, <2>3, Zenon
<1>8. Slice(o + four, n) = v
  <2>1. four + Len(v) <= Len(x) /\ \A k \in 1..Len(v) : x[four + k] = v[k]
    BY <1>2, <1>5, <1>6, Zenon DEF n
  <2>2. Stands(buf, o + four, v) /\ (o + four) + Len(v) <= Size /\ o + four \in Nat
    BY <1>4, <1>6, <2>1, RestStands, Zenon
  <2> QED
    BY <2>2, SliceIs, Zenon DEF n
<1>9. n + four = four + n
  BY <1>1, SMT DEF four
<1>10. n + four <= a
  BY <1>5, <1>9, Zenon
<1> QED
  BY <1>1, <1>5, <1>7, <1>8, <1>10 DEF n, a, four

\* Moving the read head leaves the rest of the record.
LEMMA HeadMoves ==
  ASSUME NEW r, NEW v, NEW s, s = [r EXCEPT !.marker = v],
         r = [at |-> r.at, len |-> r.len, format |-> r.format, marker |-> r.marker]
  PROVE  /\ s = [at |-> s.at, len |-> s.len, format |-> s.format, marker |-> s.marker]
         /\ s.at = r.at /\ s.len = r.len /\ s.format = r.format /\ s.marker = v
<1>1. s = [at |-> r.at, len |-> r.len, format |-> r.format, marker |-> v]
  OBVIOUS
<1>2. s.at = r.at /\ s.len = r.len /\ s.format = r.format /\ s.marker = v
  BY <1>1
<1>3. s = [at |-> s.at, len |-> s.len, format |-> s.format, marker |-> s.marker]
  BY <1>1, <1>2, Zenon
<1> QED
  BY <1>2, <1>3, Zenon

\* It leaves the message where it is.
LEMMA TellsOn ==
  ASSUME NEW m, NEW b, NEW r, NEW v, NEW s, s = [r EXCEPT !.marker = v], Telling(m, b, r)
  PROVE  Telling(m, b, s)
<1>1. /\ s = [at |-> s.at, len |-> s.len, format |-> s.format, marker |-> s.marker]
      /\ s.at = r.at /\ s.len = r.len /\ s.format = r.format
  BY HeadMoves, Zenon DEF Telling
<1> QED
  BY <1>1, Zenon DEF Telling

\* The type at the reader's place is that of the next argument, and zero behind
\* the last one.
LEMMA TypeNextIs ==
  ASSUME NEW m \in Messages, Telling(m, buf, msg), place \in 0..Len(m.args), TypeNext # NUL
  PROVE  /\ place + 1 \in 1..Len(m.args) /\ (place + 1) - 1 = place
         /\ m.args[place + 1] \in Arguments /\ TypeNext = m.args[place + 1].type
<1> DEFINE at == msg.at
           l == Len(m.address)
           n == Len(m.args)
           a == Align(l + 4)
           p == place
<1>1. /\ at \in Nat /\ Stands(buf, at, Encoded(m)) /\ at + Len(Encoded(m)) <= Size
      /\ msg.format = at + (a + 1)
  BY Zenon DEF Telling
<1>2. /\ n \in Nat /\ a \in Nat
      /\ \A k \in 1..n : buf[at + (a + 1 + k)] = Types(m)[k]
      /\ buf[at + (a + n + 2)] = NUL
  BY <1>1, HeaderStands, Zenon
<1>3. p \in 0..n
  OBVIOUS
<1>4. TypeNext = buf[(at + (a + 1)) + p + 1]
  BY <1>1, Zenon DEF TypeNext
<1> HIDE DEF at, l, n, a, p
<1>5. /\ (at + (a + 1)) + p + 1 = at + (a + 1 + (p + 1))
      /\ p = n \/ p + 1 \in 1..n
      /\ p = n => (at + (a + 1)) + p + 1 = at + (a + n + 2)
      /\ (p + 1) - 1 = p
  BY <1>1, <1>2, <1>3, SMT
<1>6. p # n
  BY <1>2, <1>4, <1>5, Zenon
<1>7. TypeNext = Types(m)[p + 1] /\ p + 1 \in 1..n
  BY <1>2, <1>4, <1>5, <1>6, Zenon
<1>8. m.args[p + 1] \in Arguments /\ Types(m)[p + 1] = m.args[p + 1].type
  <2>1. m.args \in Seq(Arguments)
    BY MessageIs, Zenon
  <2>2. m.args[p + 1] \in Arguments /\ p + 1 \in DOMAIN m.args
    BY <1>7, <2>1, ElementOfSeq, LenProperties DEF n
  <2> QED
    BY <2>2, Zenon DEF Types
<1> QED
  BY <1>5, <1>7, <1>8, Zenon DEF n, p

\* The argument that is next stands where the reader points.
LEMMA NextStands ==
  ASSUME NEW m \in Messages, Telling(m, buf, msg),
         Pointing(m, msg, place, answer, astray), ~astray,
         place + 1 \in 1..Len(m.args), (place + 1) - 1 = place
  PROVE  LET x == EncodedArgument(m.args[place + 1])
         IN /\ msg.marker \in Nat /\ x \in Seq(Octets) /\ Stands(buf, msg.marker, x)
            /\ msg.marker + Len(x) <= msg.at + msg.len /\ msg.marker + Len(x) <= Size
            /\ msg.at + Len(Encodings(m)[place + 1]) = msg.marker + Len(x)
<1> DEFINE k == place + 1
           x == EncodedArgument(m.args[k])
           o == msg.at + Len(Encodings(m)[k - 1])
<1>1. /\ msg.at \in Nat /\ Stands(buf, msg.at, Encoded(m)) /\ msg.len = Len(Encoded(m))
      /\ msg.at + Len(Encoded(m)) <= Size
  BY Zenon DEF Telling
<1>2. k \in 1..Len(m.args)
  OBVIOUS
<1>3. msg.marker = o
  BY Zenon DEF Pointing
<1> HIDE DEF k
<1>4. /\ o \in Nat /\ x \in Seq(Octets) /\ Stands(buf, o, x)
      /\ msg.at + Len(Encodings(m)[k]) = o + Len(x)
      /\ o + Len(x) <= msg.at + Len(Encoded(m)) /\ o + Len(x) <= Size
  BY <1>1, <1>2, PartsStand, Zenon
<1> HIDE DEF x, o
<1> QED
  BY <1>1, <1>3, <1>4, Zenon DEF x, k

\* One argument further.
LEMMA ReadsOn ==
  ASSUME NEW m \in Messages, Telling(m, buf, msg),
         Pointing(m, msg, place, answer, astray),
         place + 1 \in 1..Len(m.args), (place + 1) - 1 = place,
         NEW value, NEW advance, Reads(value, advance),
         ~astray => /\ value = m.args[place + 1].value
                    /\ advance = Len(EncodedArgument(m.args[place + 1]))
  PROVE  Telling(m, buf', msg') /\ Pointing(m, msg', place', answer', astray')
<1> DEFINE v == msg.marker + advance
<1>1. /\ answer' = value /\ msg' = [msg EXCEPT !.marker = v]
      /\ place' = place + 1 /\ astray' = astray /\ buf' = buf
  BY Zenon DEF Reads, writeVars
<1> HIDE DEF v
<1>2. Telling(m, buf', msg')
  <2>1. Telling(m, buf, msg')
    BY <1>1, TellsOn, Zenon
  <2> QED
    BY <1>1, <2>1, Zenon
<1>3. msg'.at = msg.at /\ msg'.marker = msg.marker + advance
  BY <1>1, HeadMoves, Zenon DEF Telling, v
<1>4. ~astray => msg'.marker = msg'.at + Len(Encodings(m)[place + 1])
  <2> SUFFICES ASSUME ~astray PROVE msg'.marker = msg'.at + Len(Encodings(m)[place + 1])
    OBVIOUS
  <2>1. msg.at + Len(Encodings(m)[place + 1])
          = msg.marker + Len(EncodedArgument(m.args[place + 1]))
    BY NextStands, Zenon
  <2> QED
    BY <1>3, <2>1, Zenon
<1>5. place + 1 \in 0..Len(m.args)
  <2> DEFINE n == Len(m.args)
             k == place + 1
  <2>1. n \in Nat /\ k \in 1..n
    BY MessageIs, Zenon
  <2> HIDE DEF n, k
  <2>2. k \in 0..n
    BY <2>1, SMT
  <2> QED
    BY <2>2, Zenon DEF n, k
<1>6. Pointing(m, msg', place', answer', astray')
  <2>1. astray => Len(m.args) % 4 = 3
    BY Zenon DEF Pointing
  <2> QED
    BY <1>1, <1>4, <1>5, <2>1, Zenon DEF Pointing
<1> QED
  BY <1>2, <1>6

\* Each of the calls takes the next argument (tosc_getNextInt32 and its like,
\* tosc_getNextString, tosc_getNextBlob).
LEMMA NumberTaken ==
  ASSUME NEW m \in Messages, buf \in Buffers, Telling(m, buf, msg),
         Pointing(m, msg, place, answer, astray), GetNextNumber
  PROVE  Telling(m, buf', msg') /\ Pointing(m, msg', place', answer', astray')
<1> DEFINE a == m.args[place + 1]
           x == EncodedArgument(a)
<1>1. /\ TypeNext \in Words \cup Longs
      /\ TypeNext \in Words => Reads(Slice(msg.marker, 4), 4)
      /\ TypeNext \in Longs => Reads(Slice(msg.marker, 8), 8)
  <2>1. \A c \in Words : c \notin Longs
    BY SMT DEF Words, Longs
  <2> QED
    BY <2>1, Zenon DEF GetNextNumber
<1>2. TypeNext # NUL
  BY <1>1, SMT DEF Words, Longs, NUL
<1>3. /\ place + 1 \in 1..Len(m.args) /\ (place + 1) - 1 = place
      /\ a \in Arguments /\ TypeNext = a.type
  BY <1>2, TypeNextIs, Zenon DEF Pointing
<1> HIDE DEF a
<1>4. /\ x = a.value
      /\ a.type \in Words => Len(a.value) = 4
      /\ a.type \in Longs => Len(a.value) = 8
  <2>1. a.type # Text /\ a.type # Blob
    BY <1>1, <1>3, TypesDiffer, Zenon
  <2> QED
    BY <1>3, <2>1, Zenon DEF EncodedArgument, Arguments
<1>5. ~astray => Slice(msg.marker, Len(x)) = x
  <2> SUFFICES ASSUME ~astray PROVE Slice(msg.marker, Len(x)) = x
    OBVIOUS
  <2>1. /\ msg.marker \in Nat /\ x \in Seq(Octets) /\ Stands(buf, msg.marker, x)
        /\ msg.marker + Len(x) <= Size
    BY <1>3, NextStands, Zenon DEF a
  <2> HIDE DEF x
  <2> QED
    BY <2>1, SliceIs, Zenon
<1>6. CASE TypeNext \in Words
  <2>1. Len(x) = 4
    BY <1>3, <1>4, <1>6, Zenon
  <2>2. ~astray => Slice(msg.marker, 4) = a.value /\ 4 = Len(x)
    BY <1>4, <1>5, <2>1, Zenon
  <2> QED
    BY <1>1, <1>3, <1>6, <2>2, ReadsOn, Zenon DEF a
<1>7. CASE TypeNext \in Longs
  <2>1. Len(x) = 8
    BY <1>3, <1>4, <1>7, Zenon
  <2>2. ~astray => Slice(msg.marker, 8) = a.value /\ 8 = Len(x)
    BY <1>4, <1>5, <2>1, Zenon
  <2> QED
    BY <1>1, <1>3, <1>7, <2>2, ReadsOn, Zenon DEF a
<1> QED
  BY <1>1, <1>6, <1>7, Zenon

\* The text that is next.
LEMMA StringTaken ==
  ASSUME NEW m \in Messages, buf \in Buffers, Telling(m, buf, msg),
         Pointing(m, msg, place, answer, astray), GetNextString
  PROVE  Telling(m, buf', msg') /\ Pointing(m, msg', place', answer', astray')
<1> DEFINE a == m.args[place + 1]
           x == EncodedArgument(a)
           o == msg.marker
           n == Find(NUL, o) - o
           end == msg.at + msg.len
<1>1. /\ TypeNext = Text
      /\ IF o + n >= end THEN Reads(Nothing, 0) ELSE Reads(Slice(o, n), Align(n + 4))
  BY Zenon DEF GetNextString
<1>2. TypeNext # NUL
  BY <1>1, SMT DEF Text, NUL
<1>3. /\ place + 1 \in 1..Len(m.args) /\ (place + 1) - 1 = place
      /\ a \in Arguments /\ a.type = Text
  BY <1>1, <1>2, TypeNextIs, Zenon DEF Pointing
<1> HIDE DEF a
<1>4. x = Terminated(a.value) /\ a.value \in Seq(Characters)
  BY <1>3, Zenon DEF EncodedArgument, Arguments
<1>5. ASSUME ~astray
      PROVE  ~(o + n >= end) /\ Slice(o, n) = a.value /\ Align(n + 4) = Len(x)
  <2>1. /\ o \in Nat /\ Stands(buf, o, x) /\ o + Len(x) <= end /\ o + Len(x) <= Size
    BY <1>3, <1>5, NextStands, Zenon DEF a
  <2> DEFINE u == Len(a.value)
             v == Len(x)
  <2>2. /\ Find(NUL, o) = o + u /\ Slice(o, u) = a.value
        /\ u \in Nat /\ v = Align(u + 4) /\ u < v /\ v \in Nat
    BY <1>4, <2>1, TextEnds, Zenon
  <2>3. end \in Nat
    <3>1. msg.at \in Nat /\ msg.len \in Nat
      BY EncodedIs, Zenon DEF Telling
    <3> QED
      BY <3>1, SMT
  <2>4. n = (o + u) - o
    BY <2>2, Zenon
  <2> HIDE DEF u, v, n, end, o
  <2>5. n = u /\ ~(o + u >= end)
    BY <2>1, <2>2, <2>3, <2>4, SMT DEF v
  <2> QED
    BY <2>2, <2>5, Zenon DEF v
<1>6. CASE o + n >= end
  <2>1. Reads(Nothing, 0) /\ astray
    BY <1>1, <1>5, <1>6, Zenon
  <2> QED
    BY <1>3, <2>1, ReadsOn, Zenon
<1>7. CASE ~(o + n >= end)
  <2>1. Reads(Slice(o, n), Align(n + 4))
    BY <1>1, <1>7, Zenon
  <2>2. ~astray => Slice(o, n) = a.value /\ Align(n + 4) = Len(x)
    BY <1>5, Zenon
  <2> HIDE DEF n
  <2> QED
    BY <1>3, <2>1, <2>2, ReadsOn, Zenon DEF a
<1> QED
  BY <1>6, <1>7, Zenon

\* The blob that is next.
LEMMA BlobTaken ==
  ASSUME NEW m \in Messages, buf \in Buffers, Telling(m, buf, msg),
         Pointing(m, msg, place, answer, astray), GetNextBlob
  PROVE  Telling(m, buf', msg') /\ Pointing(m, msg', place', answer', astray')
<1> DEFINE a == m.args[place + 1]
           x == EncodedArgument(a)
           o == msg.marker
           n == Number(Slice(o, 4))
           end == msg.at + msg.len
<1>1. /\ TypeNext = Blob
      /\ IF o + 4 + n <= end THEN Reads(Slice(o + 4, n), Align(n + 7)) ELSE Reads(Nothing, 0)
  BY Zenon DEF GetNextBlob
<1>2. TypeNext # NUL
  BY <1>1, SMT DEF Blob, NUL
<1>3. /\ place + 1 \in 1..Len(m.args) /\ (place + 1) - 1 = place
      /\ a \in Arguments /\ a.type = Blob
  BY <1>1, <1>2, TypeNextIs, Zenon DEF Pointing
<1> HIDE DEF a
<1>4. /\ x = Filled(Word(Len(a.value)) \o a.value) /\ a.value \in Seq(Octets)
      /\ Len(a.value) <= IntMax
  <2>1. a.value \in Seq(Octets) /\ Len(a.value) <= IntMax
    BY <1>3, Zenon DEF Arguments
  <2>2. a.type # Text
    BY <1>3, TypesDiffer, Zenon
  <2> QED
    BY <1>3, <2>1, <2>2, Zenon DEF EncodedArgument
<1>5. ASSUME ~astray
      PROVE  o + 4 + n <= end /\ Slice(o + 4, n) = a.value /\ Align(n + 7) = Len(x)
  <2>1. /\ o \in Nat /\ Stands(buf, o, x) /\ o + Len(x) <= end /\ o + Len(x) <= Size
    BY <1>3, <1>5, NextStands, Zenon DEF a
  <2> DEFINE u == Len(a.value)
             v == Len(x)
  <2>2. /\ n = u /\ Slice(o + 4, u) = a.value
        /\ u \in Nat /\ v = Align(u + 7) /\ u + 4 <= v /\ v \in Nat
    BY <1>4, <2>1, BlobReads, Zenon
  <2>3. end \in Nat
    <3>1. msg.at \in Nat /\ msg.len \in Nat
      BY EncodedIs, Zenon DEF Telling
    <3> QED
      BY <3>1, SMT
  <2>4. o + v <= end
    BY <2>1, Zenon
  <2> HIDE DEF u, v, n, end, o
  <2>5. o + 4 + u <= end
    BY <2>1, <2>2, <2>3, <2>4, SMT
  <2> QED
    BY <2>2, <2>5, Zenon DEF v
<1> HIDE DEF n
<1>6. CASE ~(o + 4 + n <= end)
  <2>1. Reads(Nothing, 0) /\ astray
    BY <1>1, <1>5, <1>6, Zenon
  <2> QED
    BY <1>3, <2>1, ReadsOn, Zenon
<1>7. CASE o + 4 + n <= end
  <2>1. Reads(Slice(o + 4, n), Align(n + 7))
    BY <1>1, <1>7, Zenon
  <2>2. ~astray => Slice(o + 4, n) = a.value /\ Align(n + 7) = Len(x)
    BY <1>5, Zenon
  <2> QED
    BY <1>3, <2>1, <2>2, ReadsOn, Zenon DEF a
<1> QED
  BY <1>6, <1>7, Zenon

\* A type without a value.
LEMMA BareTaken ==
  ASSUME NEW m \in Messages, buf \in Buffers, Telling(m, buf, msg),
         Pointing(m, msg, place, answer, astray), PassBare
  PROVE  Telling(m, buf', msg') /\ Pointing(m, msg', place', answer', astray')
<1> DEFINE a == m.args[place + 1]
           x == EncodedArgument(a)
<1>1. TypeNext \in Bare /\ Reads(<<>>, 0)
  BY Zenon DEF PassBare
<1>2. TypeNext # NUL
  BY <1>1, SMT DEF Bare, NUL
<1>3. /\ place + 1 \in 1..Len(m.args) /\ (place + 1) - 1 = place
      /\ a \in Arguments /\ a.type \in Bare
  BY <1>1, <1>2, TypeNextIs, Zenon DEF Pointing
<1> HIDE DEF a
<1>4. x = a.value /\ a.value = <<>>
  <2>1. a.type # Text /\ a.type # Blob
    BY <1>3, TypesDiffer, Zenon
  <2> QED
    BY <1>3, <2>1, Zenon DEF EncodedArgument, Arguments
<1>5. 0 = Len(x)
  BY <1>4
<1> QED
  BY <1>1, <1>3, <1>4, <1>5, ReadsOn, Zenon DEF a

\* Starting the message again: the read head is before the first argument, or the
\* types are 3, 7, 11... in number (tosc_reset).
LEMMA ResetTaken ==
  ASSUME NEW m \in Messages, buf \in Buffers, Telling(m, buf, msg),
         Pointing(m, msg, place, answer, astray), Reset
  PROVE  Telling(m, buf', msg') /\ Pointing(m, msg', place', answer', astray')
<1> DEFINE at == msg.at
           l == Len(m.address)
           n == Len(m.args)
           a == Align(l + 4)
           h == Len(EncodedHeader(m))
           v == ResetMarker
<1>1. /\ at \in Nat /\ Stands(buf, at, Encoded(m)) /\ at + Len(Encoded(m)) <= Size
      /\ msg.format = at + (a + 1)
  BY Zenon DEF Telling
<1>2. n \in Nat /\ a \in Nat /\ h = a + Align(n + 5)
  BY <1>1, HeaderStands, Zenon
<1>3. Find(NUL, at + (a + 1)) = at + (a + n + 1)
  BY <1>1, Searches, Zenon
<1>4. Parsed(at, msg.len).marker = at + h
  <2>1. Parsed(at, msg.len) = [at |-> at, len |-> msg.len, format |-> at + (a + 1), marker |-> at + h]
    BY <1>1, ParsedIs, Zenon
  <2> HIDE DEF at, a, h
  <2> QED
    BY <2>1
<1>5. /\ msg' = [msg EXCEPT !.marker = v] /\ place' = 0 /\ buf' = buf
      /\ astray' = (v # Parsed(at, msg.len).marker)
  BY Zenon DEF Reset, writeVars
<1>6. v = (at + (a + 1)) + Align((at + (a + n + 1)) - (at + (a + 1)) + 4) - 1
  BY <1>1, <1>3, Zenon DEF ResetMarker
<1> HIDE DEF at, l, n, a, h, v
<1>7. v # at + h => n % 4 = 3
  <2>1. (at + (a + n + 1)) - (at + (a + 1)) + 4 = n + 4
    BY <1>1, <1>2, SMT
  <2>2. v = (at + (a + 1)) + Align(n + 4) - 1
    BY <1>6, <2>1, Zenon
  <2>3. n % 4 # 3 => Align(n + 4) = Align(n + 5)
    BY <1>2, SMT DEF Align
  <2>4. Align(n + 5) \in Nat
    <3>1. n + 5 \in Nat
      BY <1>2, SMT
    <3> QED
      BY <3>1, AlignIs, Zenon
  <2> DEFINE z == Align(n + 5)
  <2>5. n % 4 # 3 => v = (at + (a + 1)) + z - 1
    BY <2>2, <2>3, Zenon
  <2>6. h = a + z /\ z \in Nat
    BY <1>2, <2>4, Zenon
  <2> HIDE DEF z
  <2>7. (at + (a + 1)) + z - 1 = at + (a + z)
    BY <1>1, <1>2, <2>6, SMT
  <2> QED
    BY <2>5, <2>6, <2>7, Zenon
<1>8. Telling(m, buf', msg')
  <2>1. Telling(m, buf, msg')
    BY <1>5, TellsOn, Zenon
  <2> QED
    BY <1>5, <2>1, Zenon
<1>9. msg'.at = at /\ msg'.marker = v
  BY <1>5, HeadMoves, Zenon DEF Telling, at
<1>10. Encodings(m)[0] = EncodedHeader(m) /\ 0 \in 0..Len(m.args)
  <2>1. 0 \in 0..n
    BY <1>2, SMT
  <2> QED
    BY <2>1, EncodingsAre, Zenon DEF n
<1>11. ~astray' => msg'.marker = msg'.at + Len(Encodings(m)[0])
  BY <1>4, <1>5, <1>9, <1>10, Zenon DEF h
<1>12. astray' => Len(m.args) % 4 = 3
  BY <1>4, <1>5, <1>7, Zenon DEF n
<1>13. ~(place' > 0)
  BY <1>5, SMT
<1>14. Pointing(m, msg', place', answer', astray')
  BY <1>5, <1>10, <1>11, <1>12, <1>13, Zenon DEF Pointing
<1> QED
  BY <1>8, <1>14

-----------------------------------------------------------------------------
(* The invariant of the reader.                                            *)

\* Each message of the bundle stands where the bundle before it ends, behind its
\* length; one of which a text was cut still has its length.
ElementStands(b, o, r) ==
  /\ Stands(b, o, Word(Len(Encoded(r.message))))
  /\ ~r.cut => Stands(b, o + 4, Encoded(r.message))

Laid(b, ws) == \A k \in 1..Len(ws) : ElementStands(b, Len(Bundles(ws)[k - 1]), ws[k])

\* First it is written, then read.
Follows ==
  /\ phase \in {"write", "read", "lost"}
  /\ phase = "write" => got = 0
  /\ phase = "read" => refused = <<>>

\* A message of its own is the only one.
Alone ==
  mode = "message" =>
    /\ written # <<>> => Len(written) = 1
    /\ phase = "read" => got = 1 /\ written # <<>>

\* In a bundle the reader is between two elements.
Between ==
  mode = "bundle" =>
    /\ refused = <<>> => Laid(buf, written)
    /\ phase = "read" => got \in 0..Len(written) /\ next = Len(Bundles(written)[got])

\* The message it has come to, unless a text of it was cut.
Inside ==
  phase = "read" /\ got > 0 /\ ~written[got].cut =>
    /\ Telling(written[got].message, buf, msg)
    /\ Pointing(written[got].message, msg, place, answer, astray)

ReadInv == WriteInv /\ Follows /\ Alone /\ Between /\ Inside

\* Adding a message leaves the ones before it standing.
LEMMA LaidGrows ==
  ASSUME NEW ws \in Seq(Records), NEW r \in Records, NEW b, NEW c,
         Laid(b, ws), \A j \in 1..Len(BundleOf(ws)) : c[j] = b[j],
         ElementStands(c, Len(BundleOf(ws)), r)
  PROVE  Laid(c, Append(ws, r))
<1> DEFINE n == Len(ws)
           vs == Append(ws, r)
<1>1. /\ n \in Nat /\ vs \in Seq(Records) /\ Len(vs) = n + 1 /\ vs[n + 1] = r
      /\ \A k \in 1..n : vs[k] = ws[k]
  BY AppendProperties, LenProperties
<1>2. \A k \in 0..n : Bundles(vs)[k] = Bundles(ws)[k]
  BY BundleGrows, Zenon
<1>3. /\ \A k \in 0..n : Len(Bundles(ws)[k]) \in Nat
      /\ \A k \in 1..n :
           Len(Bundles(ws)[k]) = Len(Bundles(ws)[k - 1]) + 4 + Len(Encoded(ws[k].message))
      /\ \A k \in 0..n : \A j \in 0..k : Len(Bundles(ws)[j]) <= Len(Bundles(ws)[k])
  BY BundlesRise, Zenon
<1>4. \A k \in 1..n : ws[k] \in Records /\ ws[k].message \in Messages
  <2>1. \A k \in 1..n : ws[k] \in Records
    BY ElementOfSeq, Zenon
  <2> QED
    BY <2>1, Zenon DEF Records
<1>5. \A k \in 1..n : ElementStands(b, Len(Bundles(ws)[k - 1]), ws[k])
  BY Zenon DEF Laid
<1>6. /\ n \in 0..n /\ (n + 1) - 1 = n
      /\ \A k \in 1..n : k \in 0..n /\ k - 1 \in 0..n /\ k \in 0..n
      /\ \A k \in 1..(n + 1) : k \in 1..n \/ k = n + 1
  <2> HIDE DEF n
  <2> QED
    BY <1>1, SMT
<1>7. \A j \in 1..Len(Bundles(ws)[n]) : c[j] = b[j]
  BY Zenon DEF BundleOf
<1> HIDE DEF n, vs
<1>8. ASSUME NEW k \in 1..n PROVE ElementStands(c, Len(Bundles(vs)[k - 1]), vs[k])
  <2> DEFINE o == Len(Bundles(ws)[k - 1])
             l == Len(Bundles(ws)[n])
             e == Encoded(ws[k].message)
             w == Word(Len(e))
             four == 4
  <2>1. /\ o \in Nat /\ l \in Nat /\ Len(Bundles(ws)[k]) = o + four + Len(e)
        /\ Len(Bundles(ws)[k]) <= l
    BY <1>3, <1>6, Zenon
  <2>2. e \in Seq(Octets) /\ Len(e) \in Nat
    BY <1>4, EncodedIs, Zenon
  <2>3. w \in Seq(Octets) /\ Len(w) = four
    <3>1. Len(e) \in Int
      BY <2>2, SMT
    <3> QED
      BY <3>1, WordIs, Zenon
  <2> DEFINE z == Len(e)
  <2>4. z \in Nat /\ o + four + z <= l
    BY <2>1, <2>2, Zenon
  <2>5. Stands(b, o, w) /\ (~ws[k].cut => Stands(b, o + four, e))
    BY <1>5, Zenon DEF ElementStands
  <2>6. \A j \in 1..l : c[j] = b[j]
    BY <1>7, Zenon
  <2> HIDE DEF o, l, e, w, z
  <2>7. o + four <= l /\ o + four \in Nat /\ (o + four) + z <= l
    BY <2>1, <2>4, SMT
  <2>8. Stands(c, o, w)
    <3>1. o + Len(w) <= l
      BY <2>3, <2>7, Zenon
    <3> QED
      BY <2>1, <2>3, <2>5, <2>6, <3>1, StandsStill, Zenon
  <2>9. ~ws[k].cut => Stands(c, o + four, e)
    <3>1. (o + four) + Len(e) <= l
      BY <2>7, Zenon DEF z
    <3> QED
      BY <2>1, <2>2, <2>5, <2>6, <2>7, <3>1, StandsStill, Zenon
  <2>10. ElementStands(c, o, ws[k])
    BY <2>8, <2>9, Zenon DEF ElementStands, w, e
  <2> QED
    BY <1>1, <1>2, <1>6, <2>10, Zenon DEF o
<1> DEFINE i == n + 1
<1>9. /\ i - 1 = n /\ vs[i] = r /\ Len(vs) = i
      /\ \A k \in 1..i : k \in 1..n \/ k = i
  BY <1>1, <1>6, Zenon
<1> HIDE DEF i
<1>10. ElementStands(c, Len(Bundles(vs)[i - 1]), vs[i])
  <2>1. Bundles(vs)[i - 1] = Bundles(ws)[n]
    BY <1>2, <1>6, <1>9, Zenon
  <2>2. ElementStands(c, Len(Bundles(ws)[n]), r)
    BY Zenon DEF BundleOf, n
  <2> QED
    BY <1>9, <2>1, <2>2, Zenon
<1>11. \A k \in 1..i : ElementStands(c, Len(Bundles(vs)[k - 1]), vs[k])
  <2> TAKE k \in 1..i
  <2>1. CASE k \in 1..n
    BY <1>8, <2>1, Zenon
  <2>2. CASE k = i
    BY <1>10, <2>2, Zenon
  <2> QED
    BY <1>9, <2>1, <2>2, Zenon
<1>12. Laid(c, vs)
  BY <1>9, <1>11, Zenon DEF Laid
<1> QED
  BY <1>12, Zenon DEF vs

\* Putting a message behind a bundle makes an element of it.
LEMMA ElementPut ==
  ASSUME WriteInv, NEW m \in Messages, WriteNextMessage(m), refused' = <<>>
  PROVE  /\ \E c \in BOOLEAN : LET r == [message |-> m, cut |-> c]
                               IN /\ r \in Records /\ written' = Append(written, r)
                                  /\ ElementStands(buf', length, r)
         /\ \A j \in 1..length : buf'[j] = buf[j]
         /\ length = Len(BundleOf(written)) /\ mode = "bundle"
<1> DEFINE room == RoomLeft
           base == length + 4
           space == Space(bufLen) - base
           w == Write(buf, base, room, m)
           e == Encoded(m)
           l == Word(w.i)
<1>1. /\ mode = "bundle" /\ phase = "write" /\ refused = <<>> /\ next = length
      /\ length < bufLen /\ room >= 0 /\ bufLen \in Lengths
      /\ Within(length, bufLen, buf, spilled) /\ length = Len(BundleOf(written)) /\ buf \in Buffers
  BY Zenon DEF WriteNextMessage, WriteInv, Accepted
<1>2. buf' = Put(w.bytes, length, l) /\ Recorded(m, room, w)
  BY <1>1, Zenon DEF WriteNextMessage
<1>3. /\ length \in Nat /\ length % 4 = 0 /\ Size \in Nat /\ bufLen \in Nat /\ bufLen <= Size
      /\ Clear(buf, bufLen)
  BY <1>1, SpaceIs, Zenon DEF Within
<1>4. /\ room \in Nat /\ base \in Nat /\ base + room = bufLen
      /\ space \in Nat /\ space % 4 = 0 /\ room <= space /\ base + space <= Size
  <2> DEFINE q == Space(bufLen)
  <2>1. q \in Nat /\ q % 4 = 0 /\ bufLen <= q /\ q <= Size
    BY <1>1, SpaceIs, Zenon
  <2>2. space = q - base /\ room = bufLen - length - 4
    BY Zenon DEF RoomLeft
  <2>3. \A i, k \in Nat : i % 4 = 0 /\ k % 4 = 0 => (i - (k + 4)) % 4 = 0
    BY SMT
  <2>4. space % 4 = 0
    BY <1>3, <2>1, <2>2, <2>3, Zenon
  <2> HIDE DEF q, space, room
  <2>5. /\ room \in Nat /\ base \in Nat /\ base + room = bufLen
        /\ space \in Nat /\ room <= space /\ base + space <= Size
    BY <1>1, <1>3, <2>1, <2>2, SMT
  <2> QED
    BY <2>4, <2>5
<1>5. base = length + 4 /\ length \in Int
  BY <1>3, SMT
<1> HIDE DEF room, base, space
<1>6. w \in Writers /\ (w.i >= 0 => Holds(w, buf, base, room, space, e))
  <2>1. Clear(buf, base + room)
    BY <1>3, <1>4, Zenon
  <2> QED
    BY <1>1, <1>4, <2>1, WriteHolds, Zenon
<1> HIDE DEF w
<1>7. ~(w.i < 0) /\ written' = Append(written, [message |-> m, cut |-> w.cut])
  <2> SUFFICES ASSUME w.i < 0 PROVE FALSE
    BY <1>2, Zenon DEF Recorded
  <2>1. refused' = <<[message |-> m, room |-> room, code |-> w.i]>>
    BY <1>2, Zenon DEF Recorded
  <2> QED
    BY <2>1
<1>8. w.i \in Int /\ w.bytes \in Buffers /\ w.cut \in BOOLEAN /\ w.i >= 0
  <2>1. w.i \in Int /\ w.bytes \in Buffers /\ w.cut \in BOOLEAN
    BY <1>6, Zenon DEF Writers
  <2> QED
    BY <1>7, <2>1, SMT
<1>9. /\ w.i = Len(e) /\ w.i <= space
      /\ \A j \in 1..base : w.bytes[j] = buf[j]
      /\ ~w.cut => \A k \in 1..Len(e) : w.bytes[base + k] = e[k]
  BY <1>6, <1>8, Zenon DEF Holds
<1>10. l \in Seq(Octets) /\ Len(l) = 4
  BY <1>8, WordIs, Zenon
<1> HIDE DEF l
<1>11. \A j \in 1..Size :
         buf'[j] = IF j - length \in 1..Len(l) THEN l[j - length] ELSE w.bytes[j]
  <2>1. \A j \in 1..Size : Put(w.bytes, length, l)[j] =
          IF j - length \in 1..Len(l) THEN l[j - length] ELSE w.bytes[j]
    BY <1>5, <1>8, <1>10, PutIs, Zenon
  <2> QED
    BY <1>2, <2>1, Zenon
<1> DEFINE z == Len(e)
           four == 4
           len == Size
<1>12. /\ z \in Nat /\ z <= space /\ base = length + four /\ base + space <= len
       /\ length \in Nat /\ space \in Nat /\ len \in Nat
  <2>1. z \in Nat
    BY EncodedIs, Zenon
  <2> QED
    BY <1>3, <1>4, <1>5, <1>9, <2>1, Zenon
<1> HIDE DEF z, len
<1>13. /\ \A j \in 1..length : j \in 1..len /\ j \in 1..base /\ ~(j - length \in 1..four)
       /\ \A k \in 1..four : length + k \in 1..len /\ (length + k) - length = k
       /\ \A k \in 1..z : base + k \in 1..len /\ ~((base + k) - length \in 1..four)
  <2>1. \A j \in 1..length : j \in 1..len /\ j \in 1..base /\ ~(j - length \in 1..four)
    BY <1>12, SMT
  <2>2. \A k \in 1..four : length + k \in 1..len /\ (length + k) - length = k
    BY <1>12, SMT
  <2>3. \A k \in 1..z : base + k \in 1..len /\ ~((base + k) - length \in 1..four)
    BY <1>12, SMT
  <2> QED
    BY <2>1, <2>2, <2>3
<1>14. Len(l) = four
  BY <1>10
<1> HIDE DEF four
<1>15. \A j \in 1..length : buf'[j] = buf[j]
  BY <1>9, <1>11, <1>13, <1>14, Zenon DEF len
<1>16. Stands(buf', length, l)
  BY <1>11, <1>13, <1>14, Zenon DEF Stands, len
<1>17. ~w.cut => Stands(buf', base, e)
  BY <1>9, <1>11, <1>13, <1>14, Zenon DEF Stands, len, z
<1> DEFINE r == [message |-> m, cut |-> w.cut]
<1>18. r \in Records /\ r.message = m /\ r.cut = w.cut
  BY <1>8 DEF Records
<1>19. l = Word(Len(e))
  BY <1>9, Zenon DEF l
<1> HIDE DEF r
<1>20. ElementStands(buf', length, r)
  BY <1>5, <1>16, <1>17, <1>18, <1>19, Zenon DEF ElementStands
<1>21. written' = Append(written, r)
  BY <1>7, Zenon DEF r
<1> QED
  BY <1>1, <1>8, <1>15, <1>18, <1>20, <1>21, Zenon DEF r

\* The reader takes up a message that stands in the buffer.
LEMMA FreshReads ==
  ASSUME NEW m \in Messages, NEW at \in Nat, Stands(buf, at, Encoded(m)),
         at + Len(Encoded(m)) <= Size, buf' = buf, Fresh(Parsed(at, Len(Encoded(m))))
  PROVE  Telling(m, buf', msg') /\ Pointing(m, msg', place', answer', astray')
<1> DEFINE f == at + (Align(Len(m.address) + 4) + 1)
           p == at + Len(EncodedHeader(m))
           l == Len(Encoded(m))
<1>1. /\ msg' = [at |-> at, len |-> l, format |-> f, marker |-> p]
      /\ place' = 0 /\ astray' = FALSE
  BY ParsedIs, Zenon DEF Fresh
<1> HIDE DEF f, p, l
<1>2. msg'.at = at /\ msg'.len = l /\ msg'.format = f /\ msg'.marker = p
  BY <1>1
<1>3. msg' = [at |-> msg'.at, len |-> msg'.len, format |-> msg'.format, marker |-> msg'.marker]
  BY <1>1, <1>2, Zenon
<1>4. Telling(m, buf', msg')
  BY <1>2, <1>3, Zenon DEF Telling, f, l
<1>5. Encodings(m)[0] = EncodedHeader(m) /\ 0 \in 0..Len(m.args)
  <2>1. Len(m.args) \in Nat
    BY MessageIs, Zenon
  <2>2. 0 \in 0..Len(m.args)
    BY <2>1, SMT
  <2> QED
    BY <2>2, EncodingsAre, Zenon
<1>6. ~(0 > 0)
  BY SMT
<1>7. Pointing(m, msg', place', answer', astray')
  BY <1>1, <1>2, <1>5, <1>6, Zenon DEF Pointing, p
<1> QED
  BY <1>4, <1>7

\* The reader starts with the invariant.
LEMMA ReadInvStarts == Init => ReadInv
<1> SUFFICES ASSUME Init PROVE ReadInv
  OBVIOUS
<1>1. WriteInv
  BY WriteInvStarts
<1>2. phase = "write" /\ got = 0 /\ written = <<>> /\ phase # "read"
  BY DEF Init
<1>3. Laid(buf, written)
  BY <1>2 DEF Laid
<1> QED
  BY <1>1, <1>2, <1>3, Zenon DEF ReadInv, Follows, Alone, Between, Inside

\* A message that is written alone.
LEMMA WriteMessageReads ==
  ASSUME ReadInv, NEW m \in Messages, WriteMessage(m)
  PROVE  ReadInv'
<1>1. /\ phase = "write" /\ mode = "message" /\ written = <<>>
      /\ mode' = mode /\ phase' = phase /\ got' = got
  BY Zenon DEF WriteMessage, readVars
<1>2. \E r : written' = written \/ written' = Append(written, r)
  BY Zenon DEF WriteMessage, Recorded
<1>3. written' # <<>> => Len(written') = 1
  BY <1>1, <1>2
<1>4. phase' # "read" /\ mode' # "bundle"
  BY <1>1
<1>5. WriteInv'
  BY WriteMessageKeeps, Zenon DEF ReadInv
<1>6. Follows'
  BY <1>1, <1>4, Zenon DEF ReadInv, Follows
<1> QED
  BY <1>3, <1>4, <1>5, <1>6, Zenon DEF ReadInv, Alone, Between, Inside

\* A message that is added to a bundle.
LEMMA WriteNextMessageReads ==
  ASSUME ReadInv, NEW m \in Messages, WriteNextMessage(m)
  PROVE  ReadInv'
<1>1. /\ phase = "write" /\ mode = "bundle" /\ refused = <<>>
      /\ mode' = mode /\ phase' = phase /\ got' = got
  BY Zenon DEF WriteNextMessage, readVars
<1>2. phase' # "read" /\ mode' # "message"
  BY <1>1
<1>3. WriteInv'
  BY WriteNextMessageKeeps, Zenon DEF ReadInv
<1>4. Follows'
  BY <1>1, <1>2, Zenon DEF ReadInv, Follows
<1>5. refused' = <<>> => Laid(buf', written')
  <2> SUFFICES ASSUME refused' = <<>> PROVE Laid(buf', written')
    OBVIOUS
  <2>1. WriteInv /\ Laid(buf, written) /\ written \in Seq(Records)
    BY <1>1, Zenon DEF ReadInv, Between, WriteInv
  <2>2. /\ \E c \in BOOLEAN : LET r == [message |-> m, cut |-> c]
                              IN /\ r \in Records /\ written' = Append(written, r)
                                 /\ ElementStands(buf', length, r)
        /\ \A j \in 1..length : buf'[j] = buf[j]
        /\ length = Len(BundleOf(written))
    BY <2>1, ElementPut, Zenon
  <2>3. PICK r \in Records : written' = Append(written, r) /\ ElementStands(buf', length, r)
    BY <2>2, Zenon
  <2>4. Laid(buf', Append(written, r))
    <3>1. /\ \A j \in 1..Len(BundleOf(written)) : buf'[j] = buf[j]
          /\ ElementStands(buf', Len(BundleOf(written)), r)
      BY <2>2, <2>3, Zenon
    <3> QED
      BY <2>1, <3>1, LaidGrows, Zenon
  <2> QED
    BY <2>3, <2>4, Zenon
<1> QED
  BY <1>2, <1>3, <1>4, <1>5, Zenon DEF ReadInv, Alone, Between, Inside

\* The packet is handed over.
LEMMA ReceiveReads ==
  ASSUME ReadInv, Receive
  PROVE  ReadInv'
<1>1. /\ phase = "write" /\ phase' = "read" /\ refused = <<>> /\ got = 0
      /\ mode' = mode /\ buf' = buf /\ length' = length /\ written' = written
      /\ refused' = refused
  BY Zenon DEF Receive, writeVars, ReadInv, Follows
<1>2. WriteInv'
  <2>1. [Next]_vars
    BY Zenon DEF Next
  <2> QED
    BY <2>1, WriteInvKept, Zenon DEF ReadInv
<1>3. written \in Seq(Records) /\ mode \in {"message", "bundle"} /\ Len(written) \in Nat
  <2>1. written \in Seq(Records) /\ mode \in {"message", "bundle"}
    BY Zenon DEF ReadInv, WriteInv
  <2> QED
    BY <2>1, LenProperties
<1>4. Follows'
  <2>1. phase' # "write"
    BY <1>1
  <2> QED
    BY <1>1, <2>1, Zenon DEF Follows
<1>5. CASE mode = "bundle"
  <2>1. mode # "message"
    BY <1>5
  <2>2. next' = 16 /\ UNCHANGED readVars
    BY <2>1, Zenon DEF Receive
  <2>3. got' = 0
    BY <1>1, <2>2, Zenon DEF readVars
  <2>4. Laid(buf', written')
    BY <1>1, <1>5, Zenon DEF ReadInv, Between
  <2>5. next' = Len(Bundles(written)[0]) /\ 0 \in 0..Len(written)
    <3>1. Bundles(written)[0] = BundleId \o Timetag
      BY <1>3, BundlesAre, Zenon
    <3>2. 0 \in 0..Len(written)
      BY <1>3, SMT
    <3> QED
      BY <2>2, <3>1, <3>2, HeadIs, Zenon
  <2>6. ~(got' > 0)
    BY <2>3, SMT
  <2> QED
    BY <1>1, <1>2, <1>4, <2>1, <2>3, <2>4, <2>5, <2>6, Zenon
    DEF ReadInv, Alone, Between, Inside
<1>6. CASE mode = "message"
  <2>1. mode # "bundle"
    BY <1>6
  <2>2. written # <<>> /\ Fresh(Parsed(0, length))
    BY <2>1, Zenon DEF Receive
  <2>3. Len(written) = 1
    BY <1>6, <2>2, Zenon DEF ReadInv, Alone
  <2>4. got' = 1
    <3>1. got' = got + 1
      BY <2>2, Zenon DEF Fresh
    <3> QED
      BY <1>1, <3>1, SMT
  <2> DEFINE m == written[1].message
  <2>5. m \in Messages
    <3>1. written[1] \in Records
      BY <1>3, <2>3
    <3> QED
      BY <3>1, Zenon DEF Records
  <2>6. ASSUME ~written[1].cut
        PROVE  /\ Telling(m, buf', msg')
               /\ Pointing(m, msg', place', answer', astray')
    <3>1. Uncut(written)
      <4>1. \A k \in DOMAIN written : k = 1
        BY <1>3, <2>3
      <4> QED
        BY <2>6, <4>1, Zenon DEF Uncut
    <3>2. length = Len(Encoded(m)) /\ Begins(buf, Encoded(m)) /\ length <= Size /\ length \in Nat
      <4>1. length \in Nat /\ length <= Size
        BY <1>1, LengthIs, Zenon DEF ReadInv
      <4> QED
        BY <1>1, <1>6, <2>2, <3>1, <4>1, Zenon DEF ReadInv, WriteInv, Accepted
    <3>3. Stands(buf, 0, Encoded(m)) /\ 0 + Len(Encoded(m)) <= Size /\ 0 \in Nat
      <4>1. \A k \in 1..length : 0 + k = k
        BY <3>2, SMT
      <4>2. 0 + length = length /\ 0 \in Nat
        BY <3>2, SMT
      <4>3. \A k \in 1..Len(Encoded(m)) : buf[0 + k] = Encoded(m)[k]
        BY <3>2, <4>1, Zenon DEF Begins
      <4> QED
        BY <3>2, <4>2, <4>3, Zenon DEF Stands
    <3>4. Fresh(Parsed(0, Len(Encoded(m))))
      BY <2>2, <3>2, Zenon
    <3> HIDE DEF m
    <3> QED
      BY <1>1, <2>5, <3>3, <3>4, FreshReads, Zenon
  <2>7. mode' # "bundle"
    BY <1>1, <2>1
  <2>8. Alone'
    BY <1>1, <2>2, <2>3, <2>4, Zenon DEF Alone
  <2>9. Between'
    BY <2>7, Zenon DEF Between
  <2>10. Inside'
    BY <1>1, <2>4, <2>6, Zenon DEF Inside
  <2> QED
    BY <1>2, <1>4, <2>8, <2>9, <2>10, Zenon DEF ReadInv
<1> QED
  BY <1>3, <1>5, <1>6

\* The next element of a bundle: as long as there is one, and the one written next.
LEMMA ElementNext ==
  ASSUME ReadInv, phase = "read", mode = "bundle", next < length
  PROVE  /\ got + 1 \in 1..Len(written) /\ (got + 1) - 1 = got
         /\ written[got + 1].message \in Messages
         /\ next \in Nat /\ next + 4 \in Nat
         /\ Number(Slice(next, 4)) = Len(Encoded(written[got + 1].message))
         /\ (next + 4) + Len(Encoded(written[got + 1].message)) <= Size
         /\ next + 4 + Len(Encoded(written[got + 1].message)) = Len(Bundles(written)[got + 1])
         /\ ~written[got + 1].cut =>
              Stands(buf, next + 4, Encoded(written[got + 1].message))
<1> DEFINE n == Len(written)
           b == Bundles(written)
           k == got + 1
           m == written[k].message
           e == Encoded(m)
           l == Len(e)
<1>1. /\ refused = <<>> /\ buf \in Buffers /\ written \in Seq(Records)
      /\ length <= Size /\ length = Len(b[n])
      /\ got \in 0..n /\ next = Len(b[got]) /\ Laid(buf, written)
  <2>1. refused = <<>> /\ WriteInv
    BY Zenon DEF ReadInv, Follows
  <2>2. length <= Size
    BY <2>1, LengthIs, Zenon
  <2> QED
    BY <2>1, <2>2, Zenon DEF ReadInv, WriteInv, Accepted, BundleOf, Between
<1>2. /\ \A j \in 0..n : Len(b[j]) \in Nat
      /\ \A j \in 1..n : Len(b[j]) = Len(b[j - 1]) + 4 + Len(Encoded(written[j].message))
      /\ \A i \in 0..n : \A j \in 0..i : Len(b[j]) <= Len(b[i])
  BY <1>1, BundlesRise, Zenon
<1>3. n \in Nat /\ Size \in Nat
  BY <1>1, LenProperties, BufferAssumption
<1>4. next \in Nat /\ length \in Nat
  <2>1. n \in 0..n
    BY <1>3, SMT
  <2> QED
    BY <1>1, <1>2, <2>1, Zenon
<1>5. got # n
  <2> SUFFICES ASSUME got = n PROVE FALSE
    OBVIOUS
  <2>1. next = length
    BY <1>1, Zenon
  <2> QED
    BY <1>4, <2>1, SMT
<1>6. k \in 1..n /\ k \in 0..n /\ k - 1 = got /\ n \in 0..n /\ k \in 0..n
  <2>1. got \in 0..n
    BY <1>1, Zenon
  <2> HIDE DEF n
  <2> QED
    BY <1>3, <1>5, <2>1, SMT
<1> HIDE DEF n, k, b
<1>7. written[k] \in Records /\ m \in Messages
  <2>1. written[k] \in Records
    BY <1>1, <1>6, ElementOfSeq, Zenon DEF n
  <2> QED
    BY <2>1, Zenon DEF Records
<1>8. e \in Seq(Octets) /\ l \in Nat
  BY <1>7, EncodedIs, Zenon
<1>9. Len(b[k]) = next + 4 + l /\ Len(b[k]) <= length
  BY <1>1, <1>2, <1>6, Zenon
<1>10. ElementStands(buf, next, written[k])
  BY <1>1, <1>6, Zenon DEF Laid, n, b
<1> HIDE DEF l
<1>11. next + 4 + l <= length
  BY <1>9, Zenon
<1>12. next + 4 \in Nat /\ (next + 4) + l <= Size /\ next + 4 <= Size /\ l <= Size
  <2>1. /\ next \in Nat /\ length \in Nat /\ Size \in Nat /\ l \in Nat
        /\ length <= Size /\ next + 4 + l <= length
    BY <1>1, <1>3, <1>4, <1>8, <1>11, Zenon
  <2> QED
    BY <2>1, SMT
<1>13. Number(Slice(next, 4)) = l
  <2> DEFINE w == Word(l)
  <2>1. w \in Seq(Octets) /\ Len(w) = 4
    <3>1. l \in Int
      BY <1>8, SMT
    <3> QED
      BY <3>1, WordIs, Zenon
  <2>2. Stands(buf, next, w)
    BY <1>10, Zenon DEF ElementStands, l
  <2> HIDE DEF w
  <2>3. next + Len(w) <= Size
    BY <1>12, <2>1
  <2>4. Slice(next, Len(w)) = w
    BY <1>1, <1>4, <2>1, <2>2, <2>3, SliceIs, Zenon
  <2>5. Slice(next, 4) = w
    BY <2>1, <2>4, Zenon
  <2>6. l <= IntMax
    <3>1. Size <= IntMax
      BY BufferAssumption, Zenon
    <3> QED
      BY <1>3, <1>8, <1>12, <3>1, SMT DEF IntMax
  <2>7. Number(Word(l)) = l
    BY <1>8, <2>6, NumberIs, Zenon
  <2> QED
    BY <2>5, <2>7, Zenon DEF w
<1>14. ~written[k].cut => Stands(buf, next + 4, e)
  BY <1>10, Zenon DEF ElementStands
<1> QED
  BY <1>4, <1>6, <1>7, <1>9, <1>12, <1>13, <1>14, Zenon DEF n, k, b, l

\* The reader goes to the next element.
LEMMA GetNextMessageReads ==
  ASSUME ReadInv, GetNextMessage
  PROVE  ReadInv'
<1> DEFINE k == got + 1
           m == written[k].message
           e == Encoded(m)
           at == next + 4
<1>1. /\ phase = "read" /\ mode = "bundle" /\ next < length
      /\ mode' = mode /\ phase' = phase /\ buf' = buf /\ length' = length /\ written' = written
      /\ refused' = refused /\ refused = <<>>
  BY Zenon DEF GetNextMessage, writeVars, ReadInv, Follows
<1>2. /\ Fresh(Parsed(at, Number(Slice(next, 4)))) /\ next' = at + Number(Slice(next, 4))
  BY Zenon DEF GetNextMessage
<1>3. /\ k \in 1..Len(written) /\ m \in Messages /\ at \in Nat
      /\ Number(Slice(next, 4)) = Len(e) /\ at + Len(e) <= Size
      /\ at + Len(e) = Len(Bundles(written)[k])
      /\ ~written[k].cut => Stands(buf, at, e)
  BY <1>1, ElementNext, Zenon
<1>4. got' = k
  BY <1>2, Zenon DEF Fresh
<1> HIDE DEF k, at
<1>5. WriteInv'
  <2>1. [Next]_vars
    BY Zenon DEF Next
  <2> QED
    BY <2>1, WriteInvKept, Zenon DEF ReadInv
<1>6. Follows'
  <2>1. phase' # "write" /\ phase' = "read"
    BY <1>1
  <2> QED
    BY <1>1, <2>1, Zenon DEF Follows
<1>7. mode' = "bundle" /\ mode' # "message"
  BY <1>1
<1>8. k \in 0..Len(written)
  <2>1. Len(written) \in Nat
    <3>1. written \in Seq(Records)
      BY Zenon DEF ReadInv, WriteInv
    <3> QED
      BY <3>1, LenProperties
  <2> QED
    BY <1>3, <2>1, SMT
<1>9. Between'
  <2>1. Laid(buf', written')
    BY <1>1, Zenon DEF ReadInv, Between
  <2>2. next' = Len(Bundles(written)[k])
    BY <1>2, <1>3, Zenon
  <2> QED
    BY <1>1, <1>4, <1>8, <2>1, <2>2, Zenon DEF Between
<1>10. ~written[k].cut => /\ Telling(m, buf', msg')
                          /\ Pointing(m, msg', place', answer', astray')
  <2>1. Fresh(Parsed(at, Len(e)))
    BY <1>2, <1>3, Zenon
  <2> HIDE DEF m
  <2> QED
    BY <1>1, <1>3, <2>1, FreshReads, Zenon
<1>11. Inside'
  BY <1>1, <1>4, <1>10, Zenon DEF Inside
<1>12. Alone'
  BY <1>7, Zenon DEF Alone
<1> QED
  BY <1>5, <1>6, <1>9, <1>11, <1>12, Zenon DEF ReadInv

\* What is read is a message that was written.
LEMMA GotIs ==
  ASSUME ReadInv, phase = "read", got > 0
  PROVE  written[got].message \in Messages
<1>1. got \in 1..Len(written) /\ written \in Seq(Records)
  <2>1. written \in Seq(Records) /\ mode \in {"message", "bundle"}
    BY Zenon DEF ReadInv, WriteInv
  <2>2. CASE mode = "bundle"
    <3>1. got \in 0..Len(written) /\ got > 0 /\ Len(written) \in Nat
      BY <2>1, <2>2, LenProperties, Zenon DEF ReadInv, Between
    <3>2. got \in 1..Len(written)
      BY <3>1, SMT
    <3> QED
      BY <2>1, <3>2
  <2>3. CASE mode = "message"
    <3>1. got = 1 /\ Len(written) = 1
      BY <2>3, Zenon DEF ReadInv, Alone
    <3> QED
      BY <2>1, <3>1
  <2> QED
    BY <2>1, <2>2, <2>3
<1>2. written[got] \in Records
  BY <1>1, ElementOfSeq, Zenon
<1> QED
  BY <1>2, Zenon DEF Records

\* An argument, or a reset.
LEMMA ArgumentReads ==
  ASSUME ReadInv, GetNextNumber \/ GetNextString \/ GetNextBlob \/ PassBare \/ Reset
  PROVE  ReadInv'
<1>1. /\ mode' = mode /\ phase' = phase /\ next' = next /\ buf' = buf /\ length' = length
      /\ written' = written /\ refused' = refused /\ got' = got
      /\ phase = "read" /\ got > 0
  BY Zenon DEF GetNextNumber, GetNextString, GetNextBlob, PassBare, Reset, Reads, Reading, writeVars
<1>2. WriteInv'
  <2>1. [Next]_vars
    BY Zenon DEF Next
  <2> QED
    BY <2>1, WriteInvKept, Zenon DEF ReadInv
<1>3. Follows'
  BY <1>1, Zenon DEF ReadInv, Follows
<1>4. Alone'
  BY <1>1, Zenon DEF ReadInv, Alone
<1>5. Between'
  BY <1>1, Zenon DEF ReadInv, Between
<1> DEFINE m == written[got].message
<1>6. ASSUME ~written[got].cut
      PROVE  Telling(m, buf', msg') /\ Pointing(m, msg', place', answer', astray')
  <2>1. /\ Telling(m, buf, msg) /\ Pointing(m, msg, place, answer, astray)
        /\ buf \in Buffers
    BY <1>1, <1>6, Zenon DEF ReadInv, Inside, WriteInv
  <2>2. m \in Messages
    BY <1>1, GotIs, Zenon
  <2> HIDE DEF m
  <2> QED
    BY <2>1, <2>2, NumberTaken, StringTaken, BlobTaken, BareTaken, ResetTaken, Zenon
<1>7. Inside'
  BY <1>1, <1>6, Zenon DEF Inside
<1> QED
  BY <1>2, <1>3, <1>4, <1>5, <1>7, Zenon DEF ReadInv

\* Every step keeps the invariant.
LEMMA ReadInvKept == ReadInv /\ [Next]_vars => ReadInv'
<1> SUFFICES ASSUME ReadInv, [Next]_vars PROVE ReadInv'
  OBVIOUS
<1>1. ASSUME NEW m \in Messages, WriteMessage(m) PROVE ReadInv'
  BY <1>1, WriteMessageReads, Zenon
<1>2. ASSUME NEW m \in Messages, WriteNextMessage(m) PROVE ReadInv'
  BY <1>2, WriteNextMessageReads, Zenon
<1>3. CASE Receive
  BY <1>3, ReceiveReads, Zenon
<1>4. CASE GetNextMessage
  BY <1>4, GetNextMessageReads, Zenon
<1>5. CASE GetNextNumber \/ GetNextString \/ GetNextBlob \/ PassBare \/ Reset
  BY <1>5, ArgumentReads, Zenon
<1>6. CASE UNCHANGED vars
  <2>1. /\ mode' = mode /\ phase' = phase /\ next' = next /\ buf' = buf /\ length' = length
        /\ written' = written /\ refused' = refused /\ spilled' = spilled
        /\ msg' = msg /\ answer' = answer /\ got' = got /\ place' = place /\ astray' = astray
    BY <1>6, Zenon DEF vars, writeVars, readVars
  <2>2. WriteInv'
    BY WriteInvKept, Zenon DEF ReadInv
  <2>3. Follows' /\ Alone' /\ Between'
    BY <2>1, Zenon DEF ReadInv, Follows, Alone, Between
  <2>4. Inside'
    BY <2>1, Zenon DEF ReadInv, Inside
  <2> QED
    BY <2>2, <2>3, <2>4, Zenon DEF ReadInv
<1>7. CASE Done
  <2>1. UNCHANGED vars
    BY <1>7, Zenon DEF Done
  <2> QED
    BY <1>6, <2>1
<1>8. CASE WriteNextMessageLost
  <2>1. /\ mode' = mode /\ buf' = buf /\ written' = written /\ refused' = refused
        /\ mode = "bundle" /\ mode' # "message"
        /\ phase' = "lost" /\ phase' # "read" /\ phase' # "write"
    BY <1>8, Zenon DEF WriteNextMessageLost, writeVars
  <2>2. WriteInv'
    BY WriteInvKept, Zenon DEF ReadInv
  <2>3. Follows' /\ Alone' /\ Inside'
    BY <2>1, Zenon DEF Follows, Alone, Inside
  <2>4. Between'
    BY <2>1, Zenon DEF ReadInv, Between
  <2> QED
    BY <2>2, <2>3, <2>4, Zenon DEF ReadInv
<1> QED
  BY <1>1, <1>2, <1>3, <1>4, <1>5, <1>6, <1>7, <1>8, Zenon DEF Next

\* The reader is told of every element.
LEMMA ReaderEnds ==
  ASSUME ReadInv, phase = "read", mode = "bundle"
  PROVE  next >= length <=> got = Len(written)
<1> DEFINE n == Len(written)
           b == Bundles(written)
           k == got + 1
           l == Len(Encoded(written[k].message))
<1>1. /\ written \in Seq(Records) /\ length = Len(b[n])
      /\ got \in 0..n /\ next = Len(b[got])
  BY Zenon DEF ReadInv, Follows, WriteInv, Accepted, BundleOf, Between
<1>2. /\ \A j \in 0..n : Len(b[j]) \in Nat
      /\ \A j \in 1..n : Len(b[j]) = Len(b[j - 1]) + 4 + Len(Encoded(written[j].message))
      /\ \A i \in 0..n : \A j \in 0..i : Len(b[j]) <= Len(b[i])
  BY <1>1, BundlesRise, Zenon
<1>3. n \in Nat /\ n \in 0..n
  <2>1. n \in Nat
    BY <1>1, LenProperties
  <2> HIDE DEF n
  <2> QED
    BY <2>1, SMT
<1>4. next \in Nat /\ length \in Nat
  BY <1>1, <1>2, <1>3, Zenon
<1>5. got = n => next >= length
  <2> SUFFICES ASSUME got = n PROVE next >= length
    OBVIOUS
  <2>1. next = length
    BY <1>1, Zenon
  <2> QED
    BY <1>4, <2>1, SMT
<1>6. ASSUME got # n PROVE ~(next >= length)
  <2>1. k \in 1..n /\ k \in 0..n /\ k - 1 = got
    <3>1. got \in 0..n
      BY <1>1, Zenon
    <3> HIDE DEF n
    <3> QED
      BY <1>3, <1>6, <3>1, SMT
  <2>2. l \in Nat
    <3>1. written[k] \in Records
      BY <1>1, <2>1, ElementOfSeq, Zenon
    <3>2. written[k].message \in Messages
      BY <3>1, Zenon DEF Records
    <3> QED
      BY <3>2, EncodedIs, Zenon
  <2> HIDE DEF n, b, k
  <2>3. Len(b[k]) = next + 4 + l /\ Len(b[k]) <= length
    BY <1>1, <1>2, <1>3, <2>1, Zenon
  <2> HIDE DEF l
  <2>4. next + 4 + l <= length
    BY <2>3, Zenon
  <2> QED
    BY <1>4, <2>2, <2>4, SMT
<1> QED
  BY <1>5, <1>6, Zenon

\* Where the reader's record says, the address and the types are.
LEMMA TellsNames ==
  ASSUME NEW m \in Messages, Telling(m, buf, msg), buf \in Buffers
  PROVE  /\ Slice(msg.at, Len(m.address) + 1) = Append(m.address, NUL)
         /\ Slice(msg.format, Len(m.args) + 1) = Append(Types(m), NUL)
<1> DEFINE at == msg.at
           l == Len(m.address)
           n == Len(m.args)
           a == Align(l + 4)
           x == Append(m.address, NUL)
           y == Append(Types(m), NUL)
<1>1. /\ at \in Nat /\ Stands(buf, at, Encoded(m)) /\ at + Len(Encoded(m)) <= Size
      /\ msg.format = at + (a + 1)
  BY Zenon DEF Telling
<1>2. /\ l \in Nat /\ n \in Nat /\ a \in Nat /\ l < a /\ at + (a + n + 2) <= Size
      /\ \A k \in 1..l : buf[at + k] = m.address[k]
      /\ \A k \in (l + 1)..a : buf[at + k] = NUL
      /\ \A k \in 1..n : buf[at + (a + 1 + k)] = Types(m)[k]
      /\ buf[at + (a + n + 2)] = NUL
  BY <1>1, HeaderStands, Zenon
<1>3. /\ x \in Seq(Octets) /\ Len(x) = l + 1 /\ x[l + 1] = NUL
      /\ \A k \in 1..l : x[k] = m.address[k]
  <2>1. m.address \in Seq(Octets) /\ NUL \in Octets
    BY MessageIs DEF NUL, Octets
  <2> QED
    BY <2>1, AppendProperties
<1>4. /\ y \in Seq(Octets) /\ Len(y) = n + 1 /\ y[n + 1] = NUL
      /\ \A k \in 1..n : y[k] = Types(m)[k]
  <2>1. Types(m) \in Seq(Octets) /\ NUL \in Octets /\ Len(Types(m)) = n
    BY MessageIs DEF NUL, Octets
  <2> DEFINE t == Types(m)
  <2> HIDE DEF t, n
  <2>2. t \in Seq(Octets) /\ NUL \in Octets /\ Len(t) = n
    BY <2>1, Zenon DEF t
  <2>3. /\ Append(t, NUL) \in Seq(Octets) /\ Len(Append(t, NUL)) = n + 1
        /\ Append(t, NUL)[n + 1] = NUL /\ \A k \in 1..n : Append(t, NUL)[k] = t[k]
    BY <2>2, AppendProperties
  <2> QED
    BY <2>3, Zenon DEF t
<1> HIDE DEF at, l, n, a, x, y
<1>5. Size \in Nat
  BY BufferAssumption, Zenon
<1>6. /\ l + 1 \in (l + 1)..a /\ at + (l + 1) <= Size
      /\ \A k \in 1..(l + 1) : k \in 1..l \/ k = l + 1
  BY <1>1, <1>2, <1>5, SMT
<1>7. /\ at + (a + 1) \in Nat /\ (at + (a + 1)) + (n + 1) <= Size
      /\ (at + (a + 1)) + (n + 1) = at + (a + n + 2)
      /\ \A k \in 1..(n + 1) : k \in 1..n \/ k = n + 1
      /\ \A k \in 1..n : (at + (a + 1)) + k = at + (a + 1 + k)
  BY <1>1, <1>2, <1>5, SMT
<1>8. Slice(at, l + 1) = x
  <2>1. \A k \in 1..(l + 1) : buf[at + k] = x[k]
    BY <1>2, <1>3, <1>6, Zenon
  <2>2. Stands(buf, at, x) /\ at + Len(x) <= Size
    BY <1>3, <1>6, <2>1, Zenon DEF Stands
  <2>3. Slice(at, Len(x)) = x
    BY <1>1, <1>3, <2>2, SliceIs, Zenon
  <2> QED
    BY <1>3, <2>3, Zenon
<1>9. Slice(at + (a + 1), n + 1) = y
  <2> DEFINE o == at + (a + 1)
  <2> HIDE DEF o
  <2>1. \A k \in 1..(n + 1) : buf[o + k] = y[k]
    <3> TAKE k \in 1..(n + 1)
    <3>1. CASE k \in 1..n
      BY <1>2, <1>4, <1>7, <3>1, Zenon DEF o
    <3>2. CASE k = n + 1
      BY <1>2, <1>4, <1>7, <3>2, Zenon DEF o
    <3> QED
      BY <1>7, <3>1, <3>2, Zenon
  <2>2. Stands(buf, o, y) /\ o + Len(y) <= Size /\ o \in Nat
    BY <1>4, <1>7, <2>1, Zenon DEF Stands, o
  <2>3. Slice(o, Len(y)) = y
    BY <1>4, <2>2, SliceIs, Zenon
  <2> QED
    BY <1>4, <2>3, Zenon DEF o
<1> QED
  BY <1>1, <1>8, <1>9, Zenon DEF at, l, n, x, y

\* The invariant says what is read.
LEMMA ReadInvSays == ReadInv => ReadsBack
<1> SUFFICES ASSUME ReadInv PROVE ReadsBack
  OBVIOUS
<1>1. phase = "read" /\ mode = "bundle" => (next >= length <=> got = Len(written))
  BY ReaderEnds, Zenon
<1> DEFINE m == written[got].message
<1>2. ASSUME Reading, ~written[got].cut
      PROVE  /\ Slice(msg.at, Len(m.address) + 1) = Append(m.address, NUL)
             /\ Slice(msg.format, Len(m.args) + 1) = Append(Types(m), NUL)
             /\ place > 0 /\ ~astray => answer = m.args[place].value
             /\ astray => Len(m.args) % 4 = 3
  <2>1. /\ phase = "read" /\ got > 0 /\ buf \in Buffers
        /\ Telling(m, buf, msg) /\ Pointing(m, msg, place, answer, astray)
    BY <1>2, Zenon DEF Reading, ReadInv, Inside, WriteInv
  <2>2. m \in Messages
    BY <2>1, GotIs, Zenon
  <2> HIDE DEF m
  <2> QED
    BY <2>1, <2>2, TellsNames, Zenon DEF Pointing
<1> QED
  BY <1>1, <1>2, Zenon DEF ReadsBack

\* In every state the invariant of the reader holds.
LEMMA ReadInvAlways == Spec => []ReadInv
<1> QED
  BY ReadInvStarts, ReadInvKept, PTL DEF Spec

-----------------------------------------------------------------------------
(* The theorems.                                                           *)

\* Whatever is accepted, alone or in a bundle, is in the buffer as OSC 1.0 encodes
\* it and as long as the code says, unless a text was cut (tosc_vwrite,
\* tosc_writeMessage, tosc_writeNextMessage).
THEOREM WritesAlwaysEncoding == Spec => []WritesEncoding
<1>1. WriteInv => WritesEncoding
  BY WriteInvSays
<1> QED
  BY <1>1, WriteInvAlways, PTL

\* A message is refused only where it does not fit or has a type that is not known,
\* and what is accepted stays in the buffer (tosc_vwrite).
THEOREM RefusalsAlwaysJustified == Spec => []RefusesWhatDoesNotFit
<1>1. WriteInv => RefusesWhatDoesNotFit
  BY WriteInvSays
<1> QED
  BY <1>1, WriteInvAlways, PTL

\* Every message is read in the order written and no other, with its address, its
\* types and each argument as it was written, in whatever order the reader resets;
\* but for cut texts, and tosc_reset where the types are 3, 7, 11... in number.
THEOREM ReadsAlwaysBack == Spec => []ReadsBack
<1>1. ReadInv => ReadsBack
  BY ReadInvSays
<1> QED
  BY <1>1, ReadInvAlways, PTL
=============================================================================
