-------------------------- MODULE PduConvertProofs --------------------------
(***************************************************************************)
(* Proofs about the conversions, for every submission the PDU format       *)
(* allows, every system_id, report, time and zone.  The conversions keep   *)
(* no state: the invariant says that a message, a report and its PDUs are  *)
(* the conversions of what was submitted, and the rest are facts about the *)
(* conversions.                                                            *)
(***************************************************************************)
EXTENDS PduConvert, SequenceTheorems, WellFoundedInduction, TLAPS

\* A non-empty set of natural numbers has a least element.
LEMMA Least ==
  ASSUME NEW T \in SUBSET Nat, T # {}
  PROVE  \E m \in T : \A n \in T : m <= n
  <1> DEFINE R == {ss \in Nat \X Nat : ss[1] < ss[2]}
  <1>1. IsWellFoundedOn(R, Nat)
    BY NatLessThanWellFounded, Zenon DEF OpToRel
  <1> HIDE DEF R
  <1>2. \E m \in T : \A n \in T : ~(<<n, m>> \in R)
    BY <1>1, WFMin
  <1> USE DEF R
  <1>3. \A m, n \in T : ~(<<n, m>> \in R) => m <= n
    OBVIOUS
  <1> QED
    BY <1>2, <1>3

\* The same as induction up to N: a set of the numbers up to N that has 0 and
\* with each number the next has them all.
LEMMA UpTo ==
  ASSUME NEW N \in Nat, NEW Good, 0 \in Good,
         \A i \in 0 .. N : i \in Good /\ i < N => i + 1 \in Good
  PROVE  \A i \in 0 .. N : i \in Good
  <1> DEFINE Bad == {i \in 0 .. N : i \notin Good}
  <1> SUFFICES ASSUME Bad # {} PROVE FALSE
    OBVIOUS
  <1>1. PICK k \in Bad : \A j \in Bad : k <= j
    <2>1. Bad \in SUBSET Nat
      OBVIOUS
    <2> HIDE DEF Bad
    <2> QED
      BY <2>1, Least
  <1>2. k \in 0 .. N /\ k # 0 /\ k \notin Good
    OBVIOUS
  <1>3. PICK i : i = k - 1
    OBVIOUS
  <1>4. i \in 0 .. N /\ i < N /\ k = i + 1 /\ i < k
    BY <1>2, <1>3
  <1>5. i \in Good
    BY <1>1, <1>4
  <1> QED
    BY <1>2, <1>4, <1>5

-----------------------------------------------------------------------------
(* The length of an address *)

Piece == Chunk \cup {"+", "00"}

\* f sums up the first n pieces of addr.
Sums(f, addr, n) ==
  f = [i \in 0 .. n |-> IF i = 0 THEN 0 ELSE f[i - 1] + Width(addr[i])]

\* The sums exist.
LEMMA SumsExist ==
  ASSUME NEW addr, NEW n \in Nat
  PROVE  \E f : Sums(f, addr, n)
  <1> DEFINE Good == {k \in Nat : \E f : Sums(f, addr, k)}
  <1>1. 0 \in Good
    <2>1. PICK f : f = [i \in 0 .. 0 |-> 0]
      OBVIOUS
    <2>2. Sums(f, addr, 0)
      BY <2>1 DEF Sums
    <2> QED
      BY <2>2
  <1>2. ASSUME NEW k \in Nat, k \in Good PROVE k + 1 \in Good
    <2>1. PICK g : Sums(g, addr, k)
      BY <1>2
    <2>2. PICK f : f = [i \in 0 .. (k + 1) |-> IF i = k + 1 THEN g[k] + Width(addr[k + 1]) ELSE g[i]]
      OBVIOUS
    <2>3. ASSUME NEW i \in 0 .. (k + 1)
          PROVE  f[i] = IF i = 0 THEN 0 ELSE f[i - 1] + Width(addr[i])
      <3>1. CASE i = k + 1
        <4>1. f[k] = g[k]
          BY <2>2
        <4> QED
          BY <2>2, <3>1, <4>1
      <3>2. CASE i # k + 1 /\ i # 0
        <4>1. i \in 0 .. k /\ i - 1 \in 0 .. k /\ i - 1 \in 0 .. (k + 1) /\ i - 1 # k + 1
          BY <3>2
        <4>2. g[i] = g[i - 1] + Width(addr[i])
          BY <2>1, <3>2, <4>1 DEF Sums
        <4>3. f[i] = g[i] /\ f[i - 1] = g[i - 1]
          BY <2>2, <3>2, <4>1
        <4> QED
          BY <3>2, <4>2, <4>3
      <3>3. CASE i = 0
        <4>1. g[0] = 0
          BY <2>1 DEF Sums
        <4> QED
          BY <2>2, <3>3, <4>1
      <3> QED
        BY <3>1, <3>2, <3>3
    <2>4. Sums(f, addr, k + 1)
      <3>1. DOMAIN f = 0 .. (k + 1) /\ f = [i \in 0 .. (k + 1) |-> f[i]]
        BY <2>2
      <3> QED
        BY <2>3, <3>1 DEF Sums
    <2> QED
      BY <2>4
  <1>3. \A i \in 0 .. n : i \in Good
    <2>1. \A i \in 0 .. n : i \in Good /\ i < n => i + 1 \in Good
      BY <1>2
    <2> HIDE DEF Good
    <2> QED
      BY <1>1, <2>1, UpTo
  <1> QED
    BY <1>3

\* octstr_len is the last of them.
LEMMA OctetsSum ==
  ASSUME NEW addr, Len(addr) \in Nat
  PROVE  \E f : Sums(f, addr, Len(addr)) /\ Octets(addr) = f[Len(addr)]
  <1> DEFINE F == CHOOSE f : Sums(f, addr, Len(addr))
  <1>1. Sums(F, addr, Len(addr))
    BY SumsExist
  <1>2. Octets(addr) = F[Len(addr)]
    BY DEF Octets, Sums
  <1> QED
    BY <1>1, <1>2

\* What the sums are, step by step.
LEMMA SumStep ==
  ASSUME NEW f, NEW addr, NEW n \in Nat, Sums(f, addr, n)
  PROVE  f[0] = 0 /\ \A i \in 0 .. n : i < n => f[i + 1] = f[i] + Width(addr[i + 1])
  <1>1. f[0] = 0
    BY DEF Sums
  <1>2. ASSUME NEW i \in 0 .. n, i < n PROVE f[i + 1] = f[i] + Width(addr[i + 1])
    <2>1. i + 1 \in 0 .. n /\ i + 1 # 0 /\ (i + 1) - 1 = i
      BY <1>2
    <2>2. f[i + 1] = f[(i + 1) - 1] + Width(addr[i + 1])
      BY <2>1 DEF Sums
    <2> QED
      BY <2>1, <2>2
  <1> QED
    BY <1>1, <1>2

\* A piece has an octet at least.
LEMMA WidthPositive ==
  ASSUME NEW c \in Piece
  PROVE  Width(c) \in Nat /\ Width(c) >= 1
  BY ChunkAssumption DEF Piece, Width

\* An address has no fewer octets than pieces.
LEMMA OctetsAtLeast ==
  ASSUME NEW addr \in Seq(Piece)
  PROVE  Octets(addr) \in Nat /\ Octets(addr) >= Len(addr)
  <1>1. Len(addr) \in Nat
    OBVIOUS
  <1>2. PICK f : Sums(f, addr, Len(addr)) /\ Octets(addr) = f[Len(addr)]
    BY <1>1, OctetsSum
  <1>3. f[0] = 0 /\ \A i \in 0 .. Len(addr) : i < Len(addr) => f[i + 1] = f[i] + Width(addr[i + 1])
    BY <1>1, <1>2, SumStep
  <1> DEFINE Good == {i \in 0 .. Len(addr) : f[i] \in Nat /\ f[i] >= i}
  <1>4. 0 \in Good
    BY <1>1, <1>3
  <1>5. ASSUME NEW i \in 0 .. Len(addr), i \in Good, i < Len(addr) PROVE i + 1 \in Good
    <2>1. i + 1 \in 1 .. Len(addr)
      BY <1>1, <1>5
    <2>2. addr[i + 1] \in Piece
      BY <2>1
    <2>3. Width(addr[i + 1]) \in Nat /\ Width(addr[i + 1]) >= 1
      BY <2>2, WidthPositive
    <2> QED
      BY <1>3, <1>5, <2>1, <2>3
  <1>6. \A i \in 0 .. Len(addr) : i \in Good
    <2> HIDE DEF Good
    <2> QED
      BY <1>1, <1>4, <1>5, UpTo
  <1> QED
    BY <1>1, <1>2, <1>6

\* A piece in front adds its width.
LEMMA OctetsFront ==
  ASSUME NEW addr \in Seq(Piece), NEW c \in Piece
  PROVE  Octets(<<c>> \o addr) = Width(c) + Octets(addr)
  <1>1. PICK n : n = Len(addr)
    OBVIOUS
  <1>2. PICK long : long = <<c>> \o addr
    OBVIOUS
  <1>3. n \in Nat /\ Len(long) = n + 1 /\ long[1] = c /\ \A i \in 1 .. n : long[i + 1] = addr[i]
    BY <1>1, <1>2
  <1>4. PICK f : Sums(f, addr, n) /\ Octets(addr) = f[n]
    BY <1>1, <1>3, OctetsSum
  <1>5. PICK g : Sums(g, long, n + 1) /\ Octets(long) = g[n + 1]
    <2>1. Len(long) \in Nat
      BY <1>3
    <2> QED
      BY <1>3, <2>1, OctetsSum
  <1>6. f[0] = 0 /\ \A i \in 0 .. n : i < n => f[i + 1] = f[i] + Width(addr[i + 1])
    BY <1>3, <1>4, SumStep
  <1>7. g[0] = 0 /\ \A i \in 0 .. (n + 1) : i < n + 1 => g[i + 1] = g[i] + Width(long[i + 1])
    <2>1. n + 1 \in Nat
      BY <1>3
    <2> QED
      BY <1>5, <2>1, SumStep
  <1>8. Width(c) \in Nat
    BY WidthPositive
  <1> DEFINE Good == {i \in 0 .. n : f[i] \in Nat /\ g[i + 1] = Width(c) + f[i]}
  <1>9. 0 \in Good
    <2>1. g[0 + 1] = g[0] + Width(long[0 + 1])
      BY <1>3, <1>7
    <2> QED
      BY <1>3, <1>6, <1>7, <1>8, <2>1
  <1>10. ASSUME NEW i \in 0 .. n, i \in Good, i < n PROVE i + 1 \in Good
    <2>1. i + 1 \in 1 .. n /\ i + 1 \in 0 .. (n + 1) /\ i + 1 < n + 1
      BY <1>3, <1>10
    <2>2. long[(i + 1) + 1] = addr[i + 1] /\ addr[i + 1] \in Piece
      BY <1>1, <1>3, <2>1
    <2>3. Width(addr[i + 1]) \in Nat
      BY <2>2, WidthPositive
    <2>4. g[(i + 1) + 1] = g[i + 1] + Width(addr[i + 1])
      BY <1>7, <2>1, <2>2
    <2>5. f[i + 1] = f[i] + Width(addr[i + 1])
      BY <1>6, <1>10
    <2> QED
      BY <1>8, <1>10, <2>1, <2>3, <2>4, <2>5
  <1>11. \A i \in 0 .. n : i \in Good
    <2> HIDE DEF Good
    <2> QED
      BY <1>3, <1>9, <1>10, UpTo
  <1> QED
    BY <1>2, <1>3, <1>4, <1>5, <1>11

-----------------------------------------------------------------------------
(* Addresses there and back *)

\* A non-empty address is its first piece and the rest, and the octets of both.
LEMMA HeadAndTail ==
  ASSUME NEW addr \in Seq(Piece), addr # <<>>
  PROVE  /\ Head(addr) \in Piece /\ Head(addr) = addr[1] /\ Tail(addr) \in Seq(Piece)
         /\ Len(Tail(addr)) = Len(addr) - 1 /\ addr = <<Head(addr)>> \o Tail(addr)
         /\ \A i \in 1 .. (Len(addr) - 1) : Tail(addr)[i] = addr[i + 1]
         /\ Octets(Tail(addr)) <= Octets(addr)
  <1>1. PICK rest \in Seq(Piece) : rest = Tail(addr)
    BY HeadTailProperties
  <1>2. PICK c \in Piece : c = Head(addr)
    OBVIOUS
  <1>3. /\ Len(rest) = Len(addr) - 1 /\ Head(addr) = addr[1]
        /\ \A i \in 1 .. (Len(addr) - 1) : rest[i] = addr[i + 1]
    BY <1>1
  <1>4. addr = <<c>> \o rest
    BY <1>1, <1>2
  <1>5. Octets(addr) = Width(c) + Octets(rest)
    BY <1>4, OctetsFront
  <1>6. Octets(rest) \in Nat /\ Width(c) \in Nat
    BY OctetsAtLeast, WidthPositive
  <1>7. Octets(rest) <= Octets(addr)
    BY <1>5, <1>6
  <1> QED
    BY <1>1, <1>2, <1>3, <1>4, <1>7

\* Behind the first piece of a number there are digits only.
LEMMA DigitsBehind ==
  ASSUME NEW addr \in Seq(Piece), addr # <<>>, AllDigits(addr)
  PROVE  AllDigits(Tail(addr)) /\ ~StartsWith(Tail(addr), "+")
  <1>1. PICK rest \in Seq(Piece) : rest = Tail(addr)
    BY HeadTailProperties
  <1>2. Len(rest) = Len(addr) - 1 /\ \A i \in 1 .. (Len(addr) - 1) : rest[i] = addr[i + 1]
    BY <1>1, HeadAndTail
  <1>3. \A i \in 1 .. Len(rest) : rest[i] \in Numeric \cup {"00"}
    <2> SUFFICES ASSUME NEW i \in 1 .. Len(rest) PROVE rest[i] \in Numeric \cup {"00"}
      OBVIOUS
    <2>1. i + 1 \in 1 .. Len(addr) /\ i + 1 # 1 /\ rest[i] = addr[i + 1]
      BY <1>2
    <2> QED
      BY <2>1 DEF AllDigits
  <1>4. AllDigits(rest)
    BY <1>3 DEF AllDigits
  <1>5. ~StartsWith(rest, "+")
    <2> SUFFICES ASSUME rest # <<>>, Head(rest) = "+" PROVE FALSE
      BY DEF StartsWith
    <2>1. rest[1] = "+" /\ 1 \in 1 .. Len(rest)
      OBVIOUS
    <2>2. "+" \in Numeric \cup {"00"}
      BY <1>3, <2>1
    <2> QED
      BY <2>2, ChunkAssumption
  <1> QED
    BY <1>1, <1>4, <1>5

\* What '+' in front of an address does.
LEMMA PlusFront ==
  ASSUME NEW addr \in Seq(Piece)
  PROVE  /\ <<"+">> \o addr \in Seq(Piece) /\ <<"+">> \o addr # <<>>
         /\ StartsWith(<<"+">> \o addr, "+") /\ Tail(<<"+">> \o addr) = addr
         /\ AllDigits(addr) /\ ~StartsWith(addr, "+") => AllDigits(<<"+">> \o addr)
         /\ Octets(<<"+">> \o addr) = 1 + Octets(addr)
  <1>1. PICK long : long = <<"+">> \o addr
    OBVIOUS
  <1>2. "+" \in Piece
    BY DEF Piece
  <1>3. /\ long \in Seq(Piece) /\ long # <<>> /\ Head(long) = "+" /\ Tail(long) = addr
        /\ Len(long) = Len(addr) + 1 /\ long[1] = "+"
        /\ \A i \in 1 .. Len(addr) : long[i + 1] = addr[i]
    BY <1>1, <1>2
  <1>4. ASSUME AllDigits(addr), ~StartsWith(addr, "+") PROVE AllDigits(long)
    <2> SUFFICES ASSUME NEW i \in 1 .. Len(long), i # 1 PROVE long[i] \in Numeric \cup {"00"}
      BY <1>3 DEF AllDigits
    <2>1. PICK j : j = i - 1
      OBVIOUS
    <2>2. j \in 1 .. Len(addr) /\ long[i] = addr[j]
      BY <1>3, <2>1
    <2>3. j = 1 => addr[j] # "+"
      BY <1>4, <2>2 DEF StartsWith
    <2> QED
      BY <1>4, <2>2, <2>3 DEF AllDigits
  <1>5. Octets(long) = 1 + Octets(addr)
    BY <1>1, <1>2, OctetsFront DEF Width
  <1> QED
    BY <1>1, <1>3, <1>4, <1>5 DEF StartsWith

\* What is delivered in place of an address: the number it stands for, in no
\* more octets than there is room for, and empty only if there is no number.
ComesBack(addr, ton, out) ==
  /\ SameNumber(addr, ton, DestinationAddr(out)) /\ SameNumber(addr, ton, SourceAddr(out))
  /\ Octets(DestinationAddr(out).addr) \in 0 .. 20 /\ Octets(SourceAddr(out).addr) \in 0 .. 20
  /\ Octets(DestinationAddr(out).addr) = 0 /\ addr # <<>> => Denotes(ton, addr).number = <<>>

\* An address that is kept, or only loses '00' in front of a '+'
LEMMA KeptComesBack ==
  ASSUME NEW addr \in Seq(Piece), NEW ton, NEW out \in Seq(Piece), Octets(out) <= 20,
         addr = <<>> => out = <<>>,
         addr # <<>> => out # <<>>,
         \/ ton # INTERNATIONAL /\ out = addr
         \/ ton = INTERNATIONAL /\ addr = <<>>
         \/ /\ ton = INTERNATIONAL /\ StartsWith(out, "+")
            /\ out = IF StartsWith(addr, "00") THEN Tail(addr) ELSE addr
  PROVE  ComesBack(addr, ton, out)
  <1>1. CASE StartsWith(out, "+")
    <2>1. PICK number \in Seq(Piece) : number = Tail(out)
      BY <1>1, HeadTailProperties DEF StartsWith
    <2>2. out # <<>> /\ addr # <<>>
      BY <1>1 DEF StartsWith
    <2>3. DestinationAddr(out) = [ton |-> INTERNATIONAL, addr |-> number]
      BY <1>1, <2>1 DEF DestinationAddr
    <2>4. AllDigits(out) => SourceAddr(out) = [ton |-> INTERNATIONAL, addr |-> number]
      BY <1>1, <2>1 DEF SourceAddr
    <2>5. ~AllDigits(out) => SourceAddr(out) = [ton |-> ALPHANUMERIC, addr |-> out]
      BY <2>2 DEF SourceAddr
    <2>6. Octets(number) \in 0 .. 20 /\ Octets(out) \in 0 .. 20
      <3>1. Octets(Tail(out)) <= Octets(out)
        BY <2>2, HeadAndTail
      <3>2. Octets(out) \in Nat
        BY OctetsAtLeast
      <3>3. Octets(number) \in Nat
        BY OctetsAtLeast
      <3> QED
        <4>1. PICK m, n \in Nat : m = Octets(number) /\ n = Octets(out)
          BY <3>2, <3>3
        <4>2. m <= n
          BY <2>1, <3>1, <4>1, Zenon
        <4>3. n <= 20
          BY <4>1, Zenon
        <4>4. m \in 0 .. 20 /\ n \in 0 .. 20
          BY <4>2, <4>3
        <4> QED
          BY <4>1, <4>4, Zenon
    <2>7. AllDigits(out) => Denotes(ton, addr) = [intl |-> TRUE, number |-> number]
      BY <1>1, <2>1, <2>2 DEF Denotes
    <2>8. ~AllDigits(out) => Mistyped(ton, addr) \/ PlusAndLetters(addr)
      <3> SUFFICES ASSUME ~AllDigits(out), ton = INTERNATIONAL, AllDigits(addr), out # addr
                   PROVE  FALSE
        BY <1>1, <2>2 DEF Mistyped, PlusAndLetters
      <3>1. out = Tail(addr)
        BY <2>2
      <3> QED
        BY <2>2, <3>1, DigitsBehind
    <2>9. Octets(number) = 0 => Denotes(ton, addr).number = <<>>
      <3> SUFFICES ASSUME Octets(number) = 0 PROVE Denotes(ton, addr).number = <<>>
        OBVIOUS
      <3>1. Len(number) = 0 /\ number = <<>>
        BY OctetsAtLeast
      <3>2. Len(out) = 1 /\ out[1] = "+"
        BY <1>1, <2>1, <2>2, <3>1, HeadAndTail DEF StartsWith
      <3>3. AllDigits(out)
        BY <3>2 DEF AllDigits
      <3> QED
        BY <2>7, <3>1, <3>3
    <2>10. SameNumber(addr, ton, DestinationAddr(out)) /\ SameNumber(addr, ton, SourceAddr(out))
      <3>1. CASE ~AllDigits(out)
        BY <2>8, <3>1 DEF SameNumber
      <3>2. CASE AllDigits(out)
        <4>1. Denotes(ton, addr) = [intl |-> INTERNATIONAL = INTERNATIONAL, number |-> number]
          BY <2>7, <3>2
        <4> QED
          BY <2>3, <2>4, <3>2, <4>1 DEF SameNumber
      <3> QED
        BY <3>1, <3>2
    <2>11. Octets(DestinationAddr(out).addr) \in 0 .. 20 /\ Octets(SourceAddr(out).addr) \in 0 .. 20
      BY <2>3, <2>4, <2>5, <2>6, SMTT(30)
    <2> QED
      BY <2>3, <2>9, <2>10, <2>11 DEF ComesBack
  <1>2. CASE ~StartsWith(out, "+")
    <2>1. out = addr /\ (addr = <<>> \/ ton # INTERNATIONAL)
      BY <1>2
    <2>2. DestinationAddr(out) = [ton |-> NATIONAL, addr |-> addr]
      BY <1>2, <2>1 DEF DestinationAddr
    <2>3. PICK t \in {NATIONAL, ALPHANUMERIC} : SourceAddr(out) = [ton |-> t, addr |-> addr]
      <3>1. CASE addr # <<>> /\ ~AllDigits(addr)
        BY <1>2, <2>1, <3>1 DEF SourceAddr
      <3>2. CASE ~(addr # <<>> /\ ~AllDigits(addr))
        BY <1>2, <2>1, <3>2 DEF SourceAddr
      <3> QED
        BY <3>1, <3>2
    <2>4. NATIONAL # INTERNATIONAL /\ t # INTERNATIONAL
      BY <2>3 DEF NATIONAL, ALPHANUMERIC, INTERNATIONAL
    <2>5. addr # <<>> => Denotes(ton, addr) = [intl |-> FALSE, number |-> addr]
      BY <1>2, <2>1 DEF Denotes
    <2>6. Octets(addr) \in 0 .. 20
      BY <2>1, OctetsAtLeast, SMTT(30)
    <2>7. Octets(addr) = 0 => addr = <<>>
      BY OctetsAtLeast
    <2>8. SameNumber(addr, ton, DestinationAddr(out)) /\ SameNumber(addr, ton, SourceAddr(out))
      <3>1. CASE addr = <<>>
        BY <2>2, <2>3, <3>1 DEF SameNumber
      <3>2. CASE addr # <<>>
        <4>1. Denotes(ton, addr) = [intl |-> NATIONAL = INTERNATIONAL, number |-> addr]
          BY <2>4, <2>5, <3>2
        <4>2. Denotes(ton, addr) = [intl |-> t = INTERNATIONAL, number |-> addr]
          BY <2>4, <2>5, <3>2
        <4> QED
          BY <2>2, <2>3, <4>1, <4>2 DEF SameNumber
      <3> QED
        BY <3>1, <3>2
    <2> QED
      BY <2>2, <2>3, <2>6, <2>7, <2>8 DEF ComesBack
  <1> QED
    BY <1>1, <1>2

\* An international number that gets its '+'
LEMMA PrefixedComesBack ==
  ASSUME NEW addr \in Seq(Piece), addr # <<>>, Octets(addr) <= 20,
         NEW bare \in Seq(Piece), bare = IF StartsWith(addr, "00") THEN Tail(addr) ELSE addr,
         ~StartsWith(bare, "+"), Octets(addr) >= 7 => AllDigits(addr)
  PROVE  ComesBack(addr, INTERNATIONAL, <<"+">> \o bare)
  <1>1. PICK out \in Seq(Piece) : out = <<"+">> \o bare
    BY PlusFront
  <1>2. /\ out # <<>> /\ StartsWith(out, "+") /\ Tail(out) = bare /\ Octets(out) = 1 + Octets(bare)
        /\ AllDigits(bare) => AllDigits(out)
    BY <1>1, PlusFront
  <1>3. Octets(bare) \in Nat /\ Octets(addr) \in Nat /\ Octets(bare) <= Octets(addr)
    <2>1. Octets(bare) \in Nat
      BY OctetsAtLeast
    <2>2. Octets(addr) \in Nat
      BY OctetsAtLeast
    <2>3. Octets(Tail(addr)) <= Octets(addr)
      BY HeadAndTail
    <2>4. bare = addr \/ bare = Tail(addr)
      OBVIOUS
    <2> QED
      BY <2>1, <2>2, <2>3, <2>4
  <1>4. DestinationAddr(out) = [ton |-> INTERNATIONAL, addr |-> bare]
    BY <1>2 DEF DestinationAddr
  <1>5. AllDigits(addr) => AllDigits(out)
    BY <1>2, DigitsBehind
  <1>6. Denotes(INTERNATIONAL, addr) = [intl |-> TRUE, number |-> bare]
    BY DEF Denotes
  <1>7. Octets(bare) = 0 => bare = <<>>
    <2>1. Octets(bare) >= Len(bare)
      BY OctetsAtLeast
    <2> QED
      BY <2>1
  <1>8. SameNumber(addr, INTERNATIONAL, DestinationAddr(out))
    <2>1. Denotes(INTERNATIONAL, addr) = [intl |-> INTERNATIONAL = INTERNATIONAL, number |-> bare]
      BY <1>6
    <2> QED
      BY <1>4, <2>1 DEF SameNumber
  <1>9. Octets(bare) \in 0 .. 20
    <2>1. PICK m, n \in Nat : m = Octets(bare) /\ n = Octets(addr)
      BY <1>3
    <2>2. m <= n
      BY <1>3, <2>1, Zenon
    <2>3. n <= 20
      BY <2>1, Zenon
    <2>4. m \in 0 .. 20
      BY <2>2, <2>3
    <2> QED
      BY <2>1, <2>4, Zenon
  <1>10. SameNumber(addr, INTERNATIONAL, SourceAddr(out)) /\ Octets(SourceAddr(out).addr) \in 0 .. 20
    <2>1. CASE AllDigits(out)
      <3>1. SourceAddr(out) = [ton |-> INTERNATIONAL, addr |-> bare]
        BY <1>2, <2>1 DEF SourceAddr
      <3> QED
        <4>1. SourceAddr(out) = DestinationAddr(out)
          BY <1>4, <3>1, Zenon
        <4>2. SourceAddr(out).addr = bare
          BY <3>1
        <4>3. Octets(SourceAddr(out).addr) \in 0 .. 20
          BY <1>9, <4>2, Zenon
        <4> QED
          BY <1>8, <4>1, <4>3, Zenon
    <2>2. CASE ~AllDigits(out)
      <3>1. SourceAddr(out) = [ton |-> ALPHANUMERIC, addr |-> out]
        BY <1>2, <2>2 DEF SourceAddr
      <3>2. ~AllDigits(addr)
        BY <1>5, <2>2
      <3>3. Mistyped(INTERNATIONAL, addr)
        BY <3>2 DEF Mistyped
      <3>4. Octets(out) \in 0 .. 20
        <4>1. PICK m, n, k \in Nat : m = Octets(bare) /\ n = Octets(addr) /\ k = Octets(out)
          BY <1>3, OctetsAtLeast
        <4>2. k = 1 + m /\ m <= n
          BY <1>2, <1>3, <4>1, Zenon
        <4>3. ~(n >= 7)
          BY <3>2, <4>1, Zenon
        <4>4. k \in 0 .. 20
          BY <4>2, <4>3
        <4> QED
          BY <4>1, <4>4, Zenon
      <3> QED
        BY <3>1, <3>3, <3>4 DEF SameNumber
    <2> QED
      BY <2>1, <2>2
  <1> QED
    <2>1. DestinationAddr(out).addr = bare /\ Denotes(INTERNATIONAL, addr).number = bare
      BY <1>4, <1>6
    <2>2. ComesBack(addr, INTERNATIONAL, out)
      BY <1>7, <1>8, <1>9, <1>10, <2>1, Zenon DEF ComesBack
    <2> QED
      BY <1>1, <2>2, Zenon

\* Both cases of smpp_pdu_util_convert_addr
LEMMA AddrComesBack ==
  ASSUME NEW addr \in Seq(Piece), Octets(addr) <= 20, NEW ton,
         ConvertAddr(addr, ton).reason = "ROK"
  PROVE  ComesBack(addr, ton, ConvertAddr(addr, ton).addr)
  <1>1. PICK bare \in Seq(Piece) : bare = IF StartsWith(addr, "00") THEN Tail(addr) ELSE addr
    BY HeadTailProperties DEF StartsWith
  <1>2. CASE addr = <<>> \/ ton # INTERNATIONAL
    <2>1. ConvertAddr(addr, ton).addr = addr
      BY <1>2 DEF ConvertAddr
    <2> QED
      BY <1>2, <2>1, KeptComesBack
  <1>3. CASE addr # <<>> /\ ton = INTERNATIONAL
    <2>1. ~(Octets(addr) >= 7 /\ ~AllDigits(addr))
      BY <1>3 DEF ConvertAddr
    <2>2. ConvertAddr(addr, ton).addr = IF StartsWith(bare, "+") THEN bare ELSE <<"+">> \o bare
      BY <1>1, <1>3, <2>1 DEF ConvertAddr
    <2>3. CASE StartsWith(bare, "+")
      <3>1. bare # <<>> /\ Octets(bare) <= 20
        <4>1. Octets(bare) <= Octets(addr) /\ Octets(bare) \in Nat /\ Octets(addr) \in Nat
          <5>1. Octets(bare) \in Nat
            BY OctetsAtLeast
          <5>2. Octets(addr) \in Nat
            BY OctetsAtLeast
          <5>3. Octets(Tail(addr)) <= Octets(addr)
            BY <1>3, HeadAndTail
          <5>4. bare = addr \/ bare = Tail(addr)
            BY <1>1
          <5>5. Octets(addr) <= Octets(addr)
            BY <5>2
          <5> QED
            BY <5>1, <5>2, <5>3, <5>4, <5>5, Zenon
        <4> QED
          BY <2>3, <4>1 DEF StartsWith
      <3>2. ComesBack(addr, ton, bare)
        BY <1>1, <1>3, <2>3, <3>1, KeptComesBack
      <3> QED
        BY <2>2, <2>3, <3>2
    <2>4. CASE ~StartsWith(bare, "+")
      BY <1>1, <1>3, <2>1, <2>2, <2>4, PrefixedComesBack
    <2> QED
      BY <2>3, <2>4
  <1> QED
    BY <1>2, <1>3

-----------------------------------------------------------------------------
(* Everything is the conversion of what was submitted *)

\* A message that is with bearerbox, as it was made
Made(p, e) == MsgSetDlrUrl(SubmitSmToMsg(p, e.version), e.system_id)

\* A report of bearerbox on message m
ReportOn(m, mask, text, expired) ==
  [sender |-> m.sender, receiver |-> m.receiver, dlr_url |-> m.dlr_url,
   mask |-> mask, text |-> text, expired |-> expired]

\* A reply to message m
ReplyTo(m) ==
  [sender |-> m.receiver, receiver |-> m.sender, dlr_url |-> <<>>,
   udhdata |-> m.udhdata, msgdata |-> m.msgdata]

\* Only what was not refused goes on.
PduInv ==
  stage \in {"accepted", "sent", "reported", "replied"} =>
    pdu \in Pdus /\ Refusal(pdu, esme.version) = "ROK"
\* The message is made of the PDU, and gets its DLR-URL when it is sent.
MsgInv ==
  /\ stage = "accepted" => msg = SubmitSmToMsg(pdu, esme.version)
  /\ stage \in {"sent", "reported", "replied"} => msg = Made(pdu, esme)
\* What is handed back is about that message, and the PDUs are made of it.
BackInv ==
  /\ stage = "reported" =>
       /\ \E mask \in Masks, text \in Texts, expired \in BOOLEAN :
            report = ReportOn(msg, mask, text, expired)
       /\ target = GetSystemIdFromDlrUrl(report.dlr_url)
       /\ pdulist = IF target = <<>> THEN <<>> ELSE ReportToPdu(report, esme.version)
  /\ stage = "replied" => report = ReplyTo(msg) /\ pdulist = ReplyToPdu(report)

ConvInv ==
  /\ esme \in [system_id : Account, version : Versions]
  /\ PduInv /\ MsgInv /\ BackInv

\* The conversions are applied in the order of the handlers, to what the
\* handlers before them left.
THEOREM Converted == Spec => []ConvInv
  <1>1. Init => ConvInv
    BY DEF Init, ConvInv, PduInv, MsgInv, BackInv
  <1>2. ConvInv /\ [Next]_vars => ConvInv'
    <2> SUFFICES ASSUME ConvInv, [Next]_vars PROVE ConvInv'
      OBVIOUS
    <2>1. ASSUME NEW p \in Pdus, Submit(p) PROVE ConvInv'
      BY <2>1 DEF ConvInv, PduInv, MsgInv, BackInv, Submit
    <2>2. CASE RoutingDone
      <3>1. stage = "accepted" /\ stage' = "sent" /\ msg' = MsgSetDlrUrl(msg, esme.system_id)
            /\ UNCHANGED <<esme, pdu>>
        BY <2>2 DEF RoutingDone
      <3>2. msg' = Made(pdu, esme)
        BY <3>1 DEF ConvInv, MsgInv, Made
      <3>3. Made(pdu, esme)' = Made(pdu, esme)
        BY <3>1 DEF Made
      <3>4. MsgInv'
        BY <3>1, <3>2, <3>3 DEF MsgInv
      <3>5. PduInv'
        BY <3>1 DEF ConvInv, PduInv
      <3>6. BackInv'
        BY <3>1 DEF BackInv
      <3> QED
        BY <3>1, <3>4, <3>5, <3>6 DEF ConvInv
    <2>3. CASE Reply
      <3>1. stage = "sent" /\ stage' = "replied" /\ report' = ReplyTo(msg)
            /\ pdulist' = ReplyToPdu(report') /\ UNCHANGED <<esme, pdu, msg>>
        BY <2>3 DEF Reply, ReplyTo
      <3>2. Made(pdu, esme)' = Made(pdu, esme)
        BY <3>1 DEF Made
      <3>3. MsgInv'
        BY <3>1, <3>2 DEF ConvInv, MsgInv
      <3>4. PduInv'
        BY <3>1 DEF ConvInv, PduInv
      <3>5. ReplyTo(msg)' = ReplyTo(msg)
        BY <3>1 DEF ReplyTo
      <3>6. BackInv'
        BY <3>1, <3>5 DEF BackInv
      <3> QED
        BY <3>1, <3>3, <3>4, <3>6 DEF ConvInv
    <2>4. CASE Again
      BY <2>4 DEF Again, ConvInv, PduInv, MsgInv, BackInv
    <2>5. ASSUME NEW text \in Texts, NEW mask \in Masks, NEW expired \in BOOLEAN,
                 Report(mask, text, expired)
          PROVE  ConvInv'
      <3>1. /\ stage = "sent" /\ stage' = "reported" /\ UNCHANGED <<esme, pdu, msg>>
            /\ report' = ReportOn(msg, mask, text, expired)
            /\ target' = GetSystemIdFromDlrUrl(report'.dlr_url)
            /\ pdulist' = IF target' = <<>> THEN <<>> ELSE ReportToPdu(report', esme.version)
        BY <2>5 DEF Report, Deliver, ReportOn
      <3>2. Made(pdu, esme)' = Made(pdu, esme)
        BY <3>1 DEF Made
      <3>3. MsgInv'
        BY <3>1, <3>2 DEF ConvInv, MsgInv
      <3>4. PduInv'
        BY <3>1 DEF ConvInv, PduInv
      <3>5. ReportOn(msg, mask, text, expired)' = ReportOn(msg, mask, text, expired)
        BY <3>1 DEF ReportOn
      <3>6. BackInv'
        BY <3>1, <3>5 DEF BackInv
      <3> QED
        BY <3>1, <3>3, <3>4, <3>6 DEF ConvInv
    <2>6. ASSUME NEW text \in Texts, NEW url \in Foreign, ReportForeign(url, text) PROVE ConvInv'
      BY <2>6 DEF ReportForeign, ConvInv, PduInv, MsgInv, BackInv
    <2>7. CASE UNCHANGED vars
      <3>1. UNCHANGED <<stage, esme, pdu, msg, report, target, pdulist>>
        BY <2>7 DEF vars
      <3> QED
        BY <3>1 DEF ConvInv, PduInv, MsgInv, BackInv, Made, ReportOn, ReplyTo
    <2> QED
      BY <2>1, <2>2, <2>3, <2>4, <2>5, <2>6, <2>7 DEF Next
  <1> QED
    BY <1>1, <1>2, PTL DEF Spec

\* What an accepted submission satisfies
LEMMA NotRefused ==
  ASSUME NEW p \in Pdus, NEW v, Refusal(p, v) = "ROK"
  PROVE  /\ ConvertAddr(p.source_addr, p.source_ton).reason = "ROK"
         /\ p.destination_addr # <<>>
         /\ ConvertAddr(p.destination_addr, p.dest_ton).reason = "ROK"
         /\ ~(HasSar(p, v) /\ p.udhi)
         /\ p.udhi => ~(UdhLength(Content(p, v)) > Len(Content(p, v)))
  BY DEF Refusal

\* What the ESME gets in place of the addresses it gave
LEMMA SubmittedComesBack ==
  ASSUME NEW p \in Pdus, NEW v, Refusal(p, v) = "ROK"
  PROVE  /\ ComesBack(p.source_addr, p.source_ton, SubmitSmToMsg(p, v).sender)
         /\ ComesBack(p.destination_addr, p.dest_ton, SubmitSmToMsg(p, v).receiver)
         /\ p.destination_addr # <<>>
  <1>1. /\ ConvertAddr(p.source_addr, p.source_ton).reason = "ROK"
        /\ p.destination_addr # <<>>
        /\ ConvertAddr(p.destination_addr, p.dest_ton).reason = "ROK"
    BY NotRefused
  <1>2. PICK src \in Seq(Piece) : src = p.source_addr /\ Octets(src) <= 20
    BY PduAssumption DEF Piece
  <1>3. PICK dst \in Seq(Piece) : dst = p.destination_addr /\ Octets(dst) <= 20
    BY PduAssumption DEF Piece
  <1>4. ComesBack(src, p.source_ton, ConvertAddr(src, p.source_ton).addr)
    BY <1>1, <1>2, AddrComesBack
  <1>5. ComesBack(dst, p.dest_ton, ConvertAddr(dst, p.dest_ton).addr)
    BY <1>1, <1>3, AddrComesBack
  <1>6. /\ SubmitSmToMsg(p, v).sender = ConvertAddr(p.source_addr, p.source_ton).addr
        /\ SubmitSmToMsg(p, v).receiver = ConvertAddr(p.destination_addr, p.dest_ton).addr
    BY DEF SubmitSmToMsg
  <1> QED
    BY <1>1, <1>2, <1>3, <1>4, <1>5, <1>6

\* The DLR-URL leaves the rest of the message alone.
LEMMA MadeFields ==
  ASSUME NEW p, NEW e
  PROVE  /\ Made(p, e).sender = SubmitSmToMsg(p, e.version).sender
         /\ Made(p, e).receiver = SubmitSmToMsg(p, e.version).receiver
         /\ Made(p, e).udhdata = SubmitSmToMsg(p, e.version).udhdata
         /\ Made(p, e).msgdata = SubmitSmToMsg(p, e.version).msgdata
         /\ Made(p, e).dlr_url = e.system_id \o <<"time", <<"uuid">>>>
  BY DEF Made, MsgSetDlrUrl, SubmitSmToMsg

\* The addresses on the way back, whatever is reported or replied
LEMMA AddressesBack ==
  ConvInv /\ stage \in {"reported", "replied"} =>
    /\ ComesBack(pdu.source_addr, pdu.source_ton, msg.sender)
    /\ ComesBack(pdu.destination_addr, pdu.dest_ton, msg.receiver)
    /\ pdu.destination_addr # <<>>
  <1> SUFFICES ASSUME ConvInv, stage \in {"reported", "replied"}
               PROVE  /\ ComesBack(pdu.source_addr, pdu.source_ton, msg.sender)
                      /\ ComesBack(pdu.destination_addr, pdu.dest_ton, msg.receiver)
                      /\ pdu.destination_addr # <<>>
    OBVIOUS
  <1>1. pdu \in Pdus /\ Refusal(pdu, esme.version) = "ROK"
    BY DEF ConvInv, PduInv
  <1>2. msg = Made(pdu, esme)
    BY DEF ConvInv, MsgInv
  <1>3. PICK v : v = esme.version
    OBVIOUS
  <1>4. /\ ComesBack(pdu.source_addr, pdu.source_ton, SubmitSmToMsg(pdu, v).sender)
        /\ ComesBack(pdu.destination_addr, pdu.dest_ton, SubmitSmToMsg(pdu, v).receiver)
        /\ pdu.destination_addr # <<>>
    BY <1>1, <1>3, SubmittedComesBack
  <1> QED
    BY <1>2, <1>3, <1>4, MadeFields

\* AddressesComeBack: whatever prefixes and type of number an ESME writes its
\* addresses with, convert_addr on the way in and msg_to_pdu on the way out
\* agree on the number, for addresses of any length the PDU can carry.
THEOREM AddressesBackAlways == Spec => []AddressesComeBack
  <1>1. ConvInv => AddressesComeBack
    <2> SUFFICES ASSUME ConvInv, stage \in {"reported", "replied"}, NEW i \in DOMAIN pdulist,
                        pdulist # <<>>
                 PROVE  /\ SameNumber(pdu.destination_addr, pdu.dest_ton, pdulist[i].source)
                        /\ SameNumber(pdu.source_addr, pdu.source_ton, pdulist[i].destination)
      BY DEF AddressesComeBack
    <2>1. /\ ComesBack(pdu.source_addr, pdu.source_ton, msg.sender)
          /\ ComesBack(pdu.destination_addr, pdu.dest_ton, msg.receiver)
      BY AddressesBack
    <2>2. CASE stage = "reported"
      <3>1. pdulist = ReportToPdu(report, esme.version)
        BY <2>2 DEF ConvInv, BackInv
      <3>2. PICK id : pdulist[i] = Receipt(report, id, esme.version)
        BY <3>1 DEF ReportToPdu
      <3>3. report.sender = msg.sender /\ report.receiver = msg.receiver
        BY <2>2 DEF ConvInv, BackInv, ReportOn
      <3>4. /\ pdulist[i].source = DestinationAddr(msg.receiver)
            /\ pdulist[i].destination = SourceAddr(msg.sender)
        BY <3>2, <3>3 DEF Receipt
      <3> QED
        BY <2>1, <3>4 DEF ComesBack
    <2>3. CASE stage = "replied"
      <3>1. pdulist = ReplyToPdu(report) /\ report = ReplyTo(msg)
        BY <2>3 DEF ConvInv, BackInv
      <3>2. PICK part : pdulist[i] = ReplyPart(report, part)
        BY <3>1 DEF ReplyToPdu
      <3>3. report.sender = msg.receiver /\ report.receiver = msg.sender
        BY <3>1 DEF ReplyTo
      <3>4. /\ pdulist[i].source = SourceAddr(msg.receiver)
            /\ pdulist[i].destination = DestinationAddr(msg.sender)
        BY <3>2, <3>3 DEF ReplyPart
      <3> QED
        BY <2>1, <3>4 DEF ComesBack
    <2> QED
      BY <2>2, <2>3
  <1> QED
    BY <1>1, Converted, PTL

\* ReceiptTruthful: in every receipt that is made, of every report.
THEOREM ReceiptsTruthful == Spec => []ReceiptTruthful
  <1>1. ConvInv => ReceiptTruthful
    <2> SUFFICES ASSUME ConvInv, stage = "reported", NEW i \in DOMAIN pdulist, pdulist # <<>>
                 PROVE  /\ pdulist[i].message_state = 2 => report.mask = "SUCCESS"
                        /\ report.mask \in {"FAIL", "SMSC_FAIL"} => pdulist[i].err # 0
                        /\ \A f \in DOMAIN report.text.done :
                             report.text.done[f] > 0 => pdulist[i].done[f] = report.text.done[f]
      BY DEF ReceiptTruthful
    <2>1. pdulist = ReportToPdu(report, esme.version)
      BY DEF ConvInv, BackInv
    <2>2. PICK id : pdulist[i] = Receipt(report, id, esme.version)
      BY <2>1 DEF ReportToPdu
    <2>3. report.mask \in Masks /\ report.text \in Texts
      BY DEF ConvInv, BackInv, ReportOn
    <2>4. pdulist[i].message_state = 2 => report.mask = "SUCCESS"
      <3>1. pdulist[i].message_state
              = IF esme.version <= 51 THEN -1 ELSE IF report.expired THEN 3 ELSE DlrState(report.mask)
        BY <2>2 DEF Receipt
      <3>2. report.mask \in {"UNDEFINED", "NOTHING", "SUCCESS", "BUFFERED", "SMSC_SUCCESS",
                             "FAIL", "SMSC_FAIL"}
        BY <2>3, ReportAssumption
      <3>3. DlrState(report.mask) = 2 => report.mask = "SUCCESS"
        BY <3>2 DEF DlrState
      <3> QED
        BY <3>1, <3>3
    <2>5. report.mask \in {"FAIL", "SMSC_FAIL"} => pdulist[i].err # 0
      BY <2>2 DEF Receipt
    <2>6. ASSUME NEW f \in DOMAIN report.text.done, report.text.done[f] > 0
          PROVE  pdulist[i].done[f] = report.text.done[f]
      <3>1. pdulist[i].done = SmppTimeToCTime(report.text.done)
        BY <2>2 DEF Receipt, ParseDlrShortMessage
      <3>2. f \in DOMAIN Clock
        BY <2>3, <2>6, ReportAssumption
      <3> QED
        BY <2>6, <3>1, <3>2 DEF SmppTimeToCTime
    <2> QED
      BY <2>4, <2>5, <2>6
  <1> QED
    BY <1>1, Converted, PTL

\* The fields of the DLR-URL that set_dlr_url makes
LEMMA UrlFields ==
  ASSUME NEW sid \in Account
  PROVE  LET url == sid \o <<"time", <<"uuid">>>> IN
         /\ Len(url) > 1
         /\ Len(url) = 3 => Len(sid) = 1
         /\ Len(sid) = 1 => Len(url) = 3 /\ <<Head(url)>> = sid /\ url[3] = <<"uuid">>
  <1>1. PICK s \in Seq(STRING) : s = sid /\ s # <<>>
    BY AccountAssumption
  <1>2. PICK end : end = <<"time", <<"uuid">>>>
    OBVIOUS
  <1>3. end \in Seq({"time", <<"uuid">>}) /\ Len(end) = 2 /\ end[2] = <<"uuid">>
    BY <1>2
  <1>4. PICK Field : Field = STRING \cup {"time", <<"uuid">>}
    OBVIOUS
  <1>5. s \in Seq(Field) /\ end \in Seq(Field)
    BY <1>1, <1>3, <1>4
  <1>6. PICK url \in Seq(Field) : url = s \o end
    BY <1>5, ConcatProperties
  <1>7. /\ Len(url) = Len(s) + 2 /\ Len(s) \in Nat /\ Len(s) >= 1
        /\ \A i \in 1 .. Len(s) : url[i] = s[i]
        /\ \A i \in 1 .. 2 : url[Len(s) + i] = end[i]
    <2>1. Len(url) = Len(s) + 2
      <3>1. Len(s \o end) = Len(s) + Len(end)
        BY <1>5, ConcatProperties
      <3>2. Len(end) = 2
        BY <1>3
      <3> QED
        BY <1>6, <3>1, <3>2, Zenon
    <2>2. Len(s) \in Nat /\ Len(s) >= 1
      BY <1>1
    <2>3. \A i \in 1 .. (Len(s) + 2) : url[i] = IF i <= Len(s) THEN s[i] ELSE end[i - Len(s)]
      <3>1. Len(end) = 2
        BY <1>3
      <3>2. \A i \in 1 .. (Len(s) + Len(end)) :
              (s \o end)[i] = IF i <= Len(s) THEN s[i] ELSE end[i - Len(s)]
        BY <1>5, ConcatProperties
      <3> QED
        BY <1>6, <3>1, <3>2
    <2>4. ASSUME NEW i \in 1 .. Len(s) PROVE url[i] = s[i]
      BY <2>2, <2>3
    <2>5. ASSUME NEW i \in 1 .. 2 PROVE url[Len(s) + i] = end[i]
      <3>1. Len(s) + i \in 1 .. (Len(s) + 2) /\ ~(Len(s) + i <= Len(s)) /\ Len(s) + i - Len(s) = i
        BY <2>2
      <3> QED
        BY <2>3, <3>1
    <2> QED
      BY <2>1, <2>2, <2>4, <2>5
  <1>8. Len(s) = 1 => Len(url) = 3 /\ <<Head(url)>> = s /\ url[3] = <<"uuid">>
    <2> SUFFICES ASSUME Len(s) = 1 PROVE Len(url) = 3 /\ <<Head(url)>> = s /\ url[3] = <<"uuid">>
      OBVIOUS
    <2>1. Len(url) = 3 /\ url[1] = s[1] /\ Head(url) = url[1]
      BY <1>7
    <2>2. url[1 + 2] = end[2]
      BY <1>7
    <2>3. s = <<s[1]>>
      BY <1>1
    <2> QED
      BY <1>3, <2>1, <2>2, <2>3
  <1> QED
    BY <1>1, <1>2, <1>6, <1>7, <1>8

\* ReceiptArrives: one receipt with the message's id for every report that can
\* be read, whatever the addresses, unless the system_id has a bar in it; and
\* for system_ids of any shape no receipt for another account.
THEOREM ReceiptsArrive == Spec => []ReceiptArrives
  <1>1. ConvInv => ReceiptArrives
    <2> SUFFICES ASSUME ConvInv, stage = "reported"
                 PROVE  /\ \/ Unreadable(report.text)
                           \/ Denotes(pdu.dest_ton, pdu.destination_addr).number = <<>>
                           \/ Len(esme.system_id) > 1
                           \/ pdulist # <<>> /\ Len(pdulist) = 1 /\ pdulist[1].id = "uuid"
                        /\ pdulist # <<>> => target = esme.system_id
      BY DEF ReceiptArrives
    <2>1. PICK sid \in Account : sid = esme.system_id
      BY DEF ConvInv
    <2>2. PICK url : url = sid \o <<"time", <<"uuid">>>>
      OBVIOUS
    <2>3. /\ Len(url) > 1
          /\ Len(url) = 3 => Len(sid) = 1
          /\ Len(sid) = 1 => Len(url) = 3 /\ <<Head(url)>> = sid /\ url[3] = <<"uuid">>
      BY <2>2, UrlFields
    <2>4. msg = Made(pdu, esme)
      BY DEF ConvInv, MsgInv
    <2>5. msg.dlr_url = url
      BY <2>1, <2>2, <2>4, MadeFields
    <2>6. report.dlr_url = url /\ report.sender = msg.sender /\ report.receiver = msg.receiver
      BY <2>5 DEF ConvInv, BackInv, ReportOn
    <2>7. target = <<Head(url)>>
      BY <2>3, <2>6 DEF ConvInv, BackInv, GetSystemIdFromDlrUrl
    <2>8. pdulist = ReportToPdu(report, esme.version)
      BY <2>7 DEF ConvInv, BackInv
    <2>9. pdulist # <<>> => target = esme.system_id
      <3> SUFFICES ASSUME pdulist # <<>> PROVE target = sid
        BY <2>1
      <3>1. Len(report.dlr_url) = 3
        BY <2>8 DEF ReportToPdu
      <3> QED
        BY <2>3, <2>6, <2>7, <3>1
    <2>10. ASSUME ~Unreadable(report.text), Len(sid) = 1,
                  Denotes(pdu.dest_ton, pdu.destination_addr).number # <<>>
           PROVE  pdulist # <<>> /\ Len(pdulist) = 1 /\ pdulist[1].id = "uuid"
      <3>1. /\ ComesBack(pdu.source_addr, pdu.source_ton, msg.sender)
            /\ ComesBack(pdu.destination_addr, pdu.dest_ton, msg.receiver)
            /\ pdu.destination_addr # <<>>
        BY AddressesBack
      <3>2. ~BadAddresses(report)
        <4>1. PICK m, n \in 0 .. 20 : /\ m = Octets(DestinationAddr(msg.receiver).addr)
                                      /\ n = Octets(SourceAddr(msg.sender).addr)
          BY <3>1 DEF ComesBack
        <4>2. m # 0
          BY <2>10, <3>1, <4>1 DEF ComesBack
        <4>3. ~(m = 0 \/ m > 20 \/ n > 20)
          BY <4>2
        <4> QED
          BY <2>6, <4>1, <4>3, Zenon DEF BadAddresses
      <3>3. url[3] = <<"uuid">> /\ Len(url) = 3
        BY <2>3, <2>10
      <3>4. pdulist = [i \in DOMAIN url[3] |-> Receipt(report, url[3][i], esme.version)]
        BY <2>6, <2>8, <2>10, <3>2, <3>3 DEF ReportToPdu
      <3>5. pdulist = [i \in 1 .. 1 |-> Receipt(report, "uuid", esme.version)]
        BY <3>3, <3>4
      <3>6. Receipt(report, "uuid", esme.version).id = "uuid"
        BY DEF Receipt
      <3>7. pdulist # <<>> /\ Len(pdulist) = 1
        BY <3>5
      <3>8. pdulist[1].id = "uuid"
        BY <3>5, <3>6
      <3> QED
        BY <3>7, <3>8
    <2>11. Len(sid) = 1 \/ Len(sid) > 1
      <3>1. PICK s \in Seq(STRING) : s = sid /\ s # <<>>
        BY AccountAssumption
      <3>2. PICK n \in Nat : n = Len(s) /\ n # 0
        BY <3>1
      <3>3. n = 1 \/ n > 1
        BY <3>2
      <3> QED
        BY <3>1, <3>2, <3>3, Zenon
    <2> QED
      BY <2>1, <2>9, <2>10, <2>11
  <1> QED
    BY <1>1, Converted, PTL

-----------------------------------------------------------------------------
(* Times *)

\* Whole minutes, at least as many as asked for
LEMMA Ceiling ==
  ASSUME NEW s \in Int
  PROVE  CeilingOfMinutes(s) \in Int /\ CeilingOfMinutes(s) * 60 - s \in 0 .. 59
  BY DEF CeilingOfMinutes

\* ValidityKept: for every time, every zone of the ESME and of the server.
THEOREM ValidityIsKept == Spec => []ValidityKept
  <1>1. ConvInv => ValidityKept
    <2> SUFFICES ASSUME ConvInv, stage = "accepted", pdu.type = "submit_sm",
                        pdu.validity.form \in {"+", "-", "R"}, pdu.validity.offset = Zone
                 PROVE  msg.validity - Asked(pdu.validity) \in 0 .. 59
      BY DEF ValidityKept
    <2>1. pdu \in Pdus /\ msg = SubmitSmToMsg(pdu, esme.version)
      BY DEF ConvInv, PduInv, MsgInv
    <2>2. PICK at, quarters \in Int : at = pdu.validity.at /\ quarters = pdu.validity.quarters
      BY <2>1, PduAssumption
    <2>3. PICK now, zone \in Int : now = Now /\ zone = Zone
      BY ClockAssumption
    <2>4. msg.validity = Now + TimestampToMinutes(pdu.validity) * 60
      BY <2>1 DEF SubmitSmToMsg
    <2>5. CASE pdu.validity.form = "+"
      <3>1. PICK s \in Int : s = at - quarters * 900 - zone + zone - now
        OBVIOUS
      <3>2. TimestampToMinutes(pdu.validity) = CeilingOfMinutes(s)
        BY <2>2, <2>3, <2>5, <3>1 DEF TimestampToMinutes
      <3>3. Asked(pdu.validity) = s + now
        BY <2>2, <2>5, <3>1 DEF Asked
      <3> QED
        BY <2>3, <2>4, <3>2, <3>3, Ceiling
    <2>6. CASE pdu.validity.form = "-"
      <3>1. PICK s \in Int : s = at + quarters * 900 - zone + zone - now
        OBVIOUS
      <3>2. TimestampToMinutes(pdu.validity) = CeilingOfMinutes(s)
        BY <2>2, <2>3, <2>6, <3>1 DEF TimestampToMinutes
      <3>3. Asked(pdu.validity) = s + now
        BY <2>2, <2>6, <3>1 DEF Asked
      <3> QED
        BY <2>3, <2>4, <3>2, <3>3, Ceiling
    <2>7. CASE pdu.validity.form = "R"
      <3>1. TimestampToMinutes(pdu.validity) = CeilingOfMinutes(at)
        BY <2>2, <2>7 DEF TimestampToMinutes
      <3>2. Asked(pdu.validity) = at + now
        BY <2>2, <2>3, <2>7 DEF Asked
      <3> QED
        BY <2>3, <2>4, <3>1, <3>2, Ceiling
    <2> QED
      BY <2>5, <2>6, <2>7
  <1> QED
    BY <1>1, Converted, PTL

-----------------------------------------------------------------------------
(* Texts and their headers *)

\* A text is cut into two pieces without loss.
LEMMA CutInTwo ==
  ASSUME NEW S, NEW text \in Seq(S), NEW n \in 0 .. Len(text)
  PROVE  /\ SubSeq(text, 1, n) \in Seq(S) /\ SubSeq(text, n + 1, Len(text)) \in Seq(S)
         /\ Len(SubSeq(text, 1, n)) = n
         /\ \A i \in 1 .. n : SubSeq(text, 1, n)[i] = text[i]
         /\ SubSeq(text, 1, n) \o SubSeq(text, n + 1, Len(text)) = text
  <1>1. PICK len \in Nat : len = Len(text)
    OBVIOUS
  <1>2. n \in Nat /\ n <= len /\ \A i \in 1 .. len : text[i] \in S
    BY <1>1
  <1>3. PICK a : a = SubSeq(text, 1, n)
    OBVIOUS
  <1>4. PICK b : b = SubSeq(text, n + 1, len)
    OBVIOUS
  <1>5. a \in Seq(S) /\ Len(a) = n /\ \A i \in 1 .. n : a[i] = text[i]
    BY <1>1, <1>2, <1>3
  <1>6. b \in Seq(S) /\ Len(b) = len - n /\ \A i \in 1 .. (len - n) : b[i] = text[n + i]
    BY <1>1, <1>2, <1>4
  <1>7. a \o b = text
    <2>1. PICK ab : ab = a \o b
      OBVIOUS
    <2>2. ab \in Seq(S) /\ Len(ab) = len
      <3>1. ab \in Seq(S) /\ Len(ab) = Len(a) + Len(b)
        BY <1>5, <1>6, <2>1, ConcatProperties
      <3>2. Len(a) + Len(b) = len
        BY <1>2, <1>5, <1>6
      <3> QED
        BY <3>1, <3>2, Zenon
    <2>3. ASSUME NEW i \in 1 .. len PROVE ab[i] = text[i]
      <3>1. CASE i <= n
        BY <1>2, <1>5, <1>6, <2>1, <3>1
      <3>2. CASE i > n
        <4>1. PICK j \in 1 .. (len - n) : j = i - n
          BY <1>2, <3>2
        <4>2. ab[i] = b[j]
          BY <1>2, <1>5, <1>6, <2>1, <3>2, <4>1
        <4>3. b[j] = text[n + j] /\ n + j = i
          BY <1>2, <1>6, <4>1
        <4> QED
          BY <4>2, <4>3
      <3> QED
        BY <1>2, <3>1, <3>2
    <2>4. Len(ab) = Len(text) /\ \A i \in 1 .. Len(ab) : ab[i] = text[i]
      BY <1>1, <2>2, <2>3
    <2>5. ab = text
      BY <2>2, <2>4, SeqEqual
    <2> QED
      BY <2>1, <2>5
  <1> QED
    BY <1>1, <1>3, <1>4, <1>5, <1>6, <1>7

\* The header of a part, when there was none before
LEMMA OwnHeader ==
  ASSUME NEW ref \in Int, NEW total \in Int, NEW seq \in Int
  PROVE  LET h == CatenationUdh(<<>>, [ref |-> ref, total |-> total, seq |-> seq]) IN
         h \in Seq(Int) /\ Len(h) = 6 /\ h[1] = 5
  <1>1. CatenationUdh(<<>>, [ref |-> ref, total |-> total, seq |-> seq])
          = <<5>> \o <<>> \o <<0, 3, ref, total, seq>>
    BY DEF CatenationUdh
  <1>2. PICK h : h = <<5>> \o <<>> \o <<0, 3, ref, total, seq>>
    OBVIOUS
  <1>3. h \in Seq(Int) /\ Len(h) = 6 /\ h[1] = 5
    BY <1>2
  <1> QED
    BY <1>1, <1>2, <1>3

\* Only text of seven bits is converted.
LEMMA BinaryNotRecoded ==
  ASSUME NEW dcs, NEW udhi \in BOOLEAN
  PROVE  ComputeInboundDcs(dcs, udhi).coding # "7BIT" => ~ComputeInboundDcs(dcs, udhi).recoded
  BY DEF ComputeInboundDcs

\* The texts of a submission
LEMMA ContentType ==
  ASSUME NEW p \in Pdus, NEW v
  PROVE  Content(p, v) \in Seq(0 .. 255)
  BY PduAssumption DEF Content

\* What a text is cut into
Cut(header, body, text, sar, p, v) ==
  /\ header \o body = (IF HasSar(p, v) THEN CatenationUdh(<<>>, sar) ELSE <<>>) \o text
  /\ header # <<>> => Len(header) = header[1] + 1
  /\ p.udhi /\ text # <<>> => header # <<>>
  /\ header \in Seq(Int) /\ body \in Seq(Int)

\* The header and the body of a message are octets of the submission, and the
\* header has the length it says.
LEMMA SubmittedCut ==
  ASSUME NEW p \in Pdus, NEW v, Refusal(p, v) = "ROK"
  PROVE  Cut(SubmitSmToMsg(p, v).udhdata, SubmitSmToMsg(p, v).msgdata, Content(p, v), p.sar, p, v)
  <1>1. PICK text : text = Content(p, v) /\ text \in Seq(0 .. 255)
    BY ContentType
  <1>2. text \in Seq(Int)
    <2>1. Len(text) \in Nat /\ text \in [1 .. Len(text) -> 0 .. 255]
      BY <1>1, LenProperties, ZenonT(40)
    <2>2. \A c \in 0 .. 255 : c \in Int
      OBVIOUS
    <2>3. text \in [1 .. Len(text) -> Int]
      BY <2>1, <2>2, Zenon
    <2> QED
      BY <2>1, <2>3
  <1>3. ~(HasSar(p, v) /\ p.udhi) /\ (p.udhi => ~(UdhLength(text) > Len(text)))
    BY <1>1, NotRefused
  <1>4. PICK header, body :
          header = SubmitSmToMsg(p, v).udhdata /\ body = SubmitSmToMsg(p, v).msgdata
    OBVIOUS
  <1>5. /\ header = Header(p, v)
        /\ body = IF p.udhi THEN SubSeq(text, UdhLength(text) + 1, Len(text)) ELSE text
    BY <1>1, <1>4 DEF SubmitSmToMsg
  <1>6. p.udhi \in BOOLEAN
    BY PduAssumption
  <1> SUFFICES Cut(header, body, text, p.sar, p, v)
    BY <1>1, <1>4
  <1>7. CASE p.udhi
    <2>1. PICK n : n = UdhLength(text)
      OBVIOUS
    <2>2. /\ n \in Int /\ ~(n > Len(text)) /\ n >= 0
          /\ text # <<>> => n = text[1] + 1 /\ n >= 1
      <3>1. CASE text = <<>>
        BY <1>3, <1>7, <2>1, <3>1 DEF UdhLength
      <3>2. CASE text # <<>>
        <4>1. PICK c \in 0 .. 255 : c = text[1] /\ c = Head(text)
          <5>1. Len(text) \in Nat /\ Len(text) # 0
            BY <1>1, <3>2
          <5>2. 1 \in 1 .. Len(text)
            BY <5>1
          <5>3. Head(text) = text[1]
            BY <1>1, <3>2, HeadTailProperties
          <5>4. text[1] \in 0 .. 255
            BY <1>1, <5>2, ElementOfSeq
          <5> QED
            BY <5>3, <5>4
        <4>2. n = c + 1
          BY <2>1, <3>2, <4>1 DEF UdhLength
        <4>3. ~(n > Len(text))
          BY <1>3, <1>7, <2>1, Zenon
        <4>4. n \in Int /\ n >= 0 /\ n >= 1
          BY <4>1, <4>2
        <4> QED
          BY <4>1, <4>2, <4>3, <4>4, Zenon
      <3> QED
        BY <3>1, <3>2
    <2>3. n \in 0 .. Len(text)
      BY <1>2, <2>2
    <2>4. header = SubSeq(text, 1, n) /\ body = SubSeq(text, n + 1, Len(text))
      BY <1>1, <1>5, <1>7, <2>1 DEF Header
    <2>5. /\ Len(header) = n /\ \A i \in 1 .. n : header[i] = text[i]
          /\ header \o body = text /\ header \in Seq(Int) /\ body \in Seq(Int)
      <3>1. ASSUME NEW t \in Seq(Int), NEW k \in 0 .. Len(t)
            PROVE  /\ Len(SubSeq(t, 1, k)) = k
                   /\ \A i \in 1 .. k : SubSeq(t, 1, k)[i] = t[i]
                   /\ SubSeq(t, 1, k) \o SubSeq(t, k + 1, Len(t)) = t
                   /\ SubSeq(t, 1, k) \in Seq(Int) /\ SubSeq(t, k + 1, Len(t)) \in Seq(Int)
        BY CutInTwo, Zenon
      <3> QED
        BY <1>2, <2>3, <2>4, <3>1, Zenon
    <2>6. ~HasSar(p, v) /\ <<>> \o text = text
      BY <1>2, <1>3, <1>7
    <2>7. header # <<>> => Len(header) = header[1] + 1
      <3> SUFFICES ASSUME header # <<>> PROVE Len(header) = header[1] + 1
        OBVIOUS
      <3>1. text # <<>>
        <4>1. text = <<>> => SubSeq(text, 1, n) = <<>>
          BY <2>3
        <4> QED
          BY <2>4, <4>1
      <3> QED
        BY <2>2, <2>5, <3>1
    <2>8. text # <<>> => header # <<>>
      BY <2>2, <2>5
    <2> QED
      BY <2>5, <2>6, <2>7, <2>8 DEF Cut
  <1>8. CASE ~p.udhi /\ HasSar(p, v)
    <2>1. PICK ref, total, seq \in Int : p.sar = [ref |-> ref, total |-> total, seq |-> seq]
      BY PduAssumption
    <2>2. header = CatenationUdh(<<>>, p.sar) /\ body = text
      BY <1>5, <1>8 DEF Header
    <2>3. header \in Seq(Int) /\ Len(header) = 6 /\ header[1] = 5
      BY <2>1, <2>2, OwnHeader
    <2>4. Len(header) = header[1] + 1
      BY <2>3
    <2> QED
      BY <1>2, <1>8, <2>2, <2>3, <2>4, Zenon DEF Cut
  <1>9. CASE ~p.udhi /\ ~HasSar(p, v)
    <2>1. header = <<>> /\ body = text
      BY <1>5, <1>9 DEF Header
    <2> QED
      BY <1>2, <1>9, <2>1 DEF Cut
  <1> QED
    BY <1>6, <1>7, <1>8, <1>9

\* ContentKept: for texts of any length and headers of any length.
THEOREM ContentIsKept == Spec => []ContentKept
  <1>1. ConvInv => ContentKept
    <2> SUFFICES ASSUME ConvInv, stage = "accepted" PROVE ContentKept
      BY DEF ContentKept
    <2>1. PICK p \in Pdus : p = pdu
      BY DEF ConvInv, PduInv
    <2>2. PICK v : v = esme.version
      OBVIOUS
    <2>3. Refusal(p, v) = "ROK" /\ msg = SubmitSmToMsg(p, v)
      BY <2>1, <2>2 DEF ConvInv, PduInv, MsgInv
    <2>4. Cut(msg.udhdata, msg.msgdata, Content(p, v), p.sar, p, v)
      BY <2>3, SubmittedCut
    <2>5. msg.dcs.coding # "7BIT" => ~msg.dcs.recoded
      <3>1. msg.dcs = ComputeInboundDcs(p.data_coding, p.udhi)
        BY <2>3 DEF SubmitSmToMsg
      <3>2. p.udhi \in BOOLEAN
        BY PduAssumption
      <3> QED
        BY <3>1, <3>2, BinaryNotRecoded
    <2> QED
      BY <2>1, <2>2, <2>4, <2>5 DEF ContentKept, Cut
  <1> QED
    BY <1>1, Converted, PTL

-----------------------------------------------------------------------------
(* A reply in parts *)

\* Pieces that follow each other make a longer one.
LEMMA JoinPieces ==
  ASSUME NEW S, NEW d \in Seq(S), NEW a \in Nat, NEW b \in Nat, a <= b, b <= Len(d)
  PROVE  SubSeq(d, 1, a) \o SubSeq(d, a + 1, b) = SubSeq(d, 1, b)
  <1>1. PICK len \in Nat : len = Len(d)
    OBVIOUS
  <1>2. b <= len /\ \A i \in 1 .. len : d[i] \in S
    BY <1>1
  <1>3. PICK x : x = SubSeq(d, 1, a)
    OBVIOUS
  <1>4. PICK y : y = SubSeq(d, a + 1, b)
    OBVIOUS
  <1>5. PICK z : z = SubSeq(d, 1, b)
    OBVIOUS
  <1>6. x \in Seq(S) /\ Len(x) = a /\ \A i \in 1 .. a : x[i] = d[i]
    BY <1>1, <1>2, <1>3
  <1>7. y \in Seq(S) /\ Len(y) = b - a /\ \A i \in 1 .. (b - a) : y[i] = d[a + i]
    BY <1>1, <1>2, <1>4
  <1>8. z \in Seq(S) /\ Len(z) = b /\ \A i \in 1 .. b : z[i] = d[i]
    BY <1>1, <1>2, <1>5
  <1>9. PICK xy : xy = x \o y
    OBVIOUS
  <1>10. xy \in Seq(S) /\ Len(xy) = b
    <2>1. xy \in Seq(S) /\ Len(xy) = Len(x) + Len(y)
      BY <1>6, <1>7, <1>9, ConcatProperties
    <2>2. Len(x) + Len(y) = b
      BY <1>6, <1>7
    <2> QED
      BY <2>1, <2>2, Zenon
  <1>11. ASSUME NEW i \in 1 .. b PROVE xy[i] = z[i]
    <2>1. CASE i <= a
      <3>1. i \in 1 .. a
        BY <2>1
      <3>2. xy[i] = x[i]
        BY <1>6, <1>7, <1>9, <3>1
      <3> QED
        BY <1>6, <1>8, <3>1, <3>2
    <2>2. CASE i > a
      <3>1. PICK j \in 1 .. (b - a) : j = i - a
        BY <2>2
      <3>2. xy[i] = y[j]
        BY <1>6, <1>7, <1>9, <2>2, <3>1
      <3>3. y[j] = d[a + j] /\ a + j = i
        BY <1>7, <3>1
      <3> QED
        BY <1>8, <3>2, <3>3
    <2> QED
      BY <2>1, <2>2
  <1>12. Len(xy) = Len(z) /\ \A i \in 1 .. Len(xy) : xy[i] = z[i]
    BY <1>8, <1>10, <1>11
  <1>13. xy = z
    BY <1>8, <1>10, <1>12, SeqEqual
  <1> QED
    BY <1>3, <1>4, <1>5, <1>9, <1>13

\* f joins the first n of some pieces.
Joins(f, pieces, n) ==
  f = [i \in 1 .. n |-> IF i = 1 THEN pieces[i] ELSE f[i - 1] \o pieces[i]]

\* pre has the beginnings of the whole, each the one before it and a piece.
Beginnings(pre, pieces, n) ==
  pre[1] = pieces[1] /\ \A i \in 2 .. n : pre[i] = pre[i - 1] \o pieces[i]

\* Flattening gives the last of the beginnings.
LEMMA FlattenBeginnings ==
  ASSUME NEW n \in Nat, n >= 1, NEW pieces, Len(pieces) = n, NEW pre, Beginnings(pre, pieces, n)
  PROVE  FlattenSeq(pieces) = pre[n]
  <1> USE DEF Beginnings
  <1> DEFINE F == CHOOSE f : Joins(f, pieces, n)
  <1>1. \E f : Joins(f, pieces, n)
    <2>1. PICK f : f = [i \in 1 .. n |-> pre[i]]
      OBVIOUS
    <2>2. ASSUME NEW i \in 1 .. n
          PROVE  f[i] = IF i = 1 THEN pieces[i] ELSE f[i - 1] \o pieces[i]
      <3>1. CASE i = 1
        BY <2>1, <3>1
      <3>2. CASE i # 1
        <4>1. i \in 2 .. n /\ i - 1 \in 1 .. n
          BY <3>2
        <4>2. f[i] = pre[i] /\ f[i - 1] = pre[i - 1]
          BY <2>1, <4>1
        <4>3. pre[i] = pre[i - 1] \o pieces[i]
          BY <4>1
        <4> QED
          BY <3>2, <4>2, <4>3
      <3> QED
        BY <3>1, <3>2
    <2>3. DOMAIN f = 1 .. n /\ f = [i \in 1 .. n |-> f[i]]
      BY <2>1
    <2>4. Joins(f, pieces, n)
      BY <2>2, <2>3 DEF Joins
    <2> QED
      BY <2>4
  <1>2. Joins(F, pieces, n)
    BY <1>1
  <1>3. FlattenSeq(pieces) = F[n]
    BY DEF FlattenSeq, Joins
  <1> HIDE DEF F
  <1>4. PICK f : f = F
    OBVIOUS
  <1>5. /\ f[1] = pieces[1]
        /\ \A i \in 1 .. n : i # 1 => f[i] = f[i - 1] \o pieces[i]
    <2>1. f = [i \in 1 .. n |-> IF i = 1 THEN pieces[i] ELSE f[i - 1] \o pieces[i]]
      BY <1>2, <1>4, Zenon DEF Joins
    <2>2. 1 \in 1 .. n
      OBVIOUS
    <2>3. \A i \in 1 .. n : f[i] = IF i = 1 THEN pieces[i] ELSE f[i - 1] \o pieces[i]
      BY <2>1, Zenon
    <2>4. f[1] = pieces[1]
      BY <2>2, <2>3, Zenon
    <2> QED
      BY <2>3, <2>4, Zenon
  <1> DEFINE Good == {i \in 0 .. n : i >= 1 => f[i] = pre[i]}
  <1>6. 0 \in Good
    OBVIOUS
  <1>7. ASSUME NEW i \in 0 .. n, i \in Good, i < n PROVE i + 1 \in Good
    <2>1. CASE i = 0
      BY <1>5, <2>1
    <2>2. CASE i # 0
      <3>1. PICK j \in 2 .. n : j = i + 1 /\ i = j - 1
        BY <1>7, <2>2
      <3>2. f[j - 1] = pre[j - 1]
        BY <1>7, <2>2, <3>1
      <3>3. pre[j] = pre[j - 1] \o pieces[j]
        OBVIOUS
      <3>4. f[j] = f[j - 1] \o pieces[j]
        <4>1. j \in 1 .. n /\ j # 1
          BY <3>1
        <4> QED
          BY <1>5, <4>1
      <3>5. f[j] = pre[j]
        BY <3>2, <3>3, <3>4, Zenon
      <3> QED
        BY <3>1, <3>5
    <2> QED
      BY <2>1, <2>2
  <1>8. \A i \in 0 .. n : i \in Good
    <2> HIDE DEF Good
    <2> QED
      BY <1>6, <1>7, UpTo
  <1> QED
    BY <1>3, <1>4, <1>8

\* The pieces of a text, cut at the places cut[0], cut[1], ..., cut[n]
Pieces(pieces, d, cut, n) ==
  /\ \A i \in 0 .. n : cut[i] \in Nat /\ cut[i] <= Len(d)
  /\ cut[0] = 0 /\ cut[n] = Len(d) /\ \A i \in 1 .. n : cut[i - 1] <= cut[i]
  /\ Len(pieces) = n /\ \A i \in 1 .. n : pieces[i] = SubSeq(d, cut[i - 1] + 1, cut[i])

\* Together they are the text.
LEMMA FlattenCut ==
  ASSUME NEW S, NEW d \in Seq(S), NEW n \in Nat, n >= 1, NEW cut, NEW pieces,
         Pieces(pieces, d, cut, n)
  PROVE  FlattenSeq(pieces) = d
  <1> USE DEF Pieces
  <1>1. PICK pre : pre = [i \in 0 .. n |-> SubSeq(d, 1, cut[i])]
    OBVIOUS
  <1>2. ASSUME NEW i \in 1 .. n PROVE pre[i] = pre[i - 1] \o pieces[i]
    <2>1. i \in 0 .. n /\ i - 1 \in 0 .. n
      OBVIOUS
    <2>2. PICK a \in Nat : a = cut[i - 1]
      BY <2>1
    <2>3. PICK b \in Nat : b = cut[i]
      BY <2>1
    <2>4. a <= b /\ b <= Len(d)
      BY <2>1, <2>2, <2>3
    <2>5. SubSeq(d, 1, a) \o SubSeq(d, a + 1, b) = SubSeq(d, 1, b)
      BY <2>4, JoinPieces
    <2>6. pieces[i] = SubSeq(d, a + 1, b)
      BY <2>2, <2>3, Zenon
    <2>7. pre[i] = SubSeq(d, 1, b) /\ pre[i - 1] = SubSeq(d, 1, a)
      BY <1>1, <2>1, <2>2, <2>3, Zenon
    <2> QED
      BY <2>5, <2>6, <2>7, Zenon
  <1>3. pre[1] = pieces[1]
    <2>1. 1 \in 1 .. n /\ 1 - 1 = 0 /\ 0 + 1 = 1
      OBVIOUS
    <2>2. pieces[1] = SubSeq(d, 0 + 1, cut[1])
      BY <2>1
    <2>3. pre[1] = SubSeq(d, 1, cut[1])
      BY <1>1, <2>1
    <2> QED
      BY <2>1, <2>2, <2>3, Zenon
  <1>4. pre[n] = d
    <2>1. pre[n] = SubSeq(d, 1, cut[n])
      BY <1>1
    <2>2. SubSeq(d, 1, Len(d)) = d
      OBVIOUS
    <2> QED
      BY <2>1, <2>2, Zenon
  <1>5. \A i \in 2 .. n : pre[i] = pre[i - 1] \o pieces[i]
    <2>1. \A i \in 2 .. n : i \in 1 .. n
      OBVIOUS
    <2> QED
      BY <1>2, <2>1, Zenon
  <1>6. FlattenSeq(pieces) = pre[n]
    <2>1. n >= 1 /\ Len(pieces) = n
      OBVIOUS
    <2>2. Beginnings(pre, pieces, n)
      BY <1>3, <1>5, Zenon DEF Beginnings
    <2> QED
      BY <2>1, <2>2, FlattenBeginnings
  <1> QED
    BY <1>4, <1>6, Zenon

\* A header is empty or as long as its first octet says.
Sound(header) ==
  header \in Seq(Int) /\ (header # <<>> => Len(header) = header[1] + 1)

\* An element that is added to a sound header leaves it sound.
LEMMA JoinedHeader ==
  ASSUME NEW udh, Sound(udh), NEW ref \in Int, NEW total \in Int, NEW seq \in Int
  PROVE  LET h == CatenationUdh(udh, [ref |-> ref, total |-> total, seq |-> seq]) IN
         Sound(h) /\ h # <<>>
  <1>1. CASE udh = <<>>
    <2>1. PICK h : h = CatenationUdh(<<>>, [ref |-> ref, total |-> total, seq |-> seq])
      OBVIOUS
    <2>2. h \in Seq(Int) /\ Len(h) = 6 /\ h[1] = 5
      BY <2>1, OwnHeader
    <2>3. h # <<>> /\ Len(h) = h[1] + 1
      <3>1. Len(h) # 0 /\ 6 = 5 + 1
        BY <2>2
      <3>2. h # <<>>
        BY <3>1
      <3> QED
        BY <2>2, <3>1, <3>2, Zenon
    <2> QED
      BY <1>1, <2>1, <2>2, <2>3 DEF Sound
  <1>2. CASE udh # <<>>
    <2>1. udh \in Seq(Int) /\ Len(udh) = udh[1] + 1
      BY <1>2 DEF Sound
    <2>2. PICK c \in Int : c = Head(udh) /\ c = udh[1]
      BY <1>2, <2>1, HeadTailProperties
    <2>3. PICK rest \in Seq(Int) : rest = Tail(udh) /\ Len(rest) = Len(udh) - 1
      BY <1>2, <2>1, HeadTailProperties
    <2>4. PICK end : end = <<0, 3, ref, total, seq>>
      OBVIOUS
    <2>5. end \in Seq(Int) /\ Len(end) = 5
      BY <2>4
    <2>6. PICK front \in Seq(Int) : front = <<c + 5>> \o rest /\ Len(front) = 1 + Len(rest)
                                    /\ front[1] = c + 5
      <3>1. PICK f : f = <<c + 5>> \o rest
        OBVIOUS
      <3>2. f \in Seq(Int) /\ Len(f) = 1 + Len(rest) /\ f[1] = c + 5
        BY <3>1
      <3> QED
        BY <3>1, <3>2
    <2>7. PICK h \in Seq(Int) : h = front \o end /\ Len(h) = Len(front) + 5
      <3>1. PICK f : f = front \o end
        OBVIOUS
      <3>2. f \in Seq(Int) /\ Len(f) = Len(front) + Len(end)
        BY <2>5, <3>1, ConcatProperties
      <3>3. Len(f) = Len(front) + 5
        BY <2>5, <3>2, Zenon
      <3> QED
        BY <3>1, <3>2, <3>3, Zenon
    <2>8. h[1] = front[1]
      <3>1. Len(front) \in Nat /\ Len(front) >= 1
        BY <2>3, <2>6
      <3> QED
        BY <2>5, <2>7, <3>1
    <2>9. Len(h) = h[1] + 1 /\ h # <<>>
      <3>1. Len(h) = c + 6
        <4>1. PICK a, b \in Nat : a = Len(udh) /\ b = Len(rest)
          BY <2>1
        <4>2. a = c + 1 /\ b = a - 1
          BY <2>1, <2>2, <2>3, <4>1, Zenon
        <4>3. Len(h) = (1 + b) + 5
          BY <2>6, <2>7, <4>1, Zenon
        <4>4. (1 + b) + 5 = c + 6
          BY <4>2
        <4> QED
          BY <4>3, <4>4, Zenon
      <3>2. h[1] = c + 5
        BY <2>6, <2>8
      <3>3. Len(h) # 0
        BY <2>3, <2>6, <2>7
      <3> QED
        BY <3>1, <3>2, <3>3
    <2>10. CatenationUdh(udh, [ref |-> ref, total |-> total, seq |-> seq]) = h
      BY <1>2, <2>2, <2>3, <2>4, <2>6, <2>7 DEF CatenationUdh
    <2> QED
      BY <2>9, <2>10 DEF Sound
  <1> QED
    BY <1>1, <1>2

\* What is behind a sound header is found by its first octet.
LEMMA BehindHeader ==
  ASSUME NEW h, Sound(h), h # <<>>, NEW body \in Seq(Int), NEW s, s = h \o body
  PROVE  Len(s) > s[1] /\ SubSeq(s, s[1] + 2, Len(s)) = body
  <1>1. PICK k \in Nat : k = Len(h) /\ k >= 1
    BY DEF Sound
  <1>2. PICK n \in Nat : n = Len(body)
    OBVIOUS
  <1>3. s \in Seq(Int) /\ Len(s) = k + n
    <2>1. s \in Seq(Int) /\ Len(s) = Len(h) + Len(body)
      BY ConcatProperties DEF Sound
    <2> QED
      BY <1>1, <1>2, <2>1
  <1>4. /\ \A i \in 1 .. k : s[i] = h[i]
        /\ \A i \in 1 .. n : s[k + i] = body[i]
    BY <1>1, <1>2 DEF Sound
  <1>5. h[1] = k - 1
    <2>1. Len(h) = h[1] + 1 /\ h[1] \in Int
      <3>1. 1 \in 1 .. Len(h)
        BY <1>1
      <3> QED
        BY <3>1, ElementOfSeq DEF Sound
    <2> QED
      BY <1>1, <2>1
  <1>6. s[1] = k - 1
    <2>1. 1 \in 1 .. k
      BY <1>1
    <2> QED
      BY <1>4, <1>5, <2>1
  <1>7. Len(s) > s[1]
    BY <1>3, <1>6
  <1>8. PICK t : t = SubSeq(s, k + 1, k + n)
    OBVIOUS
  <1>9. t \in Seq(Int) /\ Len(t) = n /\ \A i \in 1 .. n : t[i] = s[k + i]
    <2>1. \A i \in (k + 1) .. (k + n) : s[i] \in Int
      BY <1>3
    <2> QED
      BY <1>1, <1>2, <1>3, <1>8, <2>1, SMTT(30)
  <1>10. Len(t) = Len(body) /\ \A i \in 1 .. Len(t) : t[i] = body[i]
    BY <1>2, <1>4, <1>9
  <1>11. t = body
    BY <1>9, <1>10, SeqEqual
  <1>12. s[1] + 2 = k + 1
    BY <1>6
  <1> QED
    BY <1>3, <1>7, <1>8, <1>11, <1>12, Zenon

\* The smaller of two numbers
LEMMA MinOfTwo ==
  ASSUME NEW a \in Int, NEW b \in Int
  PROVE  Min({a, b}) = IF a <= b THEN a ELSE b
  <1>1. \A x \in {a, b} : (\A y \in {a, b} : x <= y) <=> x = (IF a <= b THEN a ELSE b)
    OBVIOUS
  <1> QED
    BY <1>1 DEF Min

\* How many parts: as few as hold everything
LEMMA PartsEnough ==
  ASSUME NEW len \in Nat, NEW size \in Nat, size >= 1, NEW n, n = (len + size - 1) \div size
  PROVE  n \in Nat /\ n * size >= len /\ (n - 1) * size <= len
  <1>1. PICK x \in Nat : x = len + size - 1
    OBVIOUS
  <1>2. n = x \div size
    BY <1>1
  <1>3. n \in Nat /\ n * size <= x /\ x < n * size + size
    BY <1>2
  <1>4. (n - 1) * size = n * size - size
    BY <1>3
  <1>5. n * size \in Nat
    BY <1>3
  <1> QED
    BY <1>1, <1>3, <1>4, <1>5

\* What an ESME takes for the text of a deliver_sm
Body(x) ==
  LET s == x.short_message IN IF x.udhi THEN SubSeq(s, s[1] + 2, Len(s)) ELSE s

\* It is the text of the part.
LEMMA PartBody ==
  ASSUME NEW m, NEW header, Sound(header), NEW body \in Seq(Int), NEW x,
         x = ReplyPart(m, [udhdata |-> header, msgdata |-> body])
  PROVE  Body(x) = body /\ (x.udhi => Len(x.short_message) > x.short_message[1])
  <1>1. (x.udhi <=> header # <<>>) /\ x.short_message = header \o body
    BY DEF ReplyPart
  <1>2. PICK s : s = header \o body
    OBVIOUS
  <1>3. CASE header = <<>>
    <2>1. s = body
      BY <1>2, <1>3
    <2> QED
      BY <1>1, <1>2, <1>3, <2>1 DEF Body
  <1>4. CASE header # <<>>
    <2>1. Len(s) > s[1] /\ SubSeq(s, s[1] + 2, Len(s)) = body
      BY <1>2, <1>4, BehindHeader
    <2>2. x.udhi /\ x.short_message = s
      BY <1>1, <1>2, <1>4
    <2>3. Body(x) = SubSeq(s, s[1] + 2, Len(s))
      BY <2>2 DEF Body
    <2> QED
      BY <2>1, <2>2, <2>3, Zenon
  <1> QED
    BY <1>3, <1>4

\* The places at which sms_split cuts a text of len octets in n parts
Places(cut, len, size, n) ==
  /\ \A i \in 0 .. n : cut[i] \in Nat /\ cut[i] <= len
  /\ cut[0] = 0 /\ cut[n] = len
  /\ \A i \in 1 .. n : /\ cut[i - 1] = (i - 1) * size /\ cut[i - 1] <= cut[i]
                       /\ cut[i] = Min({i * size, len})

\* There are such places when the parts are enough and none is empty.
LEMMA CutPlaces ==
  ASSUME NEW len \in Nat, NEW size \in Nat, size >= 1, NEW n \in Nat, n >= 1,
         n * size >= len, (n - 1) * size <= len
  PROVE  \E cut : Places(cut, len, size, n)
  <1>0. PICK cut : cut = [i \in 0 .. n |-> IF i * size <= len THEN i * size ELSE len]
    OBVIOUS
  <1>1. ASSUME NEW i \in 0 .. n PROVE i * size \in Nat
    OBVIOUS
  <1>2. ASSUME NEW i \in 0 .. n
        PROVE  cut[i] \in Nat /\ cut[i] <= len /\ cut[i] = Min({i * size, len})
    <2>1. PICK a \in Nat : a = i * size
      BY <1>1
    <2>2. cut[i] = IF a <= len THEN a ELSE len
      BY <1>0, <2>1
    <2>3. Min({a, len}) = IF a <= len THEN a ELSE len
      BY MinOfTwo
    <2>4. cut[i] = Min({i * size, len})
      BY <2>1, <2>2, <2>3, Zenon
    <2> QED
      BY <2>2, <2>4
  <1>3. cut[0] = 0 /\ cut[n] = len
    <2>1. 0 \in 0 .. n /\ n \in 0 .. n /\ 0 * size = 0
      OBVIOUS
    <2>2. PICK a \in Nat : a = n * size
      BY <1>1, <2>1
    <2>3. cut[n] = IF a <= len THEN a ELSE len
      BY <1>0, <2>1, <2>2
    <2>4. a >= len
      BY <2>2, Zenon
    <2>5. cut[0] = 0
      BY <1>0, <2>1
    <2> QED
      BY <2>3, <2>4, <2>5
  <1>4. ASSUME NEW i \in 1 .. n PROVE cut[i - 1] = (i - 1) * size /\ cut[i - 1] <= cut[i]
    <2>1. PICK j \in 0 .. n : j = i - 1 /\ j <= n - 1
      OBVIOUS
    <2>2. j * size <= (n - 1) * size
      <3>1. PICK k \in Nat : k = n - 1 - j
        BY <2>1
      <3>2. k * size \in Nat
        OBVIOUS
      <3>3. (n - 1) * size = j * size + k * size
        BY <2>1, <3>1
      <3> QED
        BY <1>1, <2>1, <3>2, <3>3
    <2>3. j * size <= len
      <3>1. PICK a, b \in Int : a = j * size /\ b = (n - 1) * size
        BY <1>1
      <3>2. a <= b /\ b <= len
        BY <2>2, <3>1, Zenon
      <3> QED
        BY <3>1, <3>2
    <2>4. cut[j] = j * size
      BY <1>0, <2>3
    <2>5. i * size = j * size + size
      BY <2>1
    <2>6. PICK a \in Nat : a = j * size /\ i * size = a + size /\ a <= len
      BY <1>1, <2>3, <2>5
    <2>7. cut[i] = IF a + size <= len THEN a + size ELSE len
      BY <1>0, <2>6
    <2>8. a <= cut[i]
      BY <2>6, <2>7
    <2> QED
      BY <2>1, <2>4, <2>6, <2>8, Zenon
  <1>5. \A i \in 1 .. n : i \in 0 .. n
    OBVIOUS
  <1> QED
    BY <1>2, <1>3, <1>4, <1>5, Zenon DEF Places

\* A reply, whole or in parts: each PDU is sound and the bodies make the text.
LEMMA ReplyInParts ==
  ASSUME NEW m, Sound(m.udhdata), m.msgdata \in Seq(Int),
         NEW list, list = ReplyToPdu(m), list # <<>>
  PROVE  /\ \A i \in DOMAIN list :
              list[i].udhi => Len(list[i].short_message) > list[i].short_message[1]
         /\ FlattenSeq([i \in DOMAIN list |-> Body(list[i])]) = m.msgdata
  <1>1. PICK udh : udh = m.udhdata /\ Sound(udh)
    OBVIOUS
  <1>2. PICK d \in Seq(Int) : d = m.msgdata
    OBVIOUS
  <1>3. PICK len \in Nat : len = Len(d)
    OBVIOUS
  <1>4. PICK size \in Nat : size = PartSize /\ size >= 1
    BY ClockAssumption
  <1>5. PICK n : n = (len + size - 1) \div size
    OBVIOUS
  <1>6. n \in Nat /\ n * size >= len /\ (n - 1) * size <= len
    BY <1>4, <1>5, PartsEnough
  <1>7. PICK parts : parts = SmsSplit(m)
    OBVIOUS
  <1>8. list = [i \in DOMAIN parts |-> ReplyPart(m, parts[i])]
    BY <1>7 DEF ReplyToPdu
  <1>9. PICK bodies : bodies = [i \in DOMAIN list |-> Body(list[i])]
    OBVIOUS
  <1>10. CASE n <= 1
    <2>1. parts = <<[udhdata |-> udh, msgdata |-> d]>>
      BY <1>1, <1>2, <1>3, <1>4, <1>5, <1>7, <1>10 DEF SmsSplit
    <2>2. PICK x : x = ReplyPart(m, [udhdata |-> udh, msgdata |-> d])
      OBVIOUS
    <2>3. Body(x) = d /\ (x.udhi => Len(x.short_message) > x.short_message[1])
      BY <1>1, <2>2, PartBody
    <2>4. list = [i \in 1 .. 1 |-> x]
      BY <1>8, <2>1, <2>2
    <2>5. bodies = [i \in 1 .. 1 |-> d]
      BY <1>9, <2>3, <2>4
    <2>6. Len(bodies) = 1 /\ bodies[1] = d /\ Beginnings(bodies, bodies, 1)
      BY <2>5 DEF Beginnings
    <2>7. FlattenSeq(bodies) = d
      <3>1. PICK one \in Nat : one = 1 /\ one >= 1
        OBVIOUS
      <3>2. Len(bodies) = one /\ Beginnings(bodies, bodies, one)
        BY <2>6, <3>1, Zenon
      <3>3. FlattenSeq(bodies) = bodies[one]
        BY <3>1, <3>2, FlattenBeginnings
      <3> QED
        BY <2>6, <3>1, <3>3, Zenon
    <2>8. \A i \in DOMAIN list : list[i] = x
      BY <2>4
    <2> QED
      BY <1>2, <1>9, <2>3, <2>7, <2>8, Zenon
  <1>11. CASE ~(n <= 1)
    <2> DEFINE Part(i) ==
          [udhdata |-> CatenationUdh(udh, [ref |-> 0, total |-> n, seq |-> i]),
           msgdata |-> SubSeq(d, (i - 1) * size + 1, Min({i * size, len}))]
    <2>1. parts = [i \in 1 .. n |-> Part(i)]
      BY <1>1, <1>2, <1>3, <1>4, <1>5, <1>7, <1>11 DEF SmsSplit
    <2>2. n >= 1
      BY <1>6, <1>11
    <2>3. PICK cut : Places(cut, len, size, n)
      BY <1>4, <1>6, <2>2, CutPlaces
    <2>4. /\ \A i \in 0 .. n : cut[i] \in Nat /\ cut[i] <= len
          /\ cut[0] = 0 /\ cut[n] = len
          /\ \A i \in 1 .. n : /\ cut[i - 1] = (i - 1) * size /\ cut[i - 1] <= cut[i]
                               /\ cut[i] = Min({i * size, len})
      BY <2>3, Zenon DEF Places
    <2>5. DOMAIN list = 1 .. n /\ \A i \in 1 .. n : list[i] = ReplyPart(m, Part(i))
      BY <1>8, <2>1, Zenon
    <2>6. ASSUME NEW i \in 1 .. n
          PROVE  /\ Body(list[i]) = SubSeq(d, cut[i - 1] + 1, cut[i])
                 /\ list[i].udhi => Len(list[i].short_message) > list[i].short_message[1]
      <3>1. PICK h : h = CatenationUdh(udh, [ref |-> 0, total |-> n, seq |-> i])
        OBVIOUS
      <3>2. Sound(h)
        <4>1. PICK zero, total, seq \in Int : zero = 0 /\ total = n /\ seq = i
          BY <1>6
        <4>2. Sound(CatenationUdh(udh, [ref |-> zero, total |-> total, seq |-> seq]))
          BY <1>1, JoinedHeader
        <4> QED
          BY <3>1, <4>1, <4>2, Zenon
      <3>3. PICK a, b \in Nat : a = cut[i - 1] /\ b = cut[i] /\ b <= len
        <4>1. i \in 0 .. n /\ i - 1 \in 0 .. n
          BY <1>6
        <4> QED
          BY <2>4, <4>1
      <3>4. PICK body : body = SubSeq(d, a + 1, b)
        OBVIOUS
      <3>5. body \in Seq(Int)
        <4>1. \A j \in (a + 1) .. b : d[j] \in Int
          BY <1>3, <3>3
        <4> QED
          BY <3>4, <4>1, SubSeqProperties
      <3>6. body = SubSeq(d, (i - 1) * size + 1, Min({i * size, len}))
        BY <2>4, <3>3, <3>4, Zenon
      <3>7. list[i] = ReplyPart(m, [udhdata |-> h, msgdata |-> body])
        BY <2>5, <3>1, <3>6, Zenon
      <3>8. Body(list[i]) = body
            /\ (list[i].udhi => Len(list[i].short_message) > list[i].short_message[1])
        <4>1. PICK x : x = list[i]
          OBVIOUS
        <4>2. Body(x) = body /\ (x.udhi => Len(x.short_message) > x.short_message[1])
          BY <3>2, <3>5, <3>7, <4>1, PartBody
        <4> QED
          BY <4>1, <4>2, Zenon
      <3> QED
        BY <3>3, <3>4, <3>8, Zenon
    <2> HIDE DEF Part
    <2>7. Len(bodies) = n /\ \A i \in 1 .. n : bodies[i] = SubSeq(d, cut[i - 1] + 1, cut[i])
      <3>1. bodies = [i \in 1 .. n |-> Body(list[i])]
        BY <1>9, <2>5, Zenon
      <3>2. Len(bodies) = n
        BY <1>6, <3>1
      <3> QED
        BY <2>6, <3>1, <3>2, Zenon
    <2>8. FlattenSeq(bodies) = d
      <3>1. /\ \A i \in 0 .. n : cut[i] \in Nat /\ cut[i] <= Len(d)
            /\ cut[0] = 0 /\ cut[n] = Len(d) /\ \A i \in 1 .. n : cut[i - 1] <= cut[i]
        BY <1>3, <2>4, Zenon
      <3>2. Pieces(bodies, d, cut, n)
        BY <2>7, <3>1, Zenon DEF Pieces
      <3> QED
        BY <1>6, <2>2, <3>2, FlattenCut
    <2> QED
      BY <1>2, <1>9, <2>5, <2>6, <2>8, Zenon
  <1> QED
    BY <1>10, <1>11

\* ReplyKept: for texts and headers of any length and parts of any size.
THEOREM RepliesKept == Spec => []ReplyKept
  <1>1. ConvInv => ReplyKept
    <2> SUFFICES ASSUME ConvInv, stage = "replied", pdulist # <<>> PROVE ReplyKept
      BY DEF ReplyKept
    <2>1. PICK p \in Pdus : p = pdu
      BY DEF ConvInv, PduInv
    <2>2. PICK v : v = esme.version
      OBVIOUS
    <2>3. Refusal(p, v) = "ROK" /\ msg = Made(pdu, esme)
      BY <2>1, <2>2 DEF ConvInv, PduInv, MsgInv
    <2>4. /\ msg.udhdata = SubmitSmToMsg(p, v).udhdata
          /\ msg.msgdata = SubmitSmToMsg(p, v).msgdata
      BY <2>1, <2>2, <2>3, MadeFields
    <2>5. Cut(msg.udhdata, msg.msgdata, Content(p, v), p.sar, p, v)
      BY <2>3, <2>4, SubmittedCut
    <2>6. report = ReplyTo(msg) /\ pdulist = ReplyToPdu(report)
      BY DEF ConvInv, BackInv
    <2>7. PICK m : m = report
      OBVIOUS
    <2>8. m.udhdata = msg.udhdata /\ m.msgdata = msg.msgdata
      BY <2>6, <2>7 DEF ReplyTo
    <2>9. Sound(m.udhdata) /\ m.msgdata \in Seq(Int)
      BY <2>5, <2>8 DEF Cut, Sound
    <2>10. PICK list : list = pdulist
      OBVIOUS
    <2>11. /\ \A i \in DOMAIN list :
                list[i].udhi => Len(list[i].short_message) > list[i].short_message[1]
           /\ FlattenSeq([i \in DOMAIN list |-> Body(list[i])]) = m.msgdata
      <3>1. list = ReplyToPdu(m) /\ list # <<>>
        BY <2>6, <2>7, <2>10
      <3> QED
        BY <2>9, <3>1, ReplyInParts
    <2> QED
      BY <2>7, <2>10, <2>11, Zenon DEF ReplyKept, Body
  <1> QED
    BY <1>1, Converted, PTL

=============================================================================
