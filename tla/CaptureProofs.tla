--------------------------- MODULE CaptureProofs ---------------------------
(***************************************************************************)
(* Proofs about Capture, for any codes that are text and any number of     *)
(* visits.                                                                 *)
(***************************************************************************)
EXTENDS Capture, Induction, SequenceTheorems, TLAPS

Byte == 0..255

\* How form_encode spells a byte.
Spelling(b) ==
    IF b \in Unreserved THEN <<b>> ELSE <<Percent, Digit(b \div 16), Digit(b % 16)>>

\* The tables that the recursive functions of form_encode and form_bytes are: what
\* the first n bytes encode to, and what is decoded from place k on.
IsEncoding(value, f) ==
    f = [n \in 0..Len(value) |->
            IF n = 0 THEN <<>>
            ELSE f[n - 1] \o IF value[n] \in Unreserved THEN <<value[n]>>
                 ELSE <<Percent, Digit(value[n] \div 16), Digit(value[n] % 16)>>]

IsDecoding(v, f) ==
    f = [k \in 1..(Len(v) + 1) |->
            CASE k > Len(v) -> <<>>
              [] k <= Len(v) /\ v[k] = Percent /\ EscapeAt(v, k) ->
                     <<Radix(v[k + 1], v[k + 2])>> \o f[k + 3]
              [] k <= Len(v) /\ v[k] = Plus -> <<Space>> \o f[k + 1]
              [] OTHER -> <<v[k]>> \o f[k + 1]]

\* One step of the decoder: the byte it gives, and where it goes on.
Escape(v, k) == v[k] = Percent /\ EscapeAt(v, k)
ByteAt(v, k) ==
    IF Escape(v, k) THEN Radix(v[k + 1], v[k + 2])
    ELSE IF v[k] = Plus THEN Space ELSE v[k]
After(v, k) == IF Escape(v, k) THEN k + 3 ELSE k + 1

-----------------------------------------------------------------------------
(* What form_encode spells, the loop of form_decode reads.                 *)

(* A byte's two hex digits are read back as the byte, and are no sign. *)
LEMMA DigitsAreRead ==
    ASSUME NEW b \in Byte
    PROVE  LET h == Digit(b \div 16) l == Digit(b % 16) IN
           h \in Byte /\ l \in Byte /\ IsRadix(h, l) /\ Radix(h, l) = b
  <1>1. /\ b \div 16 \in 0..15 /\ b % 16 \in 0..15 /\ 16 * (b \div 16) + (b % 16) = b
    BY DEF Byte
  <1>2. \A n \in 0..15 : /\ HexValue(Digit(n)) = n /\ Digit(n) # Plus
                          /\ Digit(n) \in Byte
    <2> SUFFICES ASSUME NEW n \in 0..15
                 PROVE  HexValue(Digit(n)) = n /\ Digit(n) # Plus /\ Digit(n) \in Byte
      OBVIOUS
    <2>1. CASE n < 10
      <3>1. Digit(n) = 48 + n /\ 48 + n \in 48..57
        BY <2>1 DEF Digit
      <3>2. HexValue(48 + n) = (48 + n) - 48
        BY <3>1 DEF HexValue
      <3>3. QED
        BY <3>1, <3>2 DEF Plus, Byte
    <2>2. CASE ~(n < 10)
      <3>1. Digit(n) = 55 + n /\ 55 + n \in 65..70 /\ 55 + n \notin 48..57
        BY <2>2 DEF Digit
      <3>2. HexValue(55 + n) = (55 + n) - 55
        BY <3>1 DEF HexValue
      <3>3. QED
        BY <3>1, <3>2 DEF Plus, Byte
    <2>3. QED
      BY <2>1, <2>2
  <1> DEFINE h == b \div 16
             l == b % 16
  <1>3. /\ HexValue(Digit(h)) = h /\ Digit(h) # Plus /\ Digit(h) \in Byte
        /\ HexValue(Digit(l)) = l /\ Digit(l) \in Byte
    BY <1>1, <1>2
  <1>4. h \in 0..15 /\ l \in 0..15 /\ 16 * h + l = b
    BY <1>1
  <1> HIDE DEF h, l
  <1>5. IsRadix(Digit(h), Digit(l))
    BY <1>3, <1>4 DEF IsRadix
  <1>6. Radix(Digit(h), Digit(l)) = b
    BY <1>3, <1>4 DEF Radix
  <1>7. QED
    BY <1>3, <1>5, <1>6 DEF h, l

(* Two characters that are hex digits spell a byte. *)
LEMMA RadixIsAByte ==
    ASSUME NEW a \in Byte, NEW b \in Byte, IsRadix(a, b)
    PROVE  Radix(a, b) \in Byte
  <1>1. \A c \in Byte : HexValue(c) < 16 => HexValue(c) \in 0..15
    <2> SUFFICES ASSUME NEW c \in Byte, HexValue(c) < 16
                 PROVE  HexValue(c) \in 0..15
      OBVIOUS
    <2>1. CASE c \in 48..57
      BY <2>1 DEF HexValue
    <2>2. CASE c \in 65..70
      BY <2>2 DEF HexValue
    <2>3. CASE c \in 97..102
      BY <2>3 DEF HexValue
    <2>4. CASE c \notin 48..57 /\ c \notin 65..70 /\ c \notin 97..102
      BY <2>4 DEF HexValue
    <2>5. QED
      BY <2>1, <2>2, <2>3, <2>4
  <1>2. HexValue(b) \in 0..15
    BY <1>1 DEF IsRadix
  <1>3. CASE a = Plus
    BY <1>2, <1>3 DEF Radix, Byte
  <1>4. CASE a # Plus
    <2>1. HexValue(a) \in 0..15
      BY <1>1, <1>4 DEF IsRadix
    <2>2. QED
      BY <1>2, <1>4, <2>1 DEF Radix, Byte
  <1>5. QED
    BY <1>3, <1>4

(* form_encode has a table for every text. *)
LEMMA EncodingExists ==
    ASSUME NEW value \in Seq(Byte)
    PROVE  \E f : IsEncoding(value, f) /\ form_encode(value) = f[Len(value)]
  <1> DEFINE Table(f, n) ==
                 f = [m \in 0..n |-> IF m = 0 THEN <<>> ELSE f[m - 1] \o Spelling(value[m])]
             S == {n \in 0..Len(value) : \E f : Table(f, n)}
             g == CHOOSE f : IsEncoding(value, f)
  <1>1. Len(value) \in Nat
    OBVIOUS
  <1>2. 0 \in S
    <2> DEFINE h == [m \in 0..0 |-> <<>>]
    <2>1. \A m \in 0..0 : m = 0 /\ h[m] = <<>>
      OBVIOUS
    <2>2. Table(h, 0)
      <3>1. h = [m \in 0..0 |-> h[m]]
        OBVIOUS
      <3> HIDE DEF h
      <3>2. QED
        BY <2>1, <3>1
    <2> HIDE DEF Table, h
    <2>3. 0 \in 0..Len(value)
      BY <1>1
    <2>4. QED
      BY <2>2, <2>3
  <1>3. ASSUME NEW n \in 0..Len(value), n < Len(value), n \in S
        PROVE  n + 1 \in S
    <2>1. PICK f : Table(f, n)
      BY <1>3
    <2> DEFINE next == f[n] \o Spelling(value[n + 1])
               h == [m \in 0..(n + 1) |-> IF m = n + 1 THEN next ELSE f[m]]
    <2>2. \A m \in 0..n : f[m] = IF m = 0 THEN <<>> ELSE f[m - 1] \o Spelling(value[m])
      BY <2>1
    <2>3. ASSUME NEW m \in 0..(n + 1)
          PROVE  h[m] = IF m = 0 THEN <<>> ELSE h[m - 1] \o Spelling(value[m])
      <3>1. CASE m = n + 1
        <4>1. m # 0 /\ m - 1 = n /\ n # n + 1 /\ n \in 0..(n + 1)
          BY <3>1
        <4>2. h[m] = f[n] \o Spelling(value[n + 1])
          <5> HIDE DEF next
          <5>1. h[m] = next
            BY <3>1
          <5>2. QED
            BY <5>1 DEF next
        <4>3. h[n] = f[n]
          <5> HIDE DEF next
          <5> QED
            BY <4>1
        <4> HIDE DEF h, next
        <4>4. QED
          BY <3>1, <4>1, <4>2, <4>3
      <3>2. CASE m # n + 1
        <4>1. m \in 0..n /\ h[m] = f[m]
          BY <3>2
        <4>2. m # 0 => m - 1 \in 0..n /\ m - 1 \in 0..(n + 1) /\ m - 1 # n + 1
          BY <4>1
        <4>3. m # 0 => h[m - 1] = f[m - 1]
          BY <4>2
        <4> HIDE DEF h
        <4>4. QED
          BY <2>2, <4>1, <4>3
      <3>3. QED
        BY <3>1, <3>2
    <2>4. Table(h, n + 1)
      <3>1. h = [m \in 0..(n + 1) |-> h[m]]
        OBVIOUS
      <3> HIDE DEF h
      <3>2. QED
        BY <2>3, <3>1
    <2>5. n + 1 \in 0..Len(value)
      BY <1>3
    <2> HIDE DEF Table
    <2>6. QED
      BY <2>4, <2>5
  <1>4. Len(value) \in S
    <2>1. 0..Len(value) \subseteq S
      <3> HIDE DEF S
      <3> QED
        BY <1>1, <1>2, <1>3, Upwards, 0 \in Int, Len(value) \in Int
    <2>2. Len(value) \in 0..Len(value)
      BY <1>1
    <2>3. QED
      BY <2>1, <2>2
  <1>5. \E f : IsEncoding(value, f)
    <2>1. PICK f : Table(f, Len(value))
      BY <1>4
    <2>2. IsEncoding(value, f)
      BY <2>1 DEF IsEncoding, Spelling
    <2>3. QED
      BY <2>2
  <1>6. IsEncoding(value, g)
    BY <1>5
  <1>7. form_encode(value) = g[Len(value)]
    BY DEF form_encode, IsEncoding
  <1>8. QED
    BY <1>6, <1>7

(* The decoder goes on behind what it has read, within the text. *)
LEMMA AfterIsFurther ==
    ASSUME NEW v \in Seq(Byte), NEW k \in 1..Len(v)
    PROVE  After(v, k) \in (k + 1)..(Len(v) + 1)
  <1>1. Len(v) \in Nat /\ k \in Nat
    OBVIOUS
  <1>2. CASE Escape(v, k)
    <2>1. k + 2 <= Len(v)
      BY <1>2 DEF Escape, EscapeAt
    <2>2. QED
      BY <1>1, <1>2, <2>1 DEF After
  <1>3. CASE ~Escape(v, k)
    BY <1>1, <1>3 DEF After
  <1>4. QED
    BY <1>2, <1>3

(* form_bytes has a table for every text, which it fills in from the end. *)
LEMMA DecodingExists ==
    ASSUME NEW v \in Seq(Byte)
    PROVE  \E f : /\ form_bytes(v) = f[1] /\ f[Len(v) + 1] = <<>>
                  /\ \A k \in 1..Len(v) : f[k] = <<ByteAt(v, k)>> \o f[After(v, k)]
  <1> DEFINE end == Len(v) + 1
             Row(f, k) == IF k > Len(v) THEN <<>> ELSE <<ByteAt(v, k)>> \o f[After(v, k)]
             Table(f, k) == f = [j \in k..end |-> Row(f, j)]
             S == {k \in 1..end : \E f : Table(f, k)}
             g == CHOOSE f : IsDecoding(v, f)
  <1>1. Len(v) \in Nat /\ end \in Nat /\ 1 \in 1..end /\ end \in 1..end
    OBVIOUS
  <1>2. ASSUME NEW k \in 1..end, (k + 1)..end \subseteq S
        PROVE  k \in S
    <2>1. \E f : \A j \in (k + 1)..end : f[j] = Row(f, j)
      <3>1. CASE k = end
        BY <1>1, <3>1
      <3>2. CASE k # end
        <4>1. k + 1 \in (k + 1)..end
          BY <1>1, <3>2
        <4>2. PICK f : Table(f, k + 1)
          BY <1>2, <4>1
        <4> HIDE DEF Row
        <4>3. QED
          BY <4>2
      <3>3. QED
        BY <3>1, <3>2
    <2>2. PICK f : \A j \in (k + 1)..end : f[j] = Row(f, j)
      BY <2>1
    <2> DEFINE first == Row(f, k)
               h == [j \in k..end |-> IF j = k THEN first ELSE f[j]]
    <2> HIDE DEF first
    <2>3. h[k] = first /\ \A j \in (k + 1)..end : h[j] = f[j]
      BY <1>1
    <2> HIDE DEF h
    <2>4. \A j \in k..end : j <= Len(v) => After(v, j) \in (k + 1)..end
      BY <1>1, AfterIsFurther
    <2>5. \A j \in k..end : Row(h, j) = Row(f, j)
      BY <2>3, <2>4
    <2>6. \A j \in k..end : h[j] = Row(h, j)
      <3> HIDE DEF Row
      <3>1. ASSUME NEW j \in k..end
            PROVE  h[j] = Row(h, j)
        <4>1. CASE j = k
          BY <2>3, <2>5, <4>1 DEF first
        <4>2. CASE j # k
          <5>1. j \in (k + 1)..end
            BY <1>1, <4>2
          <5>2. QED
            BY <2>2, <2>3, <2>5, <5>1
        <4>3. QED
          BY <4>1, <4>2
      <3>2. QED
        BY <3>1
    <2>7. Table(h, k)
      <3>1. h = [j \in k..end |-> h[j]]
        BY DEF h
      <3> HIDE DEF Row
      <3>2. QED
        BY <2>6, <3>1
    <2> HIDE DEF Table
    <2>8. QED
      BY <2>7
  <1>3. 1 \in S
    <2>1. 1..end \subseteq S
      <3> HIDE DEF S, end
      <3> QED
        BY <1>1, <1>2, Downwards, 1 \in Int, end \in Int
    <2>2. QED
      BY <1>1, <2>1
  <1>4. \A f : \A k \in 1..end :
            Row(f, k) = CASE k > Len(v) -> <<>>
                          [] k <= Len(v) /\ v[k] = Percent /\ EscapeAt(v, k) ->
                                 <<Radix(v[k + 1], v[k + 2])>> \o f[k + 3]
                          [] k <= Len(v) /\ v[k] = Plus -> <<Space>> \o f[k + 1]
                          [] OTHER -> <<v[k]>> \o f[k + 1]
    <2> SUFFICES ASSUME NEW f, NEW k \in 1..end
                 PROVE  Row(f, k) = CASE k > Len(v) -> <<>>
                          [] k <= Len(v) /\ v[k] = Percent /\ EscapeAt(v, k) ->
                                 <<Radix(v[k + 1], v[k + 2])>> \o f[k + 3]
                          [] k <= Len(v) /\ v[k] = Plus -> <<Space>> \o f[k + 1]
                          [] OTHER -> <<v[k]>> \o f[k + 1]
      OBVIOUS
    <2>1. Percent # Plus /\ (k > Len(v) <=> ~(k <= Len(v)))
      BY <1>1 DEF Percent, Plus
    <2>2. CASE k > Len(v)
      BY <2>1, <2>2
    <2>3. CASE k <= Len(v) /\ Escape(v, k)
      BY <2>1, <2>3 DEF Escape, ByteAt, After
    <2>4. CASE k <= Len(v) /\ ~Escape(v, k) /\ v[k] = Plus
      BY <2>1, <2>4 DEF Escape, ByteAt, After
    <2>5. CASE k <= Len(v) /\ ~Escape(v, k) /\ v[k] # Plus
      BY <2>1, <2>5 DEF Escape, ByteAt, After
    <2>6. QED
      BY <2>1, <2>2, <2>3, <2>4, <2>5
  <1>5. \A f : Table(f, 1) <=> IsDecoding(v, f)
    <2> HIDE DEF Row
    <2> QED
      BY <1>4 DEF IsDecoding
  <1>6. IsDecoding(v, g)
    <2> HIDE DEF Table
    <2> QED
      BY <1>3, <1>5
  <1>7. form_bytes(v) = g[1]
    BY DEF form_bytes, IsDecoding
  <1>8. \A k \in 1..end : g[k] = Row(g, k)
    <2> HIDE DEF g, Row
    <2> QED
      BY <1>5, <1>6
  <1> HIDE DEF g
  <1>9. g[Len(v) + 1] = <<>>
    <2>1. g[end] = Row(g, end)
      <3> HIDE DEF Row, end
      <3> QED
        BY <1>1, <1>8
    <2>2. end > Len(v)
      BY <1>1
    <2>3. QED
      BY <2>1, <2>2
  <1>10. \A k \in 1..Len(v) : g[k] = <<ByteAt(v, k)>> \o g[After(v, k)]
    <2>1. \A k \in 1..Len(v) : k \in 1..end /\ ~(k > Len(v))
      BY <1>1
    <2>2. QED
      BY <1>8, <2>1
  <1>11. QED
    BY <1>7, <1>9, <1>10

(* What encode writes for a byte. *)
LEMMA SpellingIsText ==
    ASSUME NEW b \in Byte
    PROVE  /\ Spelling(b) \in Seq(Byte)
           /\ b \in Unreserved => Spelling(b) = <<b>>
           /\ b \notin Unreserved =>
                  Spelling(b) = <<Percent, Digit(b \div 16), Digit(b % 16)>>
  <1>1. Percent \in Byte
    BY DEF Percent, Byte
  <1>2. Digit(b \div 16) \in Byte /\ Digit(b % 16) \in Byte
    BY DigitsAreRead
  <1>3. QED
    BY <1>1, <1>2 DEF Spelling

(* What a beginning of the text encodes to is a beginning of what the text does. *)
LEMMA EncodingGrows ==
    ASSUME NEW value \in Seq(Byte), NEW f, IsEncoding(value, f)
    PROVE  /\ f[0] = <<>>
           /\ \A n \in 0..Len(value) : f[n] \in Seq(Byte)
           /\ \A n \in 0..Len(value) :
                  n < Len(value) => f[n + 1] = f[n] \o Spelling(value[n + 1])
           /\ \A n \in 0..Len(value) : /\ Len(f[n]) <= Len(f[Len(value)])
                                       /\ \A k \in 1..Len(f[n]) : f[Len(value)][k] = f[n][k]
  <1> DEFINE size == Len(value)
             v == f[size]
  <1>1. size \in Nat /\ \A n \in 1..size : value[n] \in Byte
    OBVIOUS
  <1> HIDE DEF size
  <1>2. \A n \in 0..size : f[n] = IF n = 0 THEN <<>> ELSE f[n - 1] \o Spelling(value[n])
    BY DEF IsEncoding, Spelling, size
  <1>3. f[0] = <<>>
    BY <1>1, <1>2
  <1>4. ASSUME NEW n \in 0..size, n < size
        PROVE  f[n + 1] = f[n] \o Spelling(value[n + 1])
    <2>1. n + 1 \in 0..size /\ n + 1 # 0 /\ (n + 1) - 1 = n
      BY <1>1, <1>4
    <2>2. f[n + 1] = f[(n + 1) - 1] \o Spelling(value[n + 1])
      BY <1>2, <2>1
    <2>3. QED
      BY <2>1, <2>2
  <1>5. \A n \in 0..size : n < size => value[n + 1] \in Byte
    BY <1>1
  <1>6. \A n \in 0..size : f[n] \in Seq(Byte)
    <2> DEFINE S == {n \in 0..size : f[n] \in Seq(Byte)}
    <2>1. 0 \in S
      <3>1. 0 \in 0..size
        BY <1>1
      <3>2. f[0] \in Seq(Byte)
        BY <1>3
      <3>3. QED
        BY <3>1, <3>2
    <2>2. ASSUME NEW n \in 0..size, n < size, n \in S
          PROVE  n + 1 \in S
      <3>1. Spelling(value[n + 1]) \in Seq(Byte)
        BY <1>5, <2>2, SpellingIsText
      <3>2. f[n + 1] \in Seq(Byte)
        BY <1>4, <2>2, <3>1, ConcatProperties
      <3>3. QED
        BY <1>1, <2>2, <3>2
    <2>3. 0..size \subseteq S
      <3> HIDE DEF S
      <3> QED
        BY <1>1, <2>1, <2>2, Upwards, 0 \in Int, size \in Int
    <2>4. QED
      BY <2>3
  <1>7. \A n \in 0..size : /\ Len(f[n]) <= Len(v)
                        /\ \A k \in 1..Len(f[n]) : v[k] = f[n][k]
    <2> DEFINE S == {n \in 0..size : /\ Len(f[n]) <= Len(v)
                                  /\ \A k \in 1..Len(f[n]) : v[k] = f[n][k]}
    <2>1. ASSUME NEW n \in 0..size, (n + 1)..size \subseteq S
          PROVE  n \in S
      <3>1. CASE n = size
        BY <1>6, <3>1
      <3>2. CASE n # size
        <4>1. n < size /\ n + 1 \in (n + 1)..size /\ n + 1 \in 0..size
          BY <1>1, <3>2
        <4>2. /\ Len(f[n + 1]) <= Len(v)
              /\ \A k \in 1..Len(f[n + 1]) : v[k] = f[n + 1][k]
          BY <2>1, <4>1
        <4>3. f[n] \in Seq(Byte) /\ Spelling(value[n + 1]) \in Seq(Byte) /\ v \in Seq(Byte)
          BY <1>1, <1>5, <1>6, <4>1, SpellingIsText
        <4> DEFINE w == Spelling(value[n + 1])
                   u == f[n]
        <4> HIDE DEF w, u, v
        <4>4. /\ Len(u \o w) = Len(u) + Len(w) /\ Len(u) \in Nat /\ Len(w) \in Nat
              /\ \A k \in 1..Len(u) : (u \o w)[k] = u[k]
          <5>1. u \in Seq(Byte) /\ w \in Seq(Byte)
            BY <4>3 DEF u, w
          <5>2. Len(u) \in Nat /\ Len(w) \in Nat
            BY <5>1
          <5>3. QED
            BY <5>1, <5>2, ConcatProperties
        <4>5. f[n + 1] = u \o w
          BY <1>4, <4>1 DEF u, w
        <4>6. Len(u) <= Len(v) /\ \A k \in 1..Len(u) : v[k] = u[k]
          <5>1. Len(v) \in Nat
            BY <4>3
          <5>2. QED
            BY <4>2, <4>4, <4>5, <5>1
        <4>7. QED
          BY <4>6 DEF u
      <3>3. QED
        BY <3>1, <3>2
    <2>2. 0..size \subseteq S
      <3> HIDE DEF S
      <3> QED
        BY <1>1, <2>1, Downwards, 0 \in Int, size \in Int
    <2> HIDE DEF v
    <2>3. QED
      BY <2>2
  <1>8. QED
    BY <1>3, <1>4, <1>6, <1>7 DEF size, v

(* A text without its first n bytes is the next one and the rest. *)
LEMMA RestOfAText ==
    ASSUME NEW s \in Seq(Byte), NEW n \in 0..Len(s), n < Len(s)
    PROVE  SubSeq(s, n + 1, Len(s)) = <<s[n + 1]>> \o SubSeq(s, n + 2, Len(s))
  <1> DEFINE size == Len(s)
             long == SubSeq(s, n + 1, size)
             short == SubSeq(s, n + 2, size)
  <1>1. size \in Nat /\ n + 1 \in 1..size
    OBVIOUS
  <1>2. long \in Seq(Byte) /\ Len(long) = size - n /\ \A k \in 1..(size - n) : long[k] = s[n + k]
    BY <1>1
  <1>3. short \in Seq(Byte) /\ Len(short) = (size - n) - 1
        /\ \A k \in 1..((size - n) - 1) : short[k] = s[(n + 1) + k]
    BY <1>1, SMTT(30)
  <1>4. s[n + 1] \in Byte
    BY <1>1
  <1> DEFINE one == <<s[n + 1]>>
  <1>5. one \in Seq(Byte) /\ Len(one) = 1 /\ one[1] = s[n + 1]
    BY <1>4
  <1> HIDE DEF size, long, short, one
  <1>6. /\ one \o short \in Seq(Byte) /\ Len(one \o short) = size - n
        /\ \A k \in 1..(size - n) :
               (one \o short)[k] = IF k <= 1 THEN one[k] ELSE short[k - 1]
    <2>1. /\ one \o short \in Seq(Byte) /\ Len(one \o short) = Len(one) + Len(short)
          /\ \A k \in 1..(Len(one) + Len(short)) :
                 (one \o short)[k] = IF k <= Len(one) THEN one[k] ELSE short[k - Len(one)]
      <3>1. one \in Seq(Byte) /\ short \in Seq(Byte)
        BY <1>3, <1>5
      <3>2. QED
        BY <3>1, ConcatProperties
    <2>2. Len(one) + Len(short) = size - n
      BY <1>1, <1>3, <1>5
    <2>3. QED
      BY <1>5, <2>1, <2>2
  <1>7. ASSUME NEW k \in 1..(size - n)
        PROVE  (one \o short)[k] = long[k]
    <2>1. CASE k = 1
      <3>1. (one \o short)[1] = s[n + 1] /\ long[1] = s[n + 1]
        BY <1>2, <1>5, <1>6, <2>1
      <3>2. QED
        BY <2>1, <3>1
    <2>2. CASE k # 1
      <3>1. k - 1 \in 1..((size - n) - 1) /\ (n + 1) + (k - 1) = n + k
        BY <1>1, <2>2
      <3>2. (one \o short)[k] = short[k - 1]
        BY <1>6, <2>2
      <3>3. QED
        BY <1>2, <1>3, <3>1, <3>2
    <2>3. QED
      BY <2>1, <2>2
  <1>8. long = one \o short
    BY <1>2, <1>6, <1>7, SMTT(30)
  <1>9. QED
    BY <1>8 DEF size, long, short, one

(* The loop of form_decode gives back every text that form_encode spelled. *)
LEMMA DecodingUndoesEncoding ==
    ASSUME NEW value \in Seq(Byte)
    PROVE  form_bytes(form_encode(value)) = value
  <1> DEFINE size == Len(value)
  <1>1. PICK f : IsEncoding(value, f) /\ form_encode(value) = f[size]
    BY EncodingExists
  <1> DEFINE v == f[size]
  <1>2. /\ f[0] = <<>>
        /\ \A n \in 0..size : f[n] \in Seq(Byte)
        /\ \A n \in 0..size : n < size => f[n + 1] = f[n] \o Spelling(value[n + 1])
        /\ \A n \in 0..size : /\ Len(f[n]) <= Len(v)
                              /\ \A k \in 1..Len(f[n]) : v[k] = f[n][k]
    BY <1>1, EncodingGrows, ZenonT(60)
  <1>3. size \in Nat /\ size \in 0..size /\ \A n \in 0..size : n < size => value[n + 1] \in Byte
    OBVIOUS
  <1>4. v \in Seq(Byte) /\ Len(v) \in Nat
    <2>1. v \in Seq(Byte)
      BY <1>2, <1>3
    <2>2. QED
      BY <2>1
  <1>5. PICK g : /\ form_bytes(v) = g[1] /\ g[Len(v) + 1] = <<>>
                 /\ \A k \in 1..Len(v) : g[k] = <<ByteAt(v, k)>> \o g[After(v, k)]
    <2> HIDE DEF v
    <2> QED
      BY <1>4, DecodingExists
  <1> DEFINE next(n) == Len(f[n]) + 1
             rest(n) == SubSeq(value, n + 1, size)
             S == {n \in 0..size : g[next(n)] = rest(n)}
  <1> HIDE DEF size, v
  <1>6. ASSUME NEW n \in 0..size, n < size
        PROVE  /\ next(n) \in 1..Len(v) /\ ByteAt(v, next(n)) = value[n + 1]
               /\ After(v, next(n)) = next(n + 1)
    <2> DEFINE b == value[n + 1]
               u == f[n]
               w == Spelling(b)
               p == Len(u) + 1
    <2>1. b \in Byte /\ u \in Seq(Byte) /\ n + 1 \in 0..size /\ f[n + 1] = u \o w
      <3>1. b \in Byte /\ n + 1 \in 0..size
        BY <1>3, <1>6
      <3>2. u \in Seq(Byte)
        BY <1>2
      <3>3. f[n + 1] = u \o w
        BY <1>2, <1>6, Zenon
      <3>4. QED
        BY <3>1, <3>2, <3>3
    <2> HIDE DEF b, u
    <2>2. w \in Seq(Byte)
      BY <2>1, SpellingIsText
    <2> HIDE DEF w
    <2>3. Len(u) \in Nat /\ Len(w) \in Nat
      BY <2>1, <2>2
    <2>4. /\ Len(f[n + 1]) = Len(u) + Len(w)
          /\ \A k \in 1..Len(w) : f[n + 1][Len(u) + k] = w[k]
      <3>1. /\ Len(u \o w) = Len(u) + Len(w)
            /\ \A k \in 1..(Len(u) + Len(w)) :
                   (u \o w)[k] = IF k <= Len(u) THEN u[k] ELSE w[k - Len(u)]
        BY <2>1, <2>2, ConcatProperties
      <3>2. ASSUME NEW k \in 1..Len(w)
            PROVE  (u \o w)[Len(u) + k] = w[k]
        <4>1. /\ Len(u) + k \in 1..(Len(u) + Len(w)) /\ ~(Len(u) + k <= Len(u))
              /\ (Len(u) + k) - Len(u) = k
          BY <2>3
        <4>2. QED
          BY <3>1, <4>1
      <3>3. QED
        BY <2>1, <3>1, <3>2
    <2>5. Len(f[n + 1]) <= Len(v) /\ \A k \in 1..Len(f[n + 1]) : v[k] = f[n + 1][k]
      BY <1>2, <2>1
    <2>6. Len(u) + Len(w) <= Len(v) /\ \A k \in 1..Len(w) : v[Len(u) + k] = w[k]
      <3>1. \A k \in 1..Len(w) : Len(u) + k \in 1..Len(f[n + 1])
        BY <2>3, <2>4
      <3>2. QED
        BY <2>4, <2>5, <3>1
    <2>7. CASE b \in Unreserved
      <3>1. w = <<b>>
        BY <2>1, <2>7, SpellingIsText DEF w
      <3>2. Len(w) = 1 /\ w[1] = b
        BY <3>1
      <3>3. v[p] = b /\ p \in 1..Len(v) /\ next(n + 1) = p + 1
        BY <1>4, <2>3, <2>4, <2>6, <3>2
      <3>4. b # Percent /\ b # Plus
        BY <2>7 DEF Unreserved, Percent, Plus
      <3>5. ~Escape(v, p)
        BY <3>3, <3>4 DEF Escape
      <3> HIDE DEF p
      <3>6. ByteAt(v, p) = b /\ After(v, p) = p + 1
        BY <3>3, <3>4, <3>5 DEF ByteAt, After
      <3>7. QED
        BY <3>3, <3>6 DEF p, u, b
    <2>8. CASE b \notin Unreserved
      <3> DEFINE h == Digit(b \div 16)
                 l == Digit(b % 16)
      <3>1. IsRadix(h, l) /\ Radix(h, l) = b
        BY <2>1, DigitsAreRead
      <3>2. w = <<Percent, h, l>>
        BY <2>1, <2>8, SpellingIsText DEF w
      <3> HIDE DEF h, l
      <3>3. Len(w) = 3 /\ w[1] = Percent /\ w[2] = h /\ w[3] = l
        BY <3>2
      <3>4. /\ v[Len(u) + 1] = Percent /\ v[Len(u) + 2] = h /\ v[Len(u) + 3] = l
            /\ Len(u) + 3 <= Len(v) /\ Len(f[n + 1]) = Len(u) + 3
        BY <2>4, <2>6, <3>3
      <3>5. /\ p \in 1..Len(v) /\ p + 1 = Len(u) + 2 /\ p + 2 = Len(u) + 3
            /\ next(n + 1) = p + 3
        BY <1>4, <2>3, <3>4
      <3>6. v[p] = Percent /\ v[p + 1] = h /\ v[p + 2] = l /\ p + 2 <= Len(v)
        BY <3>4, <3>5
      <3> HIDE DEF p
      <3>7. Escape(v, p)
        BY <3>1, <3>6 DEF Escape, EscapeAt
      <3>8. ByteAt(v, p) = b /\ After(v, p) = p + 3
        BY <3>1, <3>6, <3>7 DEF ByteAt, After
      <3>9. QED
        BY <3>5, <3>8 DEF p, u, b
    <2>9. QED
      BY <2>7, <2>8
  <1>7. ASSUME NEW n \in 0..size, (n + 1)..size \subseteq S
        PROVE  n \in S
    <2>1. CASE n = size
      <3>1. g[next(n)] = <<>>
        BY <1>5, <2>1 DEF v
      <3>2. rest(n) = <<>>
        BY <1>3, <2>1, SubSeqEmpty, size + 1 \in Int, size \in Int, size < size + 1
      <3>3. QED
        BY <3>1, <3>2
    <2>2. CASE n # size
      <3>1. n < size /\ n + 1 \in (n + 1)..size
        BY <1>3, <2>2
      <3>2. g[next(n + 1)] = rest(n + 1)
        BY <1>7, <3>1
      <3>3. g[next(n)] = <<value[n + 1]>> \o g[next(n + 1)]
        BY <1>5, <1>6, <3>1
      <3>4. rest(n) = <<value[n + 1]>> \o SubSeq(value, n + 2, size)
        BY <3>1, RestOfAText DEF size
      <3>5. rest(n + 1) = SubSeq(value, n + 2, size)
        BY <1>3
      <3>6. QED
        BY <3>2, <3>3, <3>4, <3>5
    <2>3. QED
      BY <2>1, <2>2
  <1>8. 0 \in S
    <2>1. 0..size \subseteq S
      <3> HIDE DEF S
      <3> QED
        BY <1>3, <1>7, Downwards, 0 \in Int, size \in Int
    <2>2. QED
      BY <1>3, <2>1
  <1>9. next(0) = 1 /\ rest(0) = value
    <2>1. Len(f[0]) = 0
      BY <1>2
    <2>2. SubSeq(value, 1, Len(value)) = value
      OBVIOUS
    <2>3. QED
      BY <2>1, <2>2 DEF size
  <1>10. form_bytes(v) = value
    <2>1. g[next(0)] = rest(0)
      BY <1>8
    <2>2. QED
      BY <1>5, <1>9, <2>1
  <1>11. QED
    BY <1>1, <1>10 DEF v

(* What is decoded from bytes is bytes. *)
LEMMA DecodingGivesText ==
    ASSUME NEW v \in Seq(Byte)
    PROVE  form_bytes(v) \in Seq(Byte)
  <1>1. PICK g : /\ form_bytes(v) = g[1] /\ g[Len(v) + 1] = <<>>
                 /\ \A k \in 1..Len(v) : g[k] = <<ByteAt(v, k)>> \o g[After(v, k)]
    BY DecodingExists
  <1> DEFINE end == Len(v) + 1
             S == {k \in 1..end : g[k] \in Seq(Byte)}
  <1>2. Len(v) \in Nat /\ end \in Nat /\ 1 \in 1..end
    OBVIOUS
  <1>3. ASSUME NEW k \in 1..end, (k + 1)..end \subseteq S
        PROVE  k \in S
    <2>1. CASE k = end
      <3>1. g[end] \in Seq(Byte)
        BY <1>1
      <3>2. QED
        BY <2>1, <3>1
    <2>2. CASE k # end
      <3>1. k \in 1..Len(v)
        BY <1>2, <2>2
      <3>2. After(v, k) \in (k + 1)..end
        BY <3>1, AfterIsFurther
      <3>3. g[After(v, k)] \in Seq(Byte)
        BY <1>3, <3>2
      <3>4. ByteAt(v, k) \in Byte
        <4>1. \A j \in 1..Len(v) : v[j] \in Byte
          OBVIOUS
        <4>2. CASE Escape(v, k)
          <5>1. k + 1 \in 1..Len(v) /\ k + 2 \in 1..Len(v) /\ IsRadix(v[k + 1], v[k + 2])
            BY <1>2, <3>1, <4>2 DEF Escape, EscapeAt
          <5>2. Radix(v[k + 1], v[k + 2]) \in Byte
            BY <4>1, <5>1, RadixIsAByte
          <5>3. QED
            BY <4>2, <5>2 DEF ByteAt
        <4>3. CASE ~Escape(v, k)
          <5>1. Space \in Byte
            BY DEF Space, Byte
          <5>2. QED
            BY <3>1, <4>1, <4>3, <5>1 DEF ByteAt
        <4>4. QED
          BY <4>2, <4>3
      <3>5. <<ByteAt(v, k)>> \in Seq(Byte)
        BY <3>4
      <3>6. g[k] \in Seq(Byte)
        BY <1>1, <3>1, <3>3, <3>5, ConcatProperties
      <3>7. QED
        BY <3>6
    <2>3. QED
      BY <2>1, <2>2
  <1>4. 1..end \subseteq S
    <2> HIDE DEF S, end
    <2> QED
      BY <1>2, <1>3, Downwards, 1 \in Int, end \in Int
  <1>5. QED
    BY <1>1, <1>2, <1>4

(* What is encoded is text again. *)
LEMMA EncodingGivesText ==
    ASSUME NEW value \in Seq(Byte)
    PROVE  form_encode(value) \in Seq(Byte)
  <1>1. PICK f : IsEncoding(value, f) /\ form_encode(value) = f[Len(value)]
    BY EncodingExists
  <1>2. \A n \in 0..Len(value) : f[n] \in Seq(Byte)
    BY <1>1, EncodingGrows
  <1>3. Len(value) \in 0..Len(value)
    OBVIOUS
  <1>4. QED
    BY <1>1, <1>2, <1>3

-----------------------------------------------------------------------------
(* What from_utf8_lossy leaves as it is.                                   *)

\* What it gives from place k on, and its first piece.
IsLossy(v, f) ==
    f = [k \in 1..(Len(v) + 1) |->
            IF k > Len(v) THEN <<>>
            ELSE (IF CharAt(v, k) THEN SubSeq(v, k, k + Taken(v, k) - 1) ELSE Replacement)
                     \o f[k + Taken(v, k)]]

Piece(v, k) ==
    IF CharAt(v, k) THEN SubSeq(v, k, k + Taken(v, k) - 1) ELSE Replacement

(* A byte that may stand inside a character starts none. *)
LEMMA LeadsAreNoTrails ==
    ASSUME NEW b \in Byte
    PROVE  Width(b) \in 0..4 /\ (b \in Trail => Width(b) = 0) /\ Second(b) \subseteq Trail
  <1>1. Width(b) \in 0..4 /\ (b \in Trail => Width(b) = 0)
    <2>1. CASE b \in 0..127
      BY <2>1 DEF Width, Trail
    <2>2. CASE b \in 194..223
      BY <2>2 DEF Width, Trail
    <2>3. CASE b \in 224..239
      BY <2>3 DEF Width, Trail
    <2>4. CASE b \in 240..244
      BY <2>4 DEF Width, Trail
    <2>5. CASE b \notin 0..127 /\ b \notin 194..223 /\ b \notin 224..239 /\ b \notin 240..244
      BY <2>5 DEF Width
    <2>6. QED
      BY <2>1, <2>2, <2>3, <2>4, <2>5
  <1>2. Second(b) \subseteq Trail
    <2>1. CASE b = 224
      BY <2>1 DEF Second, Trail
    <2>2. CASE b = 237
      BY <2>2 DEF Second, Trail
    <2>3. CASE b = 240
      BY <2>3 DEF Second, Trail
    <2>4. CASE b = 244
      BY <2>4 DEF Second, Trail
    <2>5. CASE b \notin {224, 237, 240, 244}
      BY <2>5 DEF Second
    <2>6. QED
      BY <2>1, <2>2, <2>3, <2>4, <2>5
  <1>3. QED
    BY <1>1, <1>2

(* Something is taken at each place, within the text; of a character, all of it. *)
LEMMA TakenIsFurther ==
    ASSUME NEW v \in Seq(Byte), NEW k \in 1..Len(v)
    PROVE  /\ Taken(v, k) \in 1..4 /\ k + Taken(v, k) \in (k + 1)..(Len(v) + 1)
           /\ CharAt(v, k) => Taken(v, k) = Width(v[k])
  <1>1. Len(v) \in Nat /\ k \in Nat /\ v[k] \in Byte
    OBVIOUS
  <1>2. Width(v[k]) \in 0..4
    BY <1>1, LeadsAreNoTrails
  <1>3. \A n \in 1..4 : Begins(v, k, n) => n <= Width(v[k]) /\ k + n <= Len(v) + 1
    BY DEF Begins
  <1>4. Taken(v, k) \in 1..4 /\ k + Taken(v, k) \in (k + 1)..(Len(v) + 1)
    BY <1>1, <1>3 DEF Taken
  <1>5. ASSUME CharAt(v, k)
        PROVE  Taken(v, k) = Width(v[k])
    <2>1. Width(v[k]) \in 1..4 /\ Begins(v, k, Width(v[k]))
      BY <1>2, <1>5 DEF CharAt
    <2>2. QED
      BY <1>3, <2>1 DEF Taken
  <1>6. QED
    BY <1>4, <1>5

(* from_utf8_lossy has a table for every text, which it fills in from the end. *)
LEMMA LossyExists ==
    ASSUME NEW v \in Seq(Byte)
    PROVE  \E f : /\ from_utf8_lossy(v) = f[1] /\ f[Len(v) + 1] = <<>>
                  /\ \A k \in 1..Len(v) : /\ Piece(v, k) \in Seq(Byte)
                                         /\ f[k] = Piece(v, k) \o f[k + Taken(v, k)]
                  /\ from_utf8_lossy(v) \in Seq(Byte)
  <1> DEFINE end == Len(v) + 1
             T == Seq(Byte)
             Row(f, k) == IF k > Len(v) THEN <<>> ELSE Piece(v, k) \o f[k + Taken(v, k)]
             step == [k \in 1..end |-> [f \in [1..end -> T] |-> Row(f, k)]]
             g == CHOOSE f : IsLossy(v, f)
  <1>1. Len(v) \in Nat /\ end \in Nat /\ 1 \in 1..end /\ end \in 1..end /\ <<>> \in T
    OBVIOUS
  <1>2. ASSUME NEW k \in 1..Len(v)
        PROVE  Piece(v, k) \in T /\ k + Taken(v, k) \in (k + 1)..end
    <2>1. k + Taken(v, k) \in (k + 1)..end
      BY TakenIsFurther
    <2>2. Taken(v, k) \in 1..4
      BY TakenIsFurther
    <2>3. k \in Nat /\ k + Taken(v, k) - 1 \in 1..Len(v)
      BY <1>1, <2>1, <2>2
    <2>4. SubSeq(v, k, k + Taken(v, k) - 1) \in T
      BY <1>1, <2>3
    <2>5. Replacement \in T
      BY DEF Replacement, Byte
    <2>6. QED
      BY <2>1, <2>4, <2>5 DEF Piece
  <1>3. ASSUME NEW k \in 1..end, NEW f \in [1..end -> T]
        PROVE  Row(f, k) \in T
    <2>1. CASE k > Len(v)
      BY <1>1, <2>1
    <2>2. CASE ~(k > Len(v))
      <3>1. k \in 1..Len(v)
        BY <1>1, <2>2
      <3>2. Piece(v, k) \in T /\ f[k + Taken(v, k)] \in T
        <4>1. k + Taken(v, k) \in 1..end
          BY <1>1, <1>2, <3>1
        <4>2. QED
          BY <1>2, <3>1, <4>1
      <3>3. Piece(v, k) \o f[k + Taken(v, k)] \in T
        BY <3>2, ConcatProperties
      <3>4. QED
        BY <2>2, <3>3
    <2>3. QED
      BY <2>1, <2>2
  <1>4. ASSUME NEW k \in 1..end, NEW f, NEW h, \A j \in (k + 1)..end : f[j] = h[j]
        PROVE  Row(f, k) = Row(h, k)
    <2>1. k <= Len(v) => k \in 1..Len(v) /\ k + Taken(v, k) \in (k + 1)..end
      BY <1>1, <1>2
    <2>2. k > Len(v) \/ k <= Len(v)
      BY <1>1
    <2>3. QED
      BY <1>4, <2>1, <2>2
  <1>5. \E f : SolvesTo(f, end, T, step)
    <2> HIDE DEF Row
    <2>1. step \in [1..end -> [[1..end -> T] -> T]]
      BY <1>3
    <2>2. \A k \in 1..end : \A f, h \in [1..end -> T] :
             (\A j \in (k + 1)..end : f[j] = h[j]) => step[k][f] = step[k][h]
      BY <1>4
    <2> HIDE DEF step, end, T
    <2>3. QED
      BY <1>1, <2>1, <2>2, BackwardRecursion
  <1>6. PICK f : SolvesTo(f, end, T, step)
    BY <1>5
  <1>7. f \in [1..end -> T] /\ \A k \in 1..end : f[k] = Row(f, k)
    <2> HIDE DEF Row
    <2> QED
      BY <1>6 DEF SolvesTo
  <1>8. \A h : IsLossy(v, h) <=> h = [k \in 1..end |-> Row(h, k)]
    BY DEF IsLossy, Piece
  <1>9. IsLossy(v, g)
    <2>1. f = [k \in 1..end |-> Row(f, k)]
      <3> HIDE DEF Row
      <3> QED
        BY <1>7
    <2>2. IsLossy(v, f)
      BY <1>8, <2>1
    <2>3. QED
      BY <2>2
  <1>10. from_utf8_lossy(v) = g[1]
    BY DEF from_utf8_lossy, IsLossy
  <1> HIDE DEF g
  <1>11. \A k \in 1..end : g[k] = Row(g, k)
    <2>1. g = [k \in 1..end |-> Row(g, k)]
      BY <1>8, <1>9
    <2> HIDE DEF Row
    <2>2. QED
      BY <2>1
  <1>12. g[end] = <<>> /\ \A k \in 1..Len(v) : g[k] = Piece(v, k) \o g[k + Taken(v, k)]
    <2>1. end > Len(v) /\ \A k \in 1..Len(v) : k \in 1..end /\ ~(k > Len(v))
      BY <1>1
    <2>2. QED
      BY <1>1, <1>11, <2>1
  <1>13. g[1] \in T
    <2> DEFINE S == {k \in 1..end : g[k] \in T}
    <2>1. ASSUME NEW k \in 1..end, (k + 1)..end \subseteq S
          PROVE  k \in S
      <3>1. CASE k = end
        BY <1>1, <1>12, <3>1
      <3>2. CASE k # end
        <4>1. k \in 1..Len(v)
          BY <1>1, <3>2
        <4>2. Piece(v, k) \in T /\ g[k + Taken(v, k)] \in T
          BY <1>2, <2>1, <4>1
        <4>3. Piece(v, k) \o g[k + Taken(v, k)] \in T
          BY <4>2, ConcatProperties
        <4>4. QED
          BY <1>12, <4>1, <4>3
      <3>3. QED
        BY <3>1, <3>2
    <2>2. 1..end \subseteq S
      <3> HIDE DEF S, end
      <3> QED
        BY <1>1, <2>1, Downwards, 1 \in Int, end \in Int
    <2>3. QED
      BY <1>1, <2>2
  <1>14. QED
    BY <1>2, <1>10, <1>12, <1>13

(* Where a character of a text in UTF-8 may start, one does, and where it ends the
   next may. *)
LEMMA CharactersFollow ==
    ASSUME NEW v \in Seq(Byte), IsUtf8(v), NEW k \in 1..Len(v), v[k] \notin Trail
    PROVE  /\ CharAt(v, k)
           /\ \/ k + Taken(v, k) = Len(v) + 1
              \/ k + Taken(v, k) \in 1..Len(v) /\ v[k + Taken(v, k)] \notin Trail
  <1>1. Len(v) \in Nat /\ DOMAIN v = 1..Len(v) /\ \A j \in 1..Len(v) : v[j] \in Byte
    OBVIOUS
  <1>2. \A j \in 1..Len(v) : Width(v[j]) \in 0..4 /\ (v[j] \in Trail => Width(v[j]) = 0)
    BY <1>1, LeadsAreNoTrails
  <1>3. ASSUME NEW s \in 1..Len(v), CharAt(v, s), NEW j \in 1..Len(v),
               s < j, j < s + Width(v[s])
        PROVE  v[j] \in Trail
    <2>1. j - s \in 1..(Width(v[s]) - 1) /\ s + (j - s) = j
      BY <1>2, <1>3
    <2>2. v[s + (j - s)] \in IF j - s = 1 THEN Second(v[s]) ELSE Trail
      BY <1>3, <2>1 DEF CharAt, Begins
    <2>3. Second(v[s]) \subseteq Trail
      BY <1>1, LeadsAreNoTrails
    <2>4. QED
      BY <2>1, <2>2, <2>3
  <1>4. ASSUME NEW j \in 1..Len(v), v[j] \notin Trail
        PROVE  CharAt(v, j)
    <2>1. PICK s \in 1..j : CharAt(v, s) /\ j < s + Width(v[s])
      BY <1>1 DEF IsUtf8
    <2>2. s \in 1..Len(v) /\ (s < j \/ s = j)
      BY <1>1, <2>1
    <2>3. QED
      BY <1>3, <1>4, <2>1, <2>2
  <1> DEFINE next == k + Taken(v, k)
  <1>5. CharAt(v, k)
    BY <1>4
  <1>6. next \in (k + 1)..(Len(v) + 1) /\ next = k + Width(v[k])
    BY <1>5, TakenIsFurther
  <1> HIDE DEF next
  <1>7. ASSUME next # Len(v) + 1
        PROVE  next \in 1..Len(v) /\ v[next] \notin Trail
    <2>1. next \in 1..Len(v) /\ k < next
      BY <1>1, <1>6, <1>7
    <2>2. PICK s \in 1..next : CharAt(v, s) /\ next < s + Width(v[s])
      BY <1>1, <2>1 DEF IsUtf8
    <2>3. s \in 1..Len(v) /\ Width(v[s]) # 0
      BY <1>1, <2>1, <2>2 DEF CharAt
    <2>4. v[s] \notin Trail
      BY <1>2, <2>3
    <2>5. CASE s < k
      <3>1. k < s + Width(v[s])
        BY <1>2, <2>1, <2>2, <2>3, <2>5
      <3>2. v[k] \in Trail
        BY <1>3, <2>2, <2>3, <2>5, <3>1
      <3>3. QED
        BY <3>2
    <2>6. CASE s = k
      BY <1>2, <1>6, <2>1, <2>2, <2>6
    <2>7. CASE k < s /\ s < next
      <3>1. v[s] \in Trail
        BY <1>3, <1>5, <1>6, <2>3, <2>7
      <3>2. QED
        BY <2>4, <3>1
    <2>8. CASE s = next
      BY <2>1, <2>4, <2>8
    <2>9. QED
      BY <2>1, <2>2, <2>5, <2>6, <2>7, <2>8
  <1>8. QED
    BY <1>5, <1>7 DEF next

(* Two neighbouring pieces of a text are one. *)
LEMMA PiecesJoin ==
    ASSUME NEW v \in Seq(Byte), NEW k \in 1..Len(v), NEW j \in (k + 1)..(Len(v) + 1)
    PROVE  SubSeq(v, k, j - 1) \o SubSeq(v, j, Len(v)) = SubSeq(v, k, Len(v))
  <1> DEFINE size == Len(v)
             a == SubSeq(v, k, j - 1)
             b == SubSeq(v, j, size)
             c == SubSeq(v, k, size)
  <1>1. size \in Nat /\ k \in 1..size /\ j \in (k + 1)..(size + 1)
    OBVIOUS
  <1>2. a \in Seq(Byte) /\ Len(a) = j - k /\ \A n \in 1..(j - k) : a[n] = v[k + n - 1]
    BY <1>1
  <1>3. b \in Seq(Byte) /\ Len(b) = (size + 1) - j
        /\ \A n \in 1..((size + 1) - j) : b[n] = v[j + n - 1]
    BY <1>1
  <1>4. c \in Seq(Byte) /\ Len(c) = (size + 1) - k
        /\ \A n \in 1..((size + 1) - k) : c[n] = v[k + n - 1]
    BY <1>1
  <1> HIDE DEF a, b, c, size
  <1>5. /\ a \o b \in Seq(Byte) /\ Len(a \o b) = Len(a) + Len(b)
        /\ \A n \in 1..(Len(a) + Len(b)) :
               (a \o b)[n] = IF n <= Len(a) THEN a[n] ELSE b[n - Len(a)]
    BY <1>2, <1>3, ConcatProperties
  <1>6. Len(a) + Len(b) = (size + 1) - k
    BY <1>1, <1>2, <1>3
  <1>7. ASSUME NEW n \in 1..((size + 1) - k)
        PROVE  (a \o b)[n] = c[n]
    <2>1. CASE n <= j - k
      <3>1. n \in 1..(j - k)
        BY <2>1
      <3>2. (a \o b)[n] = a[n]
        BY <1>2, <1>5, <1>6, <2>1
      <3>3. QED
        BY <1>2, <1>4, <3>1, <3>2
    <2>2. CASE ~(n <= j - k)
      <3>1. n - (j - k) \in 1..((size + 1) - j) /\ j + (n - (j - k)) - 1 = k + n - 1
        BY <1>1, <2>2
      <3>2. (a \o b)[n] = b[n - (j - k)]
        BY <1>2, <1>5, <1>6, <2>2
      <3>3. QED
        BY <1>3, <1>4, <3>1, <3>2
    <2>3. QED
      BY <2>1, <2>2
  <1>8. a \o b = c
    BY <1>4, <1>5, <1>6, <1>7, SMTT(30)
  <1>9. QED
    BY <1>8 DEF a, b, c, size

(* Text in UTF-8 comes out of from_utf8_lossy as it went in. *)
LEMMA LossyKeepsText ==
    ASSUME NEW v \in Seq(Byte), IsUtf8(v)
    PROVE  from_utf8_lossy(v) = v
  <1>1. PICK f : /\ from_utf8_lossy(v) = f[1] /\ f[Len(v) + 1] = <<>>
                 /\ \A k \in 1..Len(v) : f[k] = Piece(v, k) \o f[k + Taken(v, k)]
    BY LossyExists
  <1> DEFINE end == Len(v) + 1
             Starts(k) == k = end \/ v[k] \notin Trail
             rest(k) == SubSeq(v, k, Len(v))
             S == {k \in 1..end : Starts(k) => f[k] = rest(k)}
  <1>2. Len(v) \in Nat /\ end \in Nat /\ 1 \in 1..end
    OBVIOUS
  <1>3. ASSUME NEW k \in 1..end, (k + 1)..end \subseteq S
        PROVE  k \in S
    <2>1. CASE k = end
      <3>1. rest(end) = <<>>
        BY <1>2, SubSeqEmpty, end \in Int, Len(v) \in Int, Len(v) < end
      <3>2. QED
        BY <1>1, <2>1, <3>1
    <2>2. CASE k # end /\ v[k] \notin Trail
      <3>1. k \in 1..Len(v)
        BY <1>2, <2>2
      <3>2. CharAt(v, k) /\ Starts(k + Taken(v, k))
        BY <2>2, <3>1, CharactersFollow
      <3>3. k + Taken(v, k) \in (k + 1)..end
        BY <3>1, TakenIsFurther
      <3>4. f[k + Taken(v, k)] = rest(k + Taken(v, k))
        BY <1>3, <3>2, <3>3
      <3>5. Piece(v, k) = SubSeq(v, k, k + Taken(v, k) - 1)
        BY <3>2 DEF Piece
      <3>6. Piece(v, k) \o rest(k + Taken(v, k)) = rest(k)
        <4> DEFINE next == k + Taken(v, k)
        <4>1. next \in (k + 1)..(Len(v) + 1) /\ Piece(v, k) = SubSeq(v, k, next - 1)
          <5>1. next \in (k + 1)..(Len(v) + 1)
            BY <3>3
          <5>2. k + Taken(v, k) - 1 = next - 1
            <6>1. Taken(v, k) \in 1..4
              BY <3>1, TakenIsFurther
            <6>2. QED
              BY <1>2, <6>1
          <5>3. QED
            BY <3>5, <5>1, <5>2
        <4> HIDE DEF next
        <4>2. SubSeq(v, k, next - 1) \o SubSeq(v, next, Len(v)) = SubSeq(v, k, Len(v))
          BY <3>1, <4>1, PiecesJoin
        <4>3. QED
          BY <4>1, <4>2 DEF next
      <3>7. f[k] = rest(k)
        BY <1>1, <3>1, <3>4, <3>6
      <3>8. QED
        BY <3>7
    <2>3. QED
      BY <2>1, <2>2
  <1>4. 1 \in S
    <2>1. 1..end \subseteq S
      <3> HIDE DEF S, end
      <3> QED
        BY <1>2, <1>3, Downwards, 1 \in Int, end \in Int
    <2>2. QED
      BY <1>2, <2>1
  <1>5. Starts(1)
    <2>1. CASE Len(v) = 0
      BY <2>1
    <2>2. CASE Len(v) # 0
      <3>1. 1 \in 1..Len(v) /\ DOMAIN v = 1..Len(v) /\ v[1] \in Byte
        BY <1>2, <2>2
      <3>2. CharAt(v, 1)
        <4>1. PICK s \in 1..1 : CharAt(v, s)
          BY <3>1 DEF IsUtf8
        <4>2. QED
          BY <4>1
      <3>3. QED
        BY <3>1, <3>2, LeadsAreNoTrails DEF CharAt
    <2>3. QED
      BY <2>1, <2>2
  <1>6. rest(1) = v
    OBVIOUS
  <1>7. QED
    BY <1>1, <1>4, <1>5, <1>6

(* What is decoded is bytes, and of a code that is text in UTF-8 the very text. *)
LEMMA DecodingGivesTheText ==
    ASSUME NEW value \in Seq(Byte)
    PROVE  /\ form_decode(value) \in Seq(Byte)
           /\ IsUtf8(value) => form_decode(form_encode(value)) = value
  <1>1. form_bytes(value) \in Seq(Byte)
    BY DecodingGivesText
  <1>2. form_decode(value) \in Seq(Byte)
    BY <1>1, LossyExists DEF form_decode
  <1>3. IsUtf8(value) => form_decode(form_encode(value)) = value
    BY DecodingUndoesEncoding, LossyKeepsText DEF form_decode
  <1>4. QED
    BY <1>2, <1>3

-----------------------------------------------------------------------------
(* What receive_code takes.                                                *)

Pair == {"code", "state", "error"} \X Seq(Byte)

(* The state of another run, whole or cut, is not decoded to this one's. *)
LEMMA AnotherIsNotExpected ==
    form_decode(Another) # Expected /\ form_decode(<<>>) # Expected
  <1>1. form_decode(<<>>) # Expected
    <2>1. <<>> \in Seq(Byte) /\ Len(<<>>) = 0
      OBVIOUS
    <2>2. form_decode(<<>>) = <<>>
      <3>1. PICK f : form_bytes(<<>>) = f[1] /\ f[Len(<<>>) + 1] = <<>>
        BY <2>1, DecodingExists
      <3>2. form_bytes(<<>>) = <<>> /\ IsUtf8(<<>>)
        BY <2>1, <3>1 DEF IsUtf8
      <3>3. QED
        BY <2>1, <3>2, LossyKeepsText DEF form_decode
    <2>3. Expected # <<>>
      BY DEF Expected
    <2>4. QED
      BY <2>2, <2>3
  <1>2. form_decode(Another) # Expected
    <2> DEFINE v == Another
    <2>1. v \in Seq(Byte) /\ Len(v) = 1 /\ v[1] = 98
      BY DEF Another, Byte
    <2> HIDE DEF v
    <2>2. PICK f : /\ form_bytes(v) = f[1] /\ f[Len(v) + 1] = <<>>
                   /\ \A k \in 1..Len(v) : f[k] = <<ByteAt(v, k)>> \o f[After(v, k)]
      BY <2>1, DecodingExists
    <2>3. ByteAt(v, 1) = 98 /\ After(v, 1) = 2
      BY <2>1 DEF ByteAt, After, Escape, Percent, Plus
    <2>4. f[2] = <<>> /\ f[1] = <<ByteAt(v, 1)>> \o f[After(v, 1)]
      BY <2>1, <2>2
    <2>5. form_bytes(v) = v
      <3>1. form_bytes(v) = <<98>> \o <<>>
        BY <2>2, <2>3, <2>4
      <3>2. <<98>> \o <<>> = <<98>>
        OBVIOUS
      <3>3. QED
        BY <3>1, <3>2 DEF v, Another
    <2>6. IsUtf8(v)
      <3>1. Width(98) = 1
        BY DEF Width
      <3>2. CharAt(v, 1)
        BY <2>1, <3>1 DEF CharAt, Begins
      <3>3. QED
        BY <2>1, <3>1, <3>2 DEF IsUtf8
    <2>7. form_decode(v) = v
      BY <2>1, <2>5, <2>6, LossyKeepsText DEF form_decode
    <2>8. QED
      BY <2>7 DEF v, Another, Expected
  <1>3. QED
    BY <1>1, <1>2

(* One read gets the pairs from the first on, each whole but the last. *)
LEMMA ArrivedIsABeginning ==
    ASSUME NEW q \in Seq(Pair), NEW pairs \in Arrived(q)
    PROVE  /\ pairs \in Seq(Pair) /\ Len(pairs) <= Len(q)
           /\ \A k \in 1..Len(pairs) :
                  /\ pairs[k][1] = q[k][1] /\ (k < Len(pairs) => pairs[k] = q[k])
                  /\ \/ pairs[k] = q[k]
                     \/ \E m \in 0..(Len(q[k][2]) - 1) : pairs[k][2] = SubSeq(q[k][2], 1, m)
  <1>1. Len(q) \in Nat /\ DOMAIN q = 1..Len(q)
    OBVIOUS
  <1>2. \A n \in 0..Len(q) : /\ SubSeq(q, 1, n) \in Seq(Pair) /\ Len(SubSeq(q, 1, n)) = n
                             /\ \A k \in 1..n : SubSeq(q, 1, n)[k] = q[k]
    BY <1>1
  <1>3. CASE \E n \in 0..Len(q) : pairs = SubSeq(q, 1, n)
    <2>1. PICK n \in 0..Len(q) : pairs = SubSeq(q, 1, n)
      BY <1>3
    <2>2. pairs \in Seq(Pair) /\ Len(pairs) = n /\ \A k \in 1..n : pairs[k] = q[k]
      BY <1>2, <2>1
    <2>3. QED
      BY <1>1, <2>2
  <1>4. CASE \E n \in DOMAIN q : \E m \in 0..(Len(q[n][2]) - 1) :
                 pairs = Append(SubSeq(q, 1, n - 1), <<q[n][1], SubSeq(q[n][2], 1, m)>>)
    <2>0. PICK n \in 1..Len(q) : \E m \in 0..(Len(q[n][2]) - 1) :
             pairs = Append(SubSeq(q, 1, n - 1), <<q[n][1], SubSeq(q[n][2], 1, m)>>)
      BY <1>1, <1>4
    <2>1. PICK m \in 0..(Len(q[n][2]) - 1) :
             pairs = Append(SubSeq(q, 1, n - 1), <<q[n][1], SubSeq(q[n][2], 1, m)>>)
      BY <2>0
    <2> DEFINE before == SubSeq(q, 1, n - 1)
               last == <<q[n][1], SubSeq(q[n][2], 1, m)>>
    <2>2. n - 1 \in 0..Len(q) /\ (n - 1) + 1 = n
      BY <1>1
    <2>3. before \in Seq(Pair) /\ Len(before) = n - 1 /\ \A k \in 1..(n - 1) : before[k] = q[k]
      BY <1>2, <2>2
    <2>4. last \in Pair /\ last[1] = q[n][1] /\ last[2] = SubSeq(q[n][2], 1, m)
      <3>1. q[n] \in Pair
        BY <1>1
      <3>2. q[n][1] \in {"code", "state", "error"} /\ q[n][2] \in Seq(Byte)
        BY <3>1 DEF Pair
      <3>3. Len(q[n][2]) \in Nat
        BY <3>2
      <3>4. m \in 0..Len(q[n][2])
        BY <3>3
      <3>5. SubSeq(q[n][2], 1, m) \in Seq(Byte)
        BY <3>2, <3>4
      <3>6. QED
        BY <3>2, <3>5 DEF Pair
    <2> HIDE DEF before, last
    <2>5. pairs = Append(before, last)
      BY <2>1 DEF before, last
    <2>6. /\ pairs \in Seq(Pair) /\ Len(pairs) = n /\ pairs[n] = last
          /\ \A k \in 1..(n - 1) : pairs[k] = before[k]
      BY <2>2, <2>3, <2>4, <2>5
    <2>7. ASSUME NEW k \in 1..Len(pairs)
          PROVE  /\ pairs[k][1] = q[k][1] /\ (k < Len(pairs) => pairs[k] = q[k])
                 /\ \/ pairs[k] = q[k]
                    \/ \E j \in 0..(Len(q[k][2]) - 1) : pairs[k][2] = SubSeq(q[k][2], 1, j)
      <3>1. CASE k = n
        BY <2>4, <2>6, <3>1
      <3>2. CASE k # n
        <4>1. k \in 1..(n - 1)
          BY <2>6, <3>2
        <4>2. pairs[k] = q[k]
          BY <2>3, <2>6, <4>1
        <4>3. QED
          BY <4>2
      <3>3. QED
        BY <3>1, <3>2
    <2>8. QED
      BY <1>1, <2>6, <2>7
  <1>5. QED
    BY <1>3, <1>4 DEF Arrived

(* The state is that of this run beside a code for the consent's redirect only, and
   the code that stands before it has come whole. *)
LEMMA OnlyTheConsentIsGranted ==
    ASSUME issued \in Seq(Byte), IsUtf8(issued), NEW kind, NEW pairs \in Arrived(Query(kind)), Granted(pairs)
    PROVE  LET text == form_decode(pairs[CHOOSE k \in Places(pairs, "code") : TRUE][2]) IN
           /\ kind = "consent" /\ text \in Seq(Byte)
           /\ text = issued \/ (args.platform = "x" /\ pairs # Query(kind))
  <1> DEFINE ofCode == <<"code", form_encode(issued)>>
             ofState == <<"state", Expected>>
             ofAnother == <<"state", Another>>
             refusal == <<"error", Another>>
             q == Query(kind)
             at == CHOOSE k \in Places(pairs, "code") : TRUE
  <1>1. /\ ofCode \in Pair /\ ofCode[1] = "code" /\ ofCode[2] = form_encode(issued)
        /\ ofState \in Pair /\ ofState[1] = "state"
        /\ ofAnother \in Pair /\ ofAnother[1] = "state" /\ ofAnother[2] = Another
        /\ refusal \in Pair /\ refusal[1] = "error"
    <2>1. form_encode(issued) \in Seq(Byte)
      BY EncodingGivesText
    <2>2. Expected \in Seq(Byte) /\ Another \in Seq(Byte)
      BY DEF Expected, Another, Byte
    <2>3. QED
      BY <2>1, <2>2 DEF Pair
  <1>2. q = CASE kind = "consent" -> IF args.platform = "x" THEN <<ofState, ofCode>>
                                     ELSE <<ofCode, ofState>>
              [] kind = "stale" -> <<ofCode, ofAnother>>
              [] kind = "refusal" -> <<refusal, ofState>>
              [] OTHER -> <<>>
    BY DEF Query
  <1> HIDE DEF ofCode, ofState, ofAnother, refusal, q
  <1>3. \/ kind = "consent" /\ args.platform = "x" /\ q = <<ofState, ofCode>>
        \/ kind = "consent" /\ args.platform # "x" /\ q = <<ofCode, ofState>>
        \/ kind = "stale" /\ q = <<ofCode, ofAnother>>
        \/ kind = "refusal" /\ q = <<refusal, ofState>>
        \/ q = <<>>
    BY <1>2
  <1>4. q \in Seq(Pair)
    <2>1. <<>> \in Seq(Pair) /\ \A a, b \in Pair : <<a, b>> \in Seq(Pair)
      OBVIOUS
    <2>2. QED
      BY <1>1, <1>3, <2>1
  <1>5. /\ pairs \in Seq(Pair) /\ Len(pairs) <= Len(q)
        /\ \A k \in 1..Len(pairs) :
               /\ pairs[k][1] = q[k][1] /\ (k < Len(pairs) => pairs[k] = q[k])
               /\ \/ pairs[k] = q[k]
                  \/ \E m \in 0..(Len(q[k][2]) - 1) : pairs[k][2] = SubSeq(q[k][2], 1, m)
    <2>1. pairs \in Arrived(q)
      BY DEF q
    <2>2. QED
      BY <1>4, <2>1, ArrivedIsABeginning
  <1>6. Len(pairs) \in Nat /\ DOMAIN pairs = 1..Len(pairs)
    BY <1>5
  <1>7. at \in 1..Len(pairs) /\ pairs[at][1] = "code"
    <2>1. at \in Places(pairs, "code")
      BY DEF Granted
    <2> HIDE DEF at
    <2>2. QED
      BY <1>6, <2>1 DEF Places
  <1>8. PICK k \in 1..Len(pairs) : /\ pairs[k][1] = "state"
                                   /\ form_decode(pairs[k][2]) = Expected
    BY <1>6 DEF Granted, Places
  <1> HIDE DEF at
  <1>9. form_decode(pairs[at][2]) \in Seq(Byte)
    <2>1. pairs[at] \in Pair
      BY <1>5, <1>7
    <2>2. pairs[at][2] \in Seq(Byte)
      BY <2>1 DEF Pair
    <2>3. QED
      BY <2>2, DecodingGivesTheText
  <1>10. form_decode(form_encode(issued)) = issued
    BY DecodingGivesTheText
  <1>11. CASE kind = "consent" /\ args.platform = "x" /\ q = <<ofState, ofCode>>
    <2>1. Len(q) = 2 /\ q[1] = ofState /\ q[2] = ofCode
      BY <1>11
    <2>2. ASSUME pairs = q
          PROVE  form_decode(pairs[at][2]) = issued
      <3>1. at \in {1, 2}
        <4>1. Len(pairs) = 2
          BY <2>1, <2>2
        <4>2. QED
          BY <1>7, <4>1
      <3>2. at = 2
        BY <1>1, <1>7, <2>1, <2>2, <3>1
      <3>3. QED
        BY <1>1, <1>10, <2>1, <2>2, <3>2
    <2>3. QED
      BY <1>9, <1>11, <2>2 DEF at, q
  <1>12. CASE kind = "consent" /\ args.platform # "x" /\ q = <<ofCode, ofState>>
    <2>1. Len(q) = 2 /\ q[1] = ofCode /\ q[2] = ofState
      BY <1>12
    <2>2. Len(pairs) = 2 /\ k = 2
      <3>1. k \in {1, 2} /\ Len(pairs) \in {1, 2}
        BY <1>5, <1>6, <2>1
      <3>2. k # 1
        BY <1>1, <1>5, <1>8, <2>1
      <3>3. QED
        BY <1>6, <3>1, <3>2
    <2>3. at = 1
      <3>1. at \in {1, 2}
        BY <1>7, <2>2
      <3>2. at # 2
        BY <1>7, <1>8, <2>2
      <3>3. QED
        BY <3>1, <3>2
    <2>4. pairs[1] = ofCode
      BY <1>5, <2>1, <2>2
    <2>5. form_decode(pairs[at][2]) = issued
      BY <1>1, <1>10, <2>3, <2>4
    <2>6. QED
      BY <1>9, <1>12, <2>5 DEF at
  <1>13. CASE kind = "stale" /\ q = <<ofCode, ofAnother>>
    <2>1. Len(q) = 2 /\ q[1] = ofCode /\ q[2] = ofAnother
      BY <1>13
    <2>2. k = 2
      <3>1. k \in {1, 2}
        BY <1>5, <1>6, <2>1
      <3>2. k # 1
        BY <1>1, <1>5, <1>8, <2>1
      <3>3. QED
        BY <3>1, <3>2
    <2>3. pairs[2][2] = Another \/ pairs[2][2] = <<>>
      <3>1. \/ pairs[2] = q[2]
            \/ \E m \in 0..(Len(q[2][2]) - 1) : pairs[2][2] = SubSeq(q[2][2], 1, m)
        BY <1>5, <2>2
      <3>2. q[2][2] = Another /\ Len(Another) = 1
        BY <1>1, <2>1 DEF Another
      <3>3. SubSeq(Another, 1, 0) = <<>>
        BY SubSeqEmpty, 1 \in Int, 0 \in Int, 0 < 1
      <3>4. \A m \in 0..(Len(q[2][2]) - 1) : SubSeq(q[2][2], 1, m) = <<>>
        BY <3>2, <3>3
      <3>5. QED
        BY <3>1, <3>2, <3>4
    <2>4. QED
      BY <1>8, <2>2, <2>3, AnotherIsNotExpected
  <1>14. CASE kind = "refusal" /\ q = <<refusal, ofState>>
    <2>1. Len(q) = 2 /\ q[1] = refusal /\ q[2] = ofState
      BY <1>14
    <2>2. at \in {1, 2} /\ q[at][1] = "code"
      BY <1>5, <1>6, <1>7, <2>1
    <2>3. QED
      BY <1>1, <2>1, <2>2
  <1>15. CASE q = <<>>
    BY <1>5, <1>6, <1>7, <1>15
  <1>16. QED
    BY <1>3, <1>11, <1>12, <1>13, <1>14, <1>15

(* A read may get the whole request. *)
LEMMA QueryArrivesWhole ==
    ASSUME NEW kind
    PROVE  Query(kind) \in Arrived(Query(kind))
  <1> DEFINE q == Query(kind)
  <1>1. q = <<>> \/ \E a, b : q = <<a, b>>
    BY DEF Query
  <1>2. Len(q) \in 0..Len(q) /\ SubSeq(q, 1, Len(q)) = q
    <2> HIDE DEF q
    <2>1. CASE q = <<>>
      <3>1. SubSeq(<<>>, 1, 0) = <<>>
        BY SubSeqEmpty, 1 \in Int, 0 \in Int, 0 < 1
      <3>2. QED
        BY <2>1, <3>1
    <2>2. ASSUME NEW a, NEW b, q = <<a, b>>
          PROVE  Len(q) \in 0..Len(q) /\ SubSeq(q, 1, Len(q)) = q
      <3>1. q \in Seq({a, b}) /\ Len(q) = 2
        BY <2>2, SMTT(30)
      <3>2. QED
        BY <3>1
    <2>3. QED
      BY <1>1, <2>1, <2>2
  <1> HIDE DEF q
  <1>3. q \in Arrived(q)
    BY <1>2 DEF Arrived
  <1>4. QED
    BY <1>3 DEF q

-----------------------------------------------------------------------------
(* The tool's run.                                                         *)

Credentials == {"bearer", "client_secret"}

\* An unknown platform ends the tool at its start; the parties' outcomes are a
\* function of the parties; no record of a session reveals a credential.
RunInv ==
    /\ args.platform \in {"x", "github", "other"}
    /\ args.platform = "other" => pc \in {"start", "panic"}
    /\ outcome \in [Parties -> {"none", "ok", "err", "dropped"}]

RecordsInv == \A r \in records : r.record \cap Credentials = {}

CaptureInv == RunInv /\ RecordsInv /\ CredentialsAreNotWritten /\ NoExitUnderALiveSession

(* No layout of either session reveals a credential on either platform: the body
   of the token request stops being revealed at the client secret. *)
LEMMA RevealsNoCredential ==
    ASSUME NEW platform \in {"x", "github"}, NEW kind
    PROVE  Reveals(platform, kind) \cap Credentials = {}
  <1>1. CASE kind = "identity"
    BY <1>1 DEF Reveals, Credentials
  <1>2. CASE kind # "identity" /\ platform = "x"
    <2>1. \A n \in DOMAIN XBody : XBody[n] \notin Credentials
      BY DEF XBody, Credentials
    <2>2. QED
      BY <1>2, <2>1 DEF Reveals, Credentials
  <1>3. CASE kind # "identity" /\ platform = "github"
    <2>1. \A n \in DOMAIN GithubBody :
             n \in 1..5 /\ (GithubBody[n] \in Credentials => GithubBody[n] = "client_secret")
      BY DEF GithubBody, Credentials
    <2>2. ASSUME NEW n \in DOMAIN GithubBody,
                 \A j \in 1..n : GithubBody[j] \notin SecretField(platform)
          PROVE  GithubBody[n] \notin Credentials
      <3>1. n \in 1..n
        BY <2>1
      <3>2. GithubBody[n] # "client_secret"
        BY <1>3, <2>2, <3>1 DEF SecretField
      <3>3. QED
        BY <2>1, <3>2
    <2>3. QED
      BY <1>3, <2>2 DEF Reveals, Credentials
  <1>4. QED
    BY <1>1, <1>2, <1>3

(* A step of the abstract session gives a party an outcome and never takes one
   back. *)
LEMMA OutcomesStand ==
    ASSUME outcome \in [Parties -> {"none", "ok", "err", "dropped"}],
           N!Run \/ N!Prove
           \/ \E p \in Parties, o \in {"ok", "err", "dropped"} : N!End(p, o)
    PROVE  /\ outcome' \in [Parties -> {"none", "ok", "err", "dropped"}]
           /\ \A p \in Parties : outcome[p] # "none" => outcome'[p] = outcome[p]
  <1>1. \/ outcome' = outcome
        \/ \E p \in Parties, o \in {"ok", "err", "dropped"} :
               outcome[p] = "none" /\ outcome' = [outcome EXCEPT ![p] = o]
    BY DEF N!Run, N!Prove, N!End
  <1>2. QED
    BY <1>1

(* Every step of the tool, of the browser or of a session keeps the invariant. *)
LEMMA CaptureStep ==
    ASSUME CaptureInv, [Next]_vars
    PROVE  CaptureInv'
  <1> USE DEF vars, browser, sessionVars
  <1>0. /\ RunInv /\ RecordsInv /\ CredentialsAreNotWritten /\ NoExitUnderALiveSession
        /\ "verifier" \in Parties
    BY DEF CaptureInv, Parties
  <1>1. ASSUME NEW how \in {"accept", "panic"}, Exit(how),
               args.platform = "other" => how = "panic"
        PROVE  CaptureInv'
    BY <1>0, <1>1 DEF Exit, CaptureInv, RunInv, RecordsInv, CredentialsAreNotWritten,
                      NoExitUnderALiveSession
  <1>2. CASE Start \/ Reset \/ SecretMissing
    BY <1>0, <1>1, <1>2 DEF Start, Reset, SecretMissing, RunInv
  <1>3. ASSUME UNCHANGED <<args, outcome, records, file>>, pc # "start", pc # "panic",
               pc' \in {"accept", "read", "token", "identity"}
        PROVE  CaptureInv'
    BY <1>0, <1>3 DEF CaptureInv, RunInv, RecordsInv, CredentialsAreNotWritten,
                      NoExitUnderALiveSession
  <1>4. CASE Consent \/ Visit \/ Accept \/ ProverFailed
    BY <1>3, <1>4 DEF Consent, Visit, Open, Accept, ProverFailed, Ready
  <1>5. ASSUME NEW pairs, ReadRequest(pairs) PROVE CaptureInv'
    BY <1>3, <1>5 DEF ReadRequest
  <1>6. CASE ReadShort \/ ReadWhole \/ IdleCloses
    BY <1>5, <1>6 DEF ReadShort, ReadWhole, IdleCloses
  <1>7. CASE SessionStep \/ VerifierAborted
    <2>1. /\ N!Run \/ N!Prove
             \/ \E p \in Parties, o \in {"ok", "err", "dropped"} : N!End(p, o)
          /\ UNCHANGED <<args, pc, records, file>>
      BY <1>0, <1>7 DEF SessionStep, VerifierAborted
    <2>2. /\ outcome' \in [Parties -> {"none", "ok", "err", "dropped"}]
          /\ outcome["verifier"] # "none" => outcome'["verifier"] # "none"
      BY <1>0, <2>1, OutcomesStand DEF RunInv
    <2>3. QED
      BY <1>0, <2>1, <2>2 DEF CaptureInv, RunInv, RecordsInv, CredentialsAreNotWritten,
                              NoExitUnderALiveSession
  <1>8. CASE Report
    <2>1. pc' = "failed" /\ outcome["verifier"] # "none" /\ pc \in {"token", "identity"}
          /\ UNCHANGED <<args, outcome, records, file>>
      BY <1>8 DEF Report, Exit, Ready
    <2>2. QED
      BY <1>0, <2>1 DEF CaptureInv, RunInv, RecordsInv, CredentialsAreNotWritten,
                        NoExitUnderALiveSession
  <1>9. CASE Recorded
    <2>1. /\ pc \in {"token", "identity"} /\ records' = records \cup {Session}
          /\ pc' \in {"identity", "write", "panic"} /\ UNCHANGED <<args, file>>
          /\ outcome' = outcome \/ outcome' = Fresh
      BY <1>9 DEF Recorded, Ready, GoOn
    <2>2. args.platform \in {"x", "github"}
      BY <1>0, <2>1 DEF RunInv
    <2>3. Session.record \cap Credentials = {}
      BY <2>2, RevealsNoCredential DEF Session
    <2>4. RecordsInv'
      BY <1>0, <2>1, <2>3 DEF RecordsInv
    <2>5. RunInv'
      BY <1>0, <2>1, <2>2 DEF RunInv, Fresh
    <2>6. QED
      BY <1>0, <2>1, <2>4, <2>5 DEF CaptureInv, CredentialsAreNotWritten,
                                    NoExitUnderALiveSession
  <1>10. CASE Write
    <2>1. ASSUME Exit("panic") PROVE CaptureInv'
      BY <1>1, <2>1
    <2>2. CASE /\ pc' = "written" /\ UNCHANGED <<args, outcome, records>>
               /\ file' = (UNION {session_json(r) : r \in records})
                          \cup {"notary", "code_verifier"}
      <3> DEFINE recorded == UNION {session_json(r) : r \in records}
      <3>1. CredentialsAreNotWritten'
        <4>0. file' = recorded \cup {"notary", "code_verifier"}
          BY <2>2
        <4>1. ASSUME NEW c \in file', c \in Credentials PROVE FALSE
          <5>1. c \notin {"notary", "code_verifier"}
            BY <4>1 DEF Credentials
          <5>2. c \in recorded
            <6> HIDE DEF recorded
            <6> QED
              BY <4>0, <4>1, <5>1
          <5>3. PICK r \in records : c \in session_json(r)
            BY <5>2
          <5>4. QED
            BY <1>0, <4>1, <5>3 DEF RecordsInv, session_json
        <4>2. QED
          BY <4>1 DEF CredentialsAreNotWritten, Credentials
      <3>2. args.platform # "other"
        BY <1>0, <1>10 DEF RunInv, Write
      <3>3. QED
        BY <1>0, <2>2, <3>1, <3>2 DEF CaptureInv, RunInv, RecordsInv, NoExitUnderALiveSession
    <2>3. QED
      BY <1>10, <2>1, <2>2 DEF Write
  <1>11. CASE UNCHANGED vars
    BY <1>0, <1>11 DEF CaptureInv, RunInv, RecordsInv, CredentialsAreNotWritten,
                       NoExitUnderALiveSession
  <1>12. QED
    BY <1>2, <1>4, <1>6, <1>7, <1>8, <1>9, <1>10, <1>11 DEF Next, Ended

(* The invariant holds throughout every run of the tool. *)
LEMMA CaptureInvariance == Spec => []CaptureInv
  <1>1. Init => CaptureInv
    BY DEF Init, CaptureInv, RunInv, RecordsInv, CredentialsAreNotWritten,
           NoExitUnderALiveSession, Fresh, NoFile
  <1>2. QED
    BY <1>1, CaptureStep, PTL DEF Spec

(* The file that capture_ceremony.rs writes holds neither the bearer nor the
   client secret, whatever the code, the visits and the outcome of the sessions. *)
THEOREM NoCredentialWritten == Spec => []CredentialsAreNotWritten
  <1>1. CaptureInv => CredentialsAreNotWritten
    BY DEF CaptureInv
  <1>2. QED
    BY <1>1, CaptureInvariance, PTL

(* The tool never exits with an error while its verifier task is under way. *)
THEOREM ExitsAfterItsVerifier == Spec => []NoExitUnderALiveSession
  <1>1. CaptureInv => NoExitUnderALiveSession
    BY DEF CaptureInv
  <1>2. QED
    BY <1>1, CaptureInvariance, PTL

-----------------------------------------------------------------------------
(* The code, and what it is spent on.                                      *)

\* The code is a text, of this run's consent.
CodeInv ==
    /\ issued \in Codes
    /\ code # None => code.text \in Seq(Byte)
    /\ CodeIsTheConsents

Kinds == {r.kind : r \in records}

\* A session is proved, and recorded, only with the code that was issued; which
\* sessions are recorded follows from where main stands.
CeremonyInv ==
    /\ pc \in {"start", "accept", "read"} =>
           stage = "open" /\ outcome = Fresh /\ ~aborting
    /\ pc \in {"start", "accept", "read", "token"} => records = {}
    /\ pc \in {"token", "identity", "write", "written"} => code # None
    /\ pc \in {"token", "identity"} =>
           \A p \in Parties : outcome[p] = "ok" => stage = "proved"
    /\ pc = "token" /\ stage = "proved" => code.text = issued
    /\ pc \in {"identity", "write", "written"} => code.text = issued
    /\ pc = "identity" => Kinds = {"token"}
    /\ pc \in {"write", "written"} =>
           Kinds = {"token", "identity"} /\ \A p \in Parties : outcome[p] = "ok"
    /\ \A r \in records : r.code.text = issued

FileInv == RunInv /\ CodeInv /\ CeremonyInv

(* What the tool is told and what the platform issued stay; the code changes when a
   redirect is taken, and then to what this run's consent brought. *)
LEMMA CodeStep ==
    ASSUME CodeInv, [Next]_vars
    PROVE  /\ CodeInv' /\ UNCHANGED <<args, issued>>
           /\ pc # "read" => UNCHANGED code
  <1> USE DEF vars, browser, sessionVars
  <1>1. ASSUME NEW kind, NEW pairs \in Arrived(Query(kind)), ReadRequest(pairs),
               socket.kind = kind
        PROVE  CodeInv' /\ UNCHANGED <<args, issued>> /\ pc = "read"
    <2>1. UNCHANGED <<args, issued>> /\ pc = "read"
      BY <1>1 DEF ReadRequest
    <2>2. CASE ~Granted(pairs)
      BY <1>1, <2>1, <2>2 DEF ReadRequest, CodeInv, CodeIsTheConsents
    <2>3. CASE Granted(pairs)
      <3> DEFINE text == form_decode(pairs[CHOOSE k \in Places(pairs, "code") : TRUE][2])
      <3>1. code' = [kind |-> kind, whole |-> pairs = Query(kind), text |-> text]
        BY <1>1, <2>3 DEF ReadRequest
      <3>2. issued \in Seq(Byte) /\ IsUtf8(issued)
        BY CodesAssumption DEF CodeInv, Byte
      <3>3. /\ kind = "consent" /\ text \in Seq(Byte)
            /\ text = issued \/ (args.platform = "x" /\ pairs # Query(kind))
        BY <1>1, <2>3, <3>2, OnlyTheConsentIsGranted
      <3> HIDE DEF text
      <3>4. code'.kind = kind /\ code'.text = text /\ (code'.whole <=> pairs = Query(kind))
        BY <3>1
      <3>5. QED
        BY <2>1, <3>3, <3>4 DEF CodeInv, CodeIsTheConsents
    <2>4. QED
      BY <2>1, <2>2, <2>3
  <1>2. ASSUME UNCHANGED <<args, issued, code>>
        PROVE  CodeInv'
    BY <1>2 DEF CodeInv, CodeIsTheConsents
  <1>3. CASE ReadShort
    BY <1>1, <1>3 DEF ReadShort
  <1>4. CASE ReadWhole
    <2>1. ReadRequest(Query(socket.kind))
      BY <1>4 DEF ReadWhole
    <2>2. Query(socket.kind) \in Arrived(Query(socket.kind))
      BY QueryArrivesWhole
    <2>3. QED
      BY <1>1, <2>1, <2>2
  <1>5. CASE IdleCloses
    <2>1. ReadRequest(<<>>)
      BY <1>5 DEF IdleCloses
    <2>2. ~Granted(<<>>)
      BY DEF Granted, Places
    <2>3. UNCHANGED <<args, issued, code>> /\ pc = "read"
      BY <2>1, <2>2 DEF ReadRequest
    <2>4. QED
      BY <1>2, <2>3
  <1>6. CASE ~(ReadShort \/ ReadWhole \/ IdleCloses)
    <2>1. UNCHANGED <<args, issued, code>>
      BY <1>6 DEF Next, Start, Exit, Consent, Visit, Open, Accept, Reset, SecretMissing,
                  SessionStep, ProverFailed, VerifierAborted, Report, Recorded, Write, Ended
    <2>2. QED
      BY <1>2, <2>1
  <1>7. QED
    BY <1>3, <1>4, <1>5, <1>6

(* A step of the abstract session proves only what ran, and gives an "ok" only for
   what is proved. *)
LEMMA OkNeedsTheProof ==
    ASSUME outcome \in [Parties -> {"none", "ok", "err", "dropped"}],
           \A p \in Parties : outcome[p] = "ok" => stage = "proved",
           N!Run \/ N!Prove
           \/ \E p \in Parties, o \in {"ok", "err", "dropped"} : N!End(p, o)
    PROVE  /\ \A p \in Parties : outcome'[p] = "ok" => stage' = "proved"
           /\ stage' = "proved" => stage = "proved" \/ N!Prove
  <1>1. CASE N!Run
    BY <1>1 DEF N!Run
  <1>2. CASE N!Prove
    BY <1>2 DEF N!Prove
  <1>3. ASSUME NEW p \in Parties, NEW o \in {"ok", "err", "dropped"}, N!End(p, o)
        PROVE  /\ \A r \in Parties : outcome'[r] = "ok" => stage' = "proved"
               /\ stage' = "proved" => stage = "proved" \/ N!Prove
    BY <1>3 DEF N!End
  <1>4. QED
    BY <1>1, <1>2, <1>3

(* Every step keeps the order: the code, the token session, the identity session,
   the file. *)
LEMMA CeremonyStep ==
    ASSUME FileInv, [Next]_vars
    PROVE  CeremonyInv'
  <1> USE DEF vars, browser, sessionVars
  <1>0. RunInv /\ CodeInv /\ CeremonyInv
    BY DEF FileInv
  <1>a. UNCHANGED <<args, issued>> /\ (pc # "read" => UNCHANGED code)
    BY <1>0, CodeStep
  <1>1. ASSUME UNCHANGED <<pc, outcome, records, stage>>,
               pc \in {"start", "accept", "read"} => UNCHANGED aborting
        PROVE  CeremonyInv'
    <2>1. pc \in {"token", "identity", "write", "written"} => UNCHANGED code
      BY <1>a
    <2>2. QED
      BY <1>0, <1>a, <1>1, <2>1 DEF CeremonyInv, Kinds
  <1>2. CASE Consent \/ Visit \/ ProverFailed \/ UNCHANGED vars \/ Ended
    BY <1>1, <1>2 DEF Consent, Visit, Open, ProverFailed, Ready, Ended
  <1>3. ASSUME NEW how \in {"panic", "failed"}, Exit(how)
        PROVE  CeremonyInv'
    BY <1>0, <1>a, <1>3 DEF Exit, CeremonyInv
  <1>4. CASE Reset \/ SecretMissing \/ Report
    BY <1>3, <1>4 DEF Reset, SecretMissing, Report
  <1>5. ASSUME UNCHANGED <<outcome, stage, aborting, records>>, pc \in {"start", "accept", "read"},
               pc' \in {"accept", "read"}
        PROVE  CeremonyInv'
    BY <1>0, <1>5 DEF CeremonyInv
  <1>6. CASE Start
    <2>1. CASE Exit("panic")
      BY <1>3, <2>1
    <2>2. CASE Exit("accept")
      BY <1>5, <1>6, <2>2 DEF Start, Exit
    <2>3. QED
      BY <1>6, <2>1, <2>2 DEF Start
  <1>7. CASE Accept
    BY <1>5, <1>7 DEF Accept
  <1>8. ASSUME NEW pairs, ReadRequest(pairs)
        PROVE  CeremonyInv'
    <2>1. UNCHANGED <<outcome, stage, aborting, records>> /\ pc = "read"
      BY <1>8 DEF ReadRequest
    <2>2. CASE ~Granted(pairs)
      BY <1>5, <1>8, <2>1, <2>2 DEF ReadRequest
    <2>3. CASE Granted(pairs)
      <3>1. pc' = "token" /\ code' # None
        <4> DEFINE text == form_decode(pairs[CHOOSE k \in Places(pairs, "code") : TRUE][2])
                   taken == [kind |-> socket.kind, whole |-> pairs = Query(socket.kind),
                             text |-> text]
        <4>1. pc' = "token" /\ code' = taken
          BY <1>8, <2>3 DEF ReadRequest
        <4>2. DOMAIN taken = {"kind", "whole", "text"} /\ DOMAIN None = {"kind"}
          BY DEF None
        <4>3. QED
          BY <4>1, <4>2
      <3>2. stage = "open" /\ outcome = Fresh /\ records = {}
        BY <1>0, <2>1 DEF CeremonyInv
      <3>3. \A p \in Parties : outcome'[p] # "ok"
        BY <2>1, <3>2 DEF Fresh
      <3>4. QED
        BY <2>1, <3>1, <3>2, <3>3 DEF CeremonyInv
    <2>4. QED
      BY <2>2, <2>3
  <1>9. CASE ReadShort \/ ReadWhole \/ IdleCloses
    BY <1>8, <1>9 DEF ReadShort, ReadWhole, IdleCloses
  <1>10. CASE SessionStep \/ (VerifierAborted /\ pc \in {"token", "identity"})
    <2>1. /\ N!Run \/ N!Prove
             \/ \E p \in Parties, o \in {"ok", "err", "dropped"} : N!End(p, o)
          /\ UNCHANGED <<pc, code, records>> /\ pc \in {"token", "identity"}
      BY <1>10 DEF SessionStep, VerifierAborted, Ready, Parties
    <2>2. /\ \A p \in Parties : outcome'[p] = "ok" => stage' = "proved"
          /\ stage' = "proved" => stage = "proved" \/ N!Prove
      BY <1>0, <2>1, OkNeedsTheProof DEF RunInv, CeremonyInv
    <2>3. ASSUME pc = "token", stage' = "proved"
          PROVE  code.text = issued
      <3>1. CASE stage = "proved"
        BY <1>0, <2>3, <3>1 DEF CeremonyInv
      <3>2. CASE stage # "proved"
        <4>1. PlatformAnswers
          BY <1>10, <2>3, <3>2 DEF SessionStep, VerifierAborted, N!Run, N!End
        <4>2. form_bytes(form_encode(code.text)) = issued
          BY <2>3, <4>1 DEF PlatformAnswers
        <4>3. code.text \in Seq(Byte)
          BY <1>0, <2>3 DEF CodeInv, CeremonyInv
        <4>4. QED
          BY <4>2, <4>3, DecodingUndoesEncoding
      <3>3. QED
        BY <3>1, <3>2
    <2>4. QED
      BY <1>0, <1>a, <2>1, <2>2, <2>3 DEF CeremonyInv, Kinds
  <1>11. CASE VerifierAborted /\ pc \notin {"token", "identity"}
    <2>1. /\ UNCHANGED <<pc, code, records, stage>> /\ outcome["verifier"] = "none"
          /\ "verifier" \in Parties
      BY <1>11 DEF VerifierAborted, N!End, Parties
    <2>2. pc \notin {"write", "written"}
      BY <1>0, <2>1 DEF CeremonyInv
    <2>3. pc \notin {"start", "accept", "read"}
      BY <1>0, <1>11 DEF CeremonyInv, VerifierAborted
    <2>4. QED
      BY <1>0, <1>a, <1>11, <2>1, <2>2, <2>3 DEF CeremonyInv
  <1>12. CASE Recorded
    <2>1. /\ pc \in {"token", "identity"} /\ UNCHANGED <<code, issued>>
          /\ \A p \in Parties : outcome[p] = "ok"
          /\ records' = records \cup {Session}
      BY <1>a, <1>12 DEF Recorded, Ready
    <2>2. stage = "proved" /\ code.text = issued
      BY <1>0, <2>1 DEF CeremonyInv, Parties
    <2>3. Session.kind = pc /\ Session.code.text = issued
      BY <2>2 DEF Session
    <2>4. Kinds' = Kinds \cup {pc} /\ \A r \in records' : r.code.text = issued
      BY <1>0, <2>1, <2>3 DEF Kinds, CeremonyInv
    <2>5. CASE pc = "token"
      <3>1. \/ pc' = "identity" /\ stage' = "open" /\ outcome' = Fresh
            \/ pc' = "panic"
        BY <1>12, <2>5 DEF Recorded, GoOn
      <3>2. Kinds = {}
        BY <1>0, <2>5 DEF CeremonyInv, Kinds
      <3>3. CASE pc' = "panic"
        BY <2>1, <2>4, <3>3 DEF CeremonyInv
      <3>4. CASE pc' = "identity" /\ stage' = "open" /\ outcome' = Fresh
        BY <1>0, <2>1, <2>2, <2>4, <2>5, <3>2, <3>4 DEF CeremonyInv, Fresh
      <3>5. QED
        BY <3>1, <3>3, <3>4
    <2>6. CASE pc = "identity"
      <3>1. pc' = "write" /\ UNCHANGED <<stage, outcome>>
        BY <1>12, <2>6 DEF Recorded, GoOn
      <3>2. QED
        BY <1>0, <2>1, <2>2, <2>4, <2>6, <3>1 DEF CeremonyInv
    <2>7. QED
      BY <2>1, <2>5, <2>6
  <1>13. CASE Write
    <2>1. CASE Exit("panic")
      BY <1>3, <2>1
    <2>2. CASE pc' = "written" /\ UNCHANGED <<code, records, outcome, stage>>
      BY <1>0, <1>a, <1>13, <2>2 DEF CeremonyInv, Kinds, Write
    <2>3. QED
      BY <1>13, <2>1, <2>2 DEF Write
  <1>14. QED
    BY <1>2, <1>4, <1>6, <1>7, <1>9, <1>10, <1>11, <1>12, <1>13 DEF Next

(* The file, and where it comes from, in every reachable state. *)
LEMMA FileInvariance == Spec => []FileInv
  <1>1. Init => FileInv
    BY DEF Init, FileInv, RunInv, CodeInv, CodeIsTheConsents, CeremonyInv, Fresh
  <1>2. CaptureInv /\ FileInv /\ [Next]_vars => FileInv'
    <2>1. ASSUME CaptureInv, FileInv, [Next]_vars
          PROVE  FileInv'
      <3>1. RunInv'
        BY <2>1, CaptureStep DEF CaptureInv
      <3>2. CodeInv'
        BY <2>1, CodeStep DEF FileInv
      <3>3. CeremonyInv'
        BY <2>1, CeremonyStep
      <3>4. QED
        BY <3>1, <3>2, <3>3 DEF FileInv
    <2>2. QED
      BY <2>1
  <1>3. QED
    BY <1>1, <1>2, CaptureInvariance, PTL DEF Spec

(* receive_code takes the code of this run's consent only, as the platform issued
   it: form_decode undoes form_encode on every code that is text in UTF-8, of
   whatever characters and whatever length.  (It would not on other bytes, which
   from_utf8_lossy makes U+FFFD of; the assumption on Codes leaves them out.) *)
THEOREM OnlyTheConsentsCode == Spec => []CodeIsTheConsents
  <1>1. FileInv => CodeIsTheConsents
    BY DEF FileInv, CodeInv
  <1>2. QED
    BY <1>1, FileInvariance, PTL

(* What is written are the token and the identity session of one ceremony, both
   proved to both parties, for the code the platform issued. *)
THEOREM WrittenFileIsOneCeremony == Spec => []FileIsOneCeremony
  <1>1. FileInv => FileIsOneCeremony
    BY DEF FileInv, CeremonyInv, Kinds, FileIsOneCeremony
  <1>2. QED
    BY <1>1, FileInvariance, PTL
=============================================================================
