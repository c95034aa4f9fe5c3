---------------------------- MODULE RangesProofs ----------------------------
(***************************************************************************)
(* Proofs about Ranges, for every document, every way to cut it into       *)
(* chunks, every head, and a response that ends after any byte.            *)
(***************************************************************************)
EXTENDS Ranges, Induction, SequenceTheorems, TLAPS

\* The provers do not find that a text written out is one of STRING.
Bytes == STRING \cup {"q", "n", "CR", "LF"}

Sizes == {Size[n] : n \in 0..MaxChunk}

\* A document and where its chunks end.
IsCut(doc, ends) ==
    /\ doc \in Seq(Bytes) /\ Len(doc) > 0
    /\ ends \subseteq 1..Len(doc) /\ Len(doc) \in ends

\* Where byte k of the document is in the framed body: behind the framing of its
\* own chunk's size, and of the chunks that end ahead of it.
Ahead(ends, k) == Cardinality({c \in ends : c < k})
At(ends, k) == k + 3 + 5 * Ahead(ends, k)

-----------------------------------------------------------------------------
(* Numbers and sequences.                                                  *)

(* The least of a set. *)
LEMMA MinIsLeast ==
    ASSUME NEW S, S \subseteq Nat, S # {}
    PROVE  Min(S) \in S /\ \A x \in S : Min(S) <= x
  <1>1. PICK n \in S : \A m \in S : n <= m
    BY LeastNatural
  <1>2. QED
    BY <1>1 DEF Min

LEMMA MinIs ==
    ASSUME NEW S, S \subseteq Nat, NEW n \in S, \A x \in S : n <= x
    PROVE  Min(S) = n
  <1>1. Min(S) \in S /\ \A x \in S : Min(S) <= x
    BY MinIsLeast
  <1>2. Min(S) <= n /\ n <= Min(S) /\ Min(S) \in Nat /\ n \in Nat
    BY <1>1
  <1>3. QED
    BY <1>2

(* A slice of a text. *)
LEMMA Slice ==
    ASSUME NEW s \in Seq(Bytes), NEW m \in Nat \ {0}, NEW n \in Nat, n <= Len(s)
    PROVE  /\ SubSeq(s, m, n) \in Seq(Bytes)
           /\ Len(SubSeq(s, m, n)) = IF m <= n THEN n - m + 1 ELSE 0
           /\ \A i \in 1..(n - m + 1) : SubSeq(s, m, n)[i] = s[m + i - 1]
  <1>1. \A i \in m..n : s[i] \in Bytes
    BY ElementOfSeq
  <1>2. QED
    BY <1>1, SubSeqProperties

-----------------------------------------------------------------------------
(* Where the bytes of a document are.                                      *)

(* The ends ahead of a byte. *)
LEMMA EndsAhead ==
    ASSUME NEW doc, NEW ends, IsCut(doc, ends), NEW j \in Nat, NEW k \in Nat, j <= k
    PROVE  /\ Ahead(ends, j) \in Nat /\ Ahead(ends, j) <= Ahead(ends, k)
           /\ (\A c \in ends : ~(j <= c /\ c < k)) => Ahead(ends, j) = Ahead(ends, k)
           /\ (\E c \in ends : j <= c /\ c < k) => Ahead(ends, j) + 1 <= Ahead(ends, k)
  <1> DEFINE A(n) == {c \in ends : c < n}
  <1>1. ends \subseteq 1..Len(doc) /\ Len(doc) \in Nat /\ \A c \in ends : c \in Nat
    BY DEF IsCut
  <1>2. \A n \in Nat : IsFiniteSet(A(n))
    <2>1. IsFiniteSet(1..Len(doc))
      BY <1>1, FS_Interval
    <2>2. \A n \in Nat : A(n) \subseteq 1..Len(doc)
      BY <1>1
    <2>3. QED
      BY <2>1, <2>2, FS_Subset
  <1>3. \A n \in Nat : Cardinality(A(n)) \in Nat
    BY <1>2, FS_CardinalityType
  <1>4. A(j) \subseteq A(k)
    <2> SUFFICES ASSUME NEW c \in ends, c < j
                 PROVE  c < k
      OBVIOUS
    <2> QED
      BY <1>1
  <1>5. Cardinality(A(j)) <= Cardinality(A(k))
    BY <1>2, <1>4, FS_Subset
  <1>6. ASSUME \A c \in ends : ~(j <= c /\ c < k)
        PROVE  A(j) = A(k)
    <2>1. \A c \in ends : c < j <=> c < k
      BY <1>1, <1>6
    <2>2. QED
      BY <2>1
  <1>7. ASSUME NEW c \in ends, j <= c, c < k
        PROVE  Cardinality(A(j)) + 1 <= Cardinality(A(k))
    <2>1. c \notin A(j) /\ A(j) \cup {c} \subseteq A(k)
      <3>1. c \in Nat /\ ~(c < j)
        BY <1>1, <1>7
      <3>2. A(j) \cup {c} \subseteq A(k)
        BY <1>4, <1>7
      <3>3. QED
        BY <3>1, <3>2
    <2>2. Cardinality(A(j) \cup {c}) = Cardinality(A(j)) + 1
      BY <1>2, <2>1, FS_AddElement
    <2>3. Cardinality(A(j) \cup {c}) <= Cardinality(A(k))
      BY <1>2, <2>1, FS_Subset
    <2>4. QED
      BY <2>2, <2>3
  <1>8. QED
    BY <1>3, <1>5, <1>6, <1>7 DEF Ahead

(* Behind an end there is one more. *)
LEMMA EndCounts ==
    ASSUME NEW doc, NEW ends, IsCut(doc, ends), NEW k \in ends
    PROVE  Ahead(ends, k + 1) = Ahead(ends, k) + 1
  <1>1. ends \subseteq 1..Len(doc) /\ Len(doc) \in Nat /\ \A c \in ends : c \in Nat
    BY DEF IsCut
  <1> DEFINE A == {c \in ends : c < k}
  <1>2. {c \in ends : c < k + 1} = A \cup {k} /\ k \notin A
    <2>1. k \in Nat /\ ~(k < k) /\ \A c \in ends : c < k + 1 <=> c < k \/ c = k
      BY <1>1
    <2>2. QED
      BY <2>1
  <1>3. IsFiniteSet(A)
    <2>1. IsFiniteSet(1..Len(doc))
      BY <1>1, FS_Interval
    <2>2. A \subseteq 1..Len(doc)
      BY <1>1
    <2>3. QED
      BY <2>1, <2>2, FS_Subset
  <1>4. Ahead(ends, k) = Cardinality(A) /\ Ahead(ends, k + 1) = Cardinality(A \cup {k})
    BY <1>2 DEF Ahead
  <1> HIDE DEF A
  <1>5. QED
    BY <1>2, <1>3, <1>4, FS_AddElement

(* Later bytes are at later places. *)
LEMMA PlacesRise ==
    ASSUME NEW doc, NEW ends, IsCut(doc, ends), NEW j \in Nat, NEW k \in Nat, j <= k
    PROVE  /\ At(ends, j) \in Nat /\ At(ends, k) \in Nat
           /\ At(ends, j) >= j + 3 /\ At(ends, j) + (k - j) <= At(ends, k)
  <1>1. Ahead(ends, j) \in Nat /\ Ahead(ends, k) \in Nat /\ Ahead(ends, j) <= Ahead(ends, k)
    BY EndsAhead, j <= j, k <= k
  <1>2. QED
    BY <1>1 DEF At

(* Two bytes are as far apart as in the document, unless a chunk ends between them. *)
LEMMA PlacesStay ==
    ASSUME NEW doc, NEW ends, IsCut(doc, ends), NEW j \in Nat, NEW k \in Nat, j <= k,
           \A c \in ends : ~(j <= c /\ c < k)
    PROVE  At(ends, k) = At(ends, j) + (k - j)
  <1>1. Ahead(ends, j) = Ahead(ends, k) /\ Ahead(ends, j) \in Nat
    BY EndsAhead
  <1>2. QED
    BY <1>1 DEF At

(* Five bytes of framing follow the last byte of a chunk. *)
LEMMA PlacesJump ==
    ASSUME NEW doc, NEW ends, IsCut(doc, ends), NEW c \in ends
    PROVE  c \in Nat /\ At(ends, c) \in Nat /\ At(ends, c + 1) = At(ends, c) + 6
  <1>1. c \in Nat
    BY DEF IsCut
  <1>2. Ahead(ends, c + 1) = Ahead(ends, c) + 1 /\ Ahead(ends, c) \in Nat
    BY <1>1, EndCounts, EndsAhead, c <= c
  <1>3. QED
    BY <1>1, <1>2 DEF At

(* Three bytes are ahead of the first. *)
LEMMA FirstPlace ==
    ASSUME NEW doc, NEW ends, IsCut(doc, ends)
    PROVE  At(ends, 1) = 4
  <1>1. {c \in ends : c < 1} = {}
    <2>1. \A c \in ends : c \in Nat /\ c >= 1
      BY DEF IsCut
    <2>2. QED
      BY <2>1
  <1>2. QED
    BY <1>1, FS_EmptySet DEF At, Ahead

-----------------------------------------------------------------------------
(* A framed body.                                                          *)

\* b is doc framed into the chunks that end at ends, but perhaps for the line that
\* closes it: its bytes, and five of framing between two chunks.
Framing(b, doc, ends) ==
    /\ b \in Seq(Bytes)
    /\ Len(b) >= At(ends, Len(doc)) + 5
    /\ b[1] \in Sizes /\ b[2] = "CR" /\ b[3] = "LF"
    /\ \A k \in 1..Len(doc) : b[At(ends, k)] = doc[k]
    /\ \A c \in ends : LET at == At(ends, c) IN
           /\ b[at + 1] = "CR" /\ b[at + 2] = "LF"
           /\ b[at + 3] \in Sizes
           /\ b[at + 4] = "CR" /\ b[at + 5] = "LF"
    /\ \A p \in (At(ends, Len(doc)) + 6)..Len(b) : b[p] \in Whitespace

(* A byte that is no whitespace and no size is one of the document. *)
LEMMA Covered ==
    ASSUME NEW doc, NEW ends, IsCut(doc, ends), NEW b, Framing(b, doc, ends),
           NEW p \in 1..Len(b), b[p] \notin Whitespace, b[p] \notin Sizes
    PROVE  \E k \in 1..Len(doc) : p = At(ends, k)
  <1> DEFINE T == {k \in Nat : At(ends, k + 1) > p}
             L == Len(doc)
  <1>1. L \in Nat \ {0} /\ L \in ends /\ \A c \in ends : c \in 1..L
    BY DEF IsCut
  <1>2. ASSUME NEW k \in Nat
        PROVE  At(ends, k) \in Nat /\ At(ends, k) >= k + 3
    BY PlacesRise, k <= k
  <1>3. PICK n \in T : \A m \in T : n <= m
    <2>1. p \in Nat /\ At(ends, p + 1) > p
      BY <1>2, SMTT(30)
    <2>2. p \in T /\ T \subseteq Nat
      BY <2>1
    <2>3. QED
      BY <2>2, LeastNatural
  <1>4. n \in Nat /\ p < At(ends, n + 1) /\ p \in Nat
    OBVIOUS
  <1>5. n # 0
    <2>1. /\ b[1] \in Sizes /\ b[2] = "CR" /\ b[3] = "LF"
          /\ "CR" \in Whitespace /\ "LF" \in Whitespace
      BY DEF Framing, Whitespace
    <2>2. p # 1 /\ p # 2 /\ p # 3
      BY <2>1
    <2>3. p > 3
      BY <2>2
    <2>4. QED
      BY <1>4, <2>3, FirstPlace
  <1>6. At(ends, n) <= p
    <2>1. n - 1 \in Nat /\ n - 1 \notin T /\ (n - 1) + 1 = n
      BY <1>3, <1>4, <1>5
    <2>2. QED
      BY <1>2, <1>4, <2>1, SMTT(30)
  <1>7. At(ends, n) \in Nat /\ At(ends, L) \in Nat
    BY <1>1, <1>2, <1>4
  <1> HIDE DEF T
  <1>8. CASE n > L
    <2>1. At(ends, L + 1) = At(ends, L) + 6
      BY <1>1, PlacesJump
    <2>2. At(ends, L + 1) + (n - (L + 1)) <= At(ends, n)
      BY <1>1, <1>4, <1>8, PlacesRise
    <2>3. p \in (At(ends, L) + 6)..Len(b)
      BY <1>1, <1>4, <1>6, <1>7, <1>8, <2>1, <2>2
    <2>4. QED
      BY <2>3 DEF Framing
  <1>9. CASE n <= L /\ n \in ends
    <2>1. At(ends, n + 1) = At(ends, n) + 6
      BY <1>9, PlacesJump
    <2>2. \/ p = At(ends, n) \/ p = At(ends, n) + 1 \/ p = At(ends, n) + 2
          \/ p = At(ends, n) + 3 \/ p = At(ends, n) + 4 \/ p = At(ends, n) + 5
      <3>1. \A a \in Nat : a <= p /\ p < a + 6 =>
                p = a \/ p = a + 1 \/ p = a + 2 \/ p = a + 3 \/ p = a + 4 \/ p = a + 5
        BY <1>4
      <3>2. At(ends, n) <= p /\ p < At(ends, n) + 6 /\ At(ends, n) \in Nat
        BY <1>4, <1>6, <1>7, <2>1
      <3>3. QED
        BY <3>1, <3>2
    <2>3. /\ b[At(ends, n) + 1] = "CR" /\ b[At(ends, n) + 2] = "LF"
          /\ b[At(ends, n) + 3] \in Sizes
          /\ b[At(ends, n) + 4] = "CR" /\ b[At(ends, n) + 5] = "LF"
          /\ "CR" \in Whitespace /\ "LF" \in Whitespace
      BY <1>9 DEF Framing, Whitespace
    <2>4. p = At(ends, n)
      BY <2>2, <2>3
    <2>5. QED
      BY <1>1, <1>4, <1>5, <1>9, <2>4
  <1>10. CASE n <= L /\ n \notin ends
    <2>1. \A c \in ends : ~(n <= c /\ c < n + 1)
      BY <1>1, <1>4, <1>10
    <2>2. At(ends, n + 1) = At(ends, n) + ((n + 1) - n)
      BY <1>4, <2>1, PlacesStay
    <2>3. p = At(ends, n)
      BY <1>4, <1>6, <1>7, <2>2
    <2>4. QED
      BY <1>1, <1>4, <1>5, <1>10, <2>3
  <1>11. QED
    BY <1>1, <1>4, <1>8, <1>9, <1>10

(* Between two bytes with no size between them there is no end, and what is between
   them is what is between them in the document. *)
LEMMA Straight ==
    ASSUME NEW doc, NEW ends, IsCut(doc, ends), NEW b, Framing(b, doc, ends),
           NEW j \in 1..Len(doc), NEW k \in 1..Len(doc), At(ends, j) <= At(ends, k),
           \A p \in (At(ends, j) + 1)..(At(ends, k) - 1) : b[p] \notin Sizes
    PROVE  /\ j <= k
           /\ \A c \in ends : ~(j <= c /\ c < k)
           /\ \A i \in j..k : At(ends, i) = At(ends, j) + (i - j)
  <1>1. j \in Nat /\ k \in Nat /\ At(ends, j) \in Nat /\ At(ends, k) \in Nat
    BY PlacesRise
  <1>2. j <= k
    <2> SUFFICES ASSUME k < j PROVE FALSE
      BY <1>1
    <2>1. At(ends, k) + (j - k) <= At(ends, j)
      BY <1>1, PlacesRise
    <2>2. QED
      BY <1>1, <2>1
  <1>3. ASSUME NEW c \in ends, j <= c, c < k
        PROVE  FALSE
    <2>1. c \in Nat /\ At(ends, c) \in Nat /\ At(ends, c + 1) = At(ends, c) + 6
      BY PlacesJump
    <2>2. At(ends, j) + (c - j) <= At(ends, c)
      BY <1>1, <1>3, <2>1, PlacesRise
    <2>3. At(ends, c + 1) + (k - (c + 1)) <= At(ends, k)
      <3>1. c + 1 \in Nat /\ c + 1 <= k
        BY <1>1, <1>3, <2>1
      <3>2. QED
        BY <1>1, <3>1, PlacesRise
    <2>4. At(ends, c) + 3 \in (At(ends, j) + 1)..(At(ends, k) - 1)
      <3>1. At(ends, j) <= At(ends, c)
        BY <1>1, <1>3, <2>1, <2>2
      <3>2. At(ends, c) + 6 <= At(ends, k)
        BY <1>1, <1>3, <2>1, <2>3
      <3>3. QED
        BY <1>1, <2>1, <3>1, <3>2, SMTT(30)
    <2>5. b[At(ends, c) + 3] \in Sizes
      BY DEF Framing
    <2>6. QED
      BY <2>4, <2>5
  <1>4. ASSUME NEW i \in j..k
        PROVE  At(ends, i) = At(ends, j) + (i - j)
    <2>1. i \in Nat /\ j <= i
      BY <1>1
    <2>2. \A c \in ends : ~(j <= c /\ c < i)
      <3>1. \A c \in ends : c \in Nat
        BY DEF IsCut
      <3>2. QED
        BY <1>1, <1>3, <2>1, <3>1
    <2>3. QED
      BY <1>1, <2>1, <2>2, PlacesStay
  <1>5. QED
    BY <1>2, <1>3, <1>4

-----------------------------------------------------------------------------
(* What the scans find.                                                    *)

\* The places of a member: its key, its colon and the first byte of its value, or
\* what ends the body instead.
KeyAt(body, s) ==
    s \in 1..(Len(body) - 2) /\ body[s] = "q" /\ body[s + 1] = "n" /\ body[s + 2] = "q"

Blank(body, j, k) == \A i \in j..k : body[i] \in Whitespace

ColonAt(body, s, c) ==
    /\ KeyAt(body, s) /\ c \in (s + 3)..Len(body)
    /\ body[c] = ":" /\ Blank(body, s + 3, c - 1)

Opening(body, s, c, v) ==
    ColonAt(body, s, c) /\ v \in (c + 1)..Len(body) /\ Blank(body, c + 1, v - 1)

\* A string member, and the closing quote of its value.
StringAt(body, s, c, v, e) ==
    /\ Opening(body, s, c, v) /\ body[v] = "q"
    /\ e \in (v + 1)..Len(body) /\ body[e] = "q"
    /\ \A k \in (v + 1)..(e - 1) : body[k] # "q"

\* A number member, what is behind its digits and its terminator.
NumberAt(body, s, c, v, w, t) ==
    /\ Opening(body, s, c, v)
    /\ w \in (v + 1)..Len(body) /\ (\A k \in v..(w - 1) : body[k] \in Digits)
    /\ (body[v] = "0" => w = v + 1)
    /\ t \in w..Len(body) /\ Blank(body, w, t - 1) /\ body[t] \in {",", "}"}

(* An occurrence of the key is its three bytes. *)
LEMMA KeyFound ==
    ASSUME NEW body \in Seq(Bytes)
    PROVE  \A s : s \in find_first(body, Key) <=> KeyAt(body, s)
  <1>1. Len(Key) = 3 /\ Key \in Seq(Bytes) /\ Key[1] = "q" /\ Key[2] = "n" /\ Key[3] = "q"
    <2>1. "q" \in Bytes /\ "n" \in Bytes
      BY DEF Bytes
    <2>2. Key \in Seq(Bytes)
      BY <2>1 DEF Key
    <2>3. Len(Key) = 3
      BY DEF Key
    <2>4. Key[1] = "q" /\ Key[2] = "n" /\ Key[3] = "q"
      BY DEF Key
    <2>5. QED
      BY <2>2, <2>3, <2>4
  <1>2. Len(body) \in Nat
    OBVIOUS
  <1>3. ASSUME NEW s \in 1..(Len(body) - 2)
        PROVE  SubSeq(body, s, s + 2) = Key <=>
                   body[s] = "q" /\ body[s + 1] = "n" /\ body[s + 2] = "q"
    <2> DEFINE three == SubSeq(body, s, s + 2)
    <2>1. s \in Nat \ {0} /\ s + 2 \in Nat /\ s + 2 <= Len(body) /\ (s + 2) - s + 1 = 3
          /\ s <= s + 2
      BY <1>2
    <2>2. /\ three \in Seq(Bytes) /\ Len(three) = 3
          /\ \A i \in 1..3 : three[i] = body[s + i - 1]
      BY <2>1, Slice
    <2>3. three[1] = body[s] /\ three[2] = body[s + 1] /\ three[3] = body[s + 2]
      <3>1. s + 1 - 1 = s /\ s + 2 - 1 = s + 1 /\ s + 3 - 1 = s + 2
        BY <2>1
      <3>2. QED
        BY <2>2, <3>1
    <2> HIDE DEF three
    <2>4. (\A i \in 1..3 : three[i] = Key[i]) => three = Key
      BY <1>1, <2>2, SeqEqual
    <2>5. three = Key <=> three[1] = "q" /\ three[2] = "n" /\ three[3] = "q"
      <3>1. \A i \in 1..3 : i = 1 \/ i = 2 \/ i = 3
        OBVIOUS
      <3>2. QED
        BY <1>1, <2>4, <3>1
    <2>6. QED
      BY <2>3, <2>5 DEF three
  <1>4. \A s \in 1..(Len(body) - 2) :
            s + Len(Key) - 1 = s + 2 /\ (Len(body) - Len(Key)) + 1 = Len(body) - 2
    BY <1>1, <1>2
  <1>5. ASSUME NEW s
        PROVE  s \in find_first(body, Key) <=> KeyAt(body, s)
    <2>1. (Len(body) - Len(Key)) + 1 = Len(body) - 2
      BY <1>1, <1>2
    <2>2. s \in find_first(body, Key) <=>
              s \in 1..(Len(body) - 2) /\ SubSeq(body, s, s + Len(Key) - 1) = Key
      BY <2>1 DEF find_first, Occurs
    <2>3. QED
      BY <1>3, <1>4, <2>2 DEF KeyAt
  <1>6. QED
    BY <1>5

(* The whitespace skipped, and what it was skipped for. *)
LEMMA SkipStops ==
    ASSUME NEW body \in Seq(Bytes), NEW at \in 1..(Len(body) + 1)
    PROVE  LET v == skip_json_whitespace(body, at) IN
           /\ v \in at..(Len(body) + 1) /\ Blank(body, at, v - 1)
           /\ v <= Len(body) => body[v] \notin Whitespace
  <1> DEFINE T == {p \in at..(Len(body) + 1) : p > Len(body) \/ body[p] \notin Whitespace}
             v == Min(T)
  <1>1. Len(body) \in Nat /\ at \in Nat /\ T \subseteq Nat /\ Len(body) + 1 \in T
    OBVIOUS
  <1>2. v \in T /\ \A x \in T : v <= x
    <2> HIDE DEF T
    <2> QED
      BY <1>1, MinIsLeast
  <1> HIDE DEF v
  <1>3. v \in at..(Len(body) + 1) /\ (v > Len(body) \/ body[v] \notin Whitespace)
    BY <1>2
  <1>4. \A i \in at..(v - 1) : i \in at..(Len(body) + 1) /\ i < v /\ i \notin T
    BY <1>1, <1>2, <1>3
  <1>5. Blank(body, at, v - 1)
    BY <1>4 DEF Blank
  <1>6. QED
    BY <1>1, <1>3, <1>5 DEF skip_json_whitespace, v

LEMMA SkipIs ==
    ASSUME NEW body \in Seq(Bytes), NEW at \in 1..(Len(body) + 1), NEW v \in at..Len(body),
           Blank(body, at, v - 1), body[v] \notin Whitespace
    PROVE  skip_json_whitespace(body, at) = v
  <1>1. PICK w : w = skip_json_whitespace(body, at)
    OBVIOUS
  <1>2. /\ w \in at..(Len(body) + 1) /\ Blank(body, at, w - 1)
        /\ w <= Len(body) => body[w] \notin Whitespace
    BY <1>1, SkipStops
  <1>3. Len(body) \in Nat /\ at \in Nat /\ v \in Nat /\ w \in Nat
    BY <1>2
  <1>4. ~(w < v)
    BY <1>2, <1>3 DEF Blank
  <1>5. ~(v < w)
    BY <1>2, <1>3 DEF Blank
  <1>6. QED
    BY <1>1, <1>3, <1>4, <1>5

(* A key that a colon follows. *)
LEMMA ColonIs ==
    ASSUME NEW body \in Seq(Bytes), NEW s, KeyAt(body, s)
    PROVE  LET colon == skip_json_whitespace(body, s + Len(Key)) IN
           /\ colon <= Len(body) /\ body[colon] = ":" => ColonAt(body, s, colon)
           /\ \A c : ColonAt(body, s, c) => colon = c /\ c <= Len(body) /\ body[c] = ":"
  <1> DEFINE colon == skip_json_whitespace(body, s + 3)
  <1>1. Len(Key) = 3 /\ Len(body) \in Nat /\ s \in Nat /\ s + 3 \in 1..(Len(body) + 1)
    BY DEF Key, KeyAt
  <1>2. colon \in (s + 3)..(Len(body) + 1) /\ Blank(body, s + 3, colon - 1)
    BY <1>1, SkipStops
  <1>3. ASSUME NEW c, ColonAt(body, s, c)
        PROVE  colon = c /\ c <= Len(body) /\ body[c] = ":"
    <2>1. c \in (s + 3)..Len(body) /\ body[c] = ":" /\ Blank(body, s + 3, c - 1)
      BY <1>3 DEF ColonAt
    <2>2. body[c] \notin Whitespace
      BY <2>1 DEF Whitespace
    <2>3. colon = c
      BY <1>1, <2>1, <2>2, SkipIs
    <2>4. QED
      BY <1>1, <2>1, <2>3
  <1> HIDE DEF colon
  <1>4. colon <= Len(body) /\ body[colon] = ":" => ColonAt(body, s, colon)
    BY <1>1, <1>2 DEF ColonAt
  <1>5. QED
    BY <1>1, <1>3, <1>4 DEF colon

\* A key whose value key_and_value returns, unless another does first.
Starts(body, quoted, s) ==
    \E c : /\ ColonAt(body, s, c)
           /\ quoted => LET v == skip_json_whitespace(body, c + 1) IN
                        v <= Len(body) /\ body[v] = "q"

(* The keys key_and_value looks at; it returns the first. *)
LEMMA FirstStart ==
    ASSUME NEW body \in Seq(Bytes), NEW quoted \in BOOLEAN
    PROVE  /\ \A kv \in key_and_value(body, quoted) :
                  \E c \in Nat : /\ ColonAt(body, kv[1], c) /\ Starts(body, quoted, kv[1])
                                 /\ kv[2] = skip_json_whitespace(body, c + 1)
                                 /\ \A s \in Nat : Starts(body, quoted, s) => kv[1] <= s
           /\ \A s, c : ColonAt(body, s, c) /\ Starts(body, quoted, s)
                        /\ (\A z \in 1..(s - 1) : ~Starts(body, quoted, z)) =>
                  key_and_value(body, quoted) = {<<s, skip_json_whitespace(body, c + 1)>>}
  <1> DEFINE colon(s) == skip_json_whitespace(body, s + Len(Key))
             value(s) == skip_json_whitespace(body, colon(s) + 1)
             starts == {s \in find_first(body, Key) :
                           /\ colon(s) <= Len(body) /\ body[colon(s)] = ":"
                           /\ quoted => value(s) <= Len(body) /\ body[value(s)] = "q"}
  <1>1. key_and_value(body, quoted) =
            IF starts = {} THEN {} ELSE {<<Min(starts), value(Min(starts))>>}
    BY DEF key_and_value
  <1>2. ASSUME NEW s, NEW c, ColonAt(body, s, c)
        PROVE  s \in Nat \ {0} /\ c \in Nat /\ KeyAt(body, s) /\ colon(s) = c
    <2>1. KeyAt(body, s) /\ s \in Nat \ {0} /\ Len(body) \in Nat
      BY <1>2 DEF ColonAt, KeyAt
    <2>2. colon(s) = c
      BY <1>2, <2>1, ColonIs
    <2>3. c \in Nat
      BY <1>2, <2>1 DEF ColonAt
    <2>4. QED
      BY <2>1, <2>2, <2>3
  <1>3. \A s : s \in starts <=> Starts(body, quoted, s)
    <2>1. ASSUME NEW s, s \in starts
          PROVE  Starts(body, quoted, s)
      <3>1. KeyAt(body, s)
        BY <2>1, KeyFound
      <3>2. ColonAt(body, s, colon(s))
        BY <2>1, <3>1, ColonIs
      <3>3. QED
        BY <2>1, <3>2 DEF Starts
    <2>2. ASSUME NEW s, Starts(body, quoted, s)
          PROVE  s \in starts
      <3>1. PICK c : /\ ColonAt(body, s, c)
                     /\ quoted => LET v == skip_json_whitespace(body, c + 1) IN
                                  v <= Len(body) /\ body[v] = "q"
        BY <2>2 DEF Starts
      <3>2. colon(s) = c /\ KeyAt(body, s)
        BY <1>2, <3>1
      <3>3. colon(s) <= Len(body) /\ body[colon(s)] = ":"
        BY <3>1, <3>2, ColonIs
      <3>4. s \in find_first(body, Key)
        BY <3>2, KeyFound
      <3>5. quoted => value(s) <= Len(body) /\ body[value(s)] = "q"
        BY <3>1, <3>2
      <3>6. QED
        BY <3>3, <3>4, <3>5
    <2>3. QED
      BY <2>1, <2>2
  <1>4. starts \subseteq Nat
    <2>1. \A s : Starts(body, quoted, s) => s \in Nat
      BY <1>2 DEF Starts
    <2> HIDE DEF starts
    <2>2. QED
      BY <1>3, <2>1
  <1> HIDE DEF starts
  <1>5. starts # {} => Min(starts) \in starts /\ \A x \in starts : Min(starts) <= x
    BY <1>4, MinIsLeast
  <1>6. ASSUME NEW kv \in key_and_value(body, quoted)
        PROVE  \E c \in Nat : /\ ColonAt(body, kv[1], c) /\ Starts(body, quoted, kv[1])
                              /\ kv[2] = skip_json_whitespace(body, c + 1)
                              /\ \A s \in Nat : Starts(body, quoted, s) => kv[1] <= s
    <2>1. PICK s : s = Min(starts) /\ s \in starts /\ kv = <<s, value(s)>>
      BY <1>1, <1>5, <1>6
    <2>2. Starts(body, quoted, s) /\ \A x \in Nat : Starts(body, quoted, x) => s <= x
      BY <1>3, <1>5, <2>1
    <2>3. PICK c : ColonAt(body, s, c)
      BY <2>2 DEF Starts
    <2>4. c \in Nat /\ colon(s) = c
      BY <1>2, <2>3
    <2>5. kv[1] = s /\ kv[2] = skip_json_whitespace(body, c + 1)
      BY <2>1, <2>4
    <2> HIDE DEF colon, value
    <2>6. QED
      BY <2>2, <2>3, <2>4, <2>5
  <1>7. ASSUME NEW s, NEW c, ColonAt(body, s, c), Starts(body, quoted, s),
               \A z \in 1..(s - 1) : ~Starts(body, quoted, z)
        PROVE  key_and_value(body, quoted) = {<<s, skip_json_whitespace(body, c + 1)>>}
    <2>1. s \in starts /\ s \in Nat /\ colon(s) = c
      BY <1>2, <1>3, <1>7
    <2>2. ASSUME NEW x \in starts
          PROVE  s <= x
      <3>1. Starts(body, quoted, x)
        BY <1>3
      <3>2. x \in Nat \ {0}
        BY <1>2, <3>1 DEF Starts
      <3>3. QED
        BY <1>7, <2>1, <3>1, <3>2
    <2>3. Min(starts) = s
      BY <1>4, <2>1, <2>2, MinIs
    <2>4. QED
      BY <1>1, <2>1, <2>3
  <1>8. QED
    BY <1>6, <1>7

LEMMA TheFirstStart ==
    ASSUME NEW body \in Seq(Bytes), NEW quoted \in BOOLEAN, NEW s, NEW c, ColonAt(body, s, c),
           Starts(body, quoted, s), \A z \in 1..(s - 1) : ~Starts(body, quoted, z)
    PROVE  key_and_value(body, quoted) = {<<s, skip_json_whitespace(body, c + 1)>>}
  BY FirstStart

(* in_body returns a string member, the first: no member begins ahead of it. *)
LEMMA StringFound ==
    ASSUME NEW body \in Seq(Bytes), NEW r \in in_body(body)
    PROVE  \E s, c, v, e : /\ StringAt(body, s, c, v, e)
                           /\ r = [start |-> s, end |-> e + 1]
  <1> DEFINE Closing(kv) == {p \in (kv[2] + 1)..Len(body) : body[p] = "q"}
  <1>1. PICK kv \in key_and_value(body, TRUE) :
            r \in IF Closing(kv) = {} THEN {}
                  ELSE {[start |-> kv[1], end |-> Min(Closing(kv)) + 1]}
    BY DEF in_body
  <1>2. PICK c \in Nat : /\ ColonAt(body, kv[1], c) /\ Starts(body, TRUE, kv[1])
                         /\ kv[2] = skip_json_whitespace(body, c + 1)
    BY FirstStart
  <1> DEFINE s == kv[1]
             v == kv[2]
             e == Min(Closing(kv))
  <1>3. /\ Len(body) \in Nat /\ c \in (s + 3)..Len(body) /\ s \in Nat
        /\ c + 1 \in 1..(Len(body) + 1)
    BY <1>2, SMTT(30) DEF ColonAt, KeyAt
  <1>4. v \in (c + 1)..(Len(body) + 1) /\ Blank(body, c + 1, v - 1)
    BY <1>2, <1>3, SkipStops
  <1>5. v <= Len(body) /\ body[v] = "q"
    <2>1. PICK d : /\ ColonAt(body, s, d)
                   /\ LET w == skip_json_whitespace(body, d + 1) IN
                      w <= Len(body) /\ body[w] = "q"
      BY <1>2 DEF Starts
    <2>2. d = c
      <3>1. KeyAt(body, s)
        BY <1>2 DEF ColonAt
      <3>2. \A x : ColonAt(body, s, x) => skip_json_whitespace(body, s + Len(Key)) = x
        BY <3>1, ColonIs
      <3>3. QED
        BY <1>2, <2>1, <3>2
    <2>3. QED
      BY <1>2, <2>1, <2>2
  <1>6. Opening(body, s, c, v)
    BY <1>2, <1>3, <1>4, <1>5 DEF Opening
  <1>7. Closing(kv) # {} /\ r = [start |-> s, end |-> e + 1]
    BY <1>1
  <1>8. e \in Closing(kv) /\ \A x \in Closing(kv) : e <= x
    <2>1. Closing(kv) \subseteq Nat
      BY <1>3, <1>4
    <2> HIDE DEF Closing
    <2>2. QED
      BY <1>7, <2>1, MinIsLeast
  <1>9. e \in (v + 1)..Len(body) /\ body[e] = "q"
    BY <1>8
  <1>10. \A k \in (v + 1)..(e - 1) : body[k] # "q"
    <2>1. \A k \in (v + 1)..(e - 1) : k \in (v + 1)..Len(body) /\ ~(e <= k)
      BY <1>3, <1>4, <1>9, SMTT(30)
    <2>2. \A k \in (v + 1)..Len(body) : body[k] = "q" => k \in Closing(kv)
      OBVIOUS
    <2> HIDE DEF Closing, e
    <2>3. QED
      BY <1>8, <2>1, <2>2
  <1> HIDE DEF s, v, e
  <1>11. StringAt(body, s, c, v, e)
    BY <1>5, <1>6, <1>9, <1>10 DEF StringAt
  <1>12. QED
    BY <1>7, <1>11

(* A string member that no other begins ahead of is the one in_body returns. *)
LEMMA FirstString ==
    ASSUME NEW body \in Seq(Bytes), NEW s, NEW c, NEW v, NEW e, StringAt(body, s, c, v, e),
           \A z \in 1..(s - 1) : \A c0, v0, e0 : ~StringAt(body, z, c0, v0, e0)
    PROVE  in_body(body) = {[start |-> s, end |-> e + 1]}
  <1>1. /\ Len(body) \in Nat /\ s \in Nat \ {0} /\ c \in Nat /\ v \in Nat /\ e \in Nat
        /\ s + 3 <= c /\ c < v /\ v < e /\ e <= Len(body) /\ c + 1 \in 1..(Len(body) + 1)
    BY DEF StringAt, Opening, ColonAt, KeyAt
  <1>2. ColonAt(body, s, c) /\ Blank(body, c + 1, v - 1) /\ body[v] = "q" /\ body[e] = "q"
        /\ \A k \in (v + 1)..(e - 1) : body[k] # "q"
    BY DEF StringAt, Opening
  <1>3. skip_json_whitespace(body, c + 1) = v
    <2>1. v \in (c + 1)..Len(body) /\ body[v] \notin Whitespace
      BY <1>1, <1>2 DEF Whitespace
    <2>2. QED
      BY <1>1, <1>2, <2>1, SkipIs
  <1>4. Starts(body, TRUE, s)
    BY <1>1, <1>2, <1>3 DEF Starts
  <1>5. ASSUME NEW z \in 1..(s - 1), Starts(body, TRUE, z)
        PROVE  FALSE
    <2>1. PICK c0 : /\ ColonAt(body, z, c0)
                    /\ LET w == skip_json_whitespace(body, c0 + 1) IN
                       w <= Len(body) /\ body[w] = "q"
      BY <1>5 DEF Starts
    <2>2. PICK v0 : v0 = skip_json_whitespace(body, c0 + 1)
      OBVIOUS
    <2>3. /\ z \in Nat /\ c0 \in (z + 3)..Len(body) /\ body[c0] = ":"
          /\ Blank(body, z + 3, c0 - 1) /\ body[z + 1] = "n" /\ c0 + 1 \in 1..(Len(body) + 1)
      BY <1>1, <2>1 DEF ColonAt, KeyAt
    <2>4. v0 \in (c0 + 1)..Len(body) /\ Blank(body, c0 + 1, v0 - 1) /\ body[v0] = "q"
      BY <1>1, <2>1, <2>2, <2>3, SkipStops
    <2>5. s >= v0
      <3>1. body[s] = "q" /\ body[s + 1] = "n" /\ z < s /\ c0 \in Nat /\ v0 \in Nat
        BY <1>1, <1>2, <2>3, <2>4 DEF ColonAt, KeyAt
      <3>2. s # z + 1
        BY <2>3, <3>1
      <3>3. s # z + 2
        <4>1. body[z + 3] = ":" \/ body[z + 3] \in Whitespace
          BY <2>3, <3>1 DEF Blank
        <4>2. body[z + 3] # "n"
          BY <4>1 DEF Whitespace
        <4>3. z + 3 = (z + 2) + 1
          BY <2>3
        <4>4. QED
          BY <3>1, <4>2, <4>3
      <3>4. \A k \in (z + 3)..(v0 - 1) : body[k] # "q"
        <4>1. \A k \in (z + 3)..(v0 - 1) : body[k] = ":" \/ body[k] \in Whitespace
          BY <2>3, <2>4, <3>1 DEF Blank
        <4>2. QED
          BY <4>1 DEF Whitespace
      <3>5. QED
        BY <1>1, <2>3, <3>1, <3>2, <3>3, <3>4
    <2>6. PICK T : T = {p \in (v0 + 1)..Len(body) : body[p] = "q"}
      OBVIOUS
    <2>7. T # {} /\ T \subseteq Nat
      <3>1. e \in (v0 + 1)..Len(body) /\ v0 \in Nat
        BY <1>1, <2>3, <2>4, <2>5
      <3>2. QED
        BY <1>2, <2>6, <3>1
    <2>8. PICK e0 \in T : \A x \in T : e0 <= x
      BY <2>7, LeastNatural
    <2>9. StringAt(body, z, c0, v0, e0)
      <3>1. e0 \in (v0 + 1)..Len(body) /\ body[e0] = "q"
        BY <2>6
      <3>2. ASSUME NEW k \in (v0 + 1)..(e0 - 1), body[k] = "q"
            PROVE  FALSE
        <4>1. k \in T /\ ~(e0 <= k)
          BY <1>1, <2>4, <2>6, <3>1, <3>2
        <4>2. QED
          BY <2>8, <4>1
      <3>3. Opening(body, z, c0, v0)
        BY <2>1, <2>4 DEF Opening
      <3>4. QED
        BY <2>4, <3>1, <3>2, <3>3 DEF StringAt
    <2>10. QED
      BY <2>9
  <1>6. key_and_value(body, TRUE) = {<<s, v>>}
    <2>1. key_and_value(body, TRUE) = {<<s, skip_json_whitespace(body, c + 1)>>}
      BY <1>2, <1>4, <1>5, TheFirstStart
    <2>2. QED
      BY <1>3, <2>1
  <1> DEFINE Closing == {p \in (v + 1)..Len(body) : body[p] = "q"}
  <1>7. e \in Closing /\ Closing \subseteq Nat
    BY <1>1, <1>2
  <1>8. ASSUME NEW x \in Closing
        PROVE  e <= x
    BY <1>1, <1>2
  <1>9. in_body(body) = IF Closing = {} THEN {}
                        ELSE {[start |-> s, end |-> Min(Closing) + 1]}
    <2> DEFINE Closed(kv) == {p \in (kv[2] + 1)..Len(body) : body[p] = "q"}
               Found(kv) == IF Closed(kv) = {} THEN {}
                            ELSE {[start |-> kv[1], end |-> Min(Closed(kv)) + 1]}
    <2>1. in_body(body) = UNION {Found(kv) : kv \in {<<s, v>>}}
      BY <1>6 DEF in_body
    <2>2. Found(<<s, v>>) = IF Closing = {} THEN {}
                            ELSE {[start |-> s, end |-> Min(Closing) + 1]}
      OBVIOUS
    <2> HIDE DEF Found
    <2>3. in_body(body) = Found(<<s, v>>)
      BY <2>1
    <2>4. QED
      BY <2>2, <2>3
  <1> HIDE DEF Closing
  <1>10. Min(Closing) = e
    BY <1>7, <1>8, MinIs
  <1>11. QED
    BY <1>7, <1>9, <1>10

(* find_json_bare_snippet_range returns a number member. *)
LEMMA NumberFound ==
    ASSUME NEW body \in Seq(Bytes), NEW r \in find_json_bare_snippet_range(body)
    PROVE  \E s, c, v, w, t : /\ NumberAt(body, s, c, v, w, t)
                              /\ r = [start |-> s, end |-> t + 1]
  <1> DEFINE Past(kv) == {p \in kv[2]..(Len(body) + 1) : p > Len(body) \/ body[p] \notin Digits}
  <1>1. PICK kv \in key_and_value(body, FALSE) :
            LET past == Min(Past(kv))
                term == skip_json_whitespace(body, past)
            IN  /\ past # kv[2] /\ ~(past > kv[2] + 1 /\ body[kv[2]] = "0")
                /\ ~(term > Len(body)) /\ body[term] \in {",", "}"}
                /\ r = [start |-> kv[1], end |-> term + 1]
    BY DEF find_json_bare_snippet_range
  <1>2. PICK c \in Nat : ColonAt(body, kv[1], c) /\ kv[2] = skip_json_whitespace(body, c + 1)
    BY FirstStart
  <1> DEFINE s == kv[1]
             v == kv[2]
             w == Min(Past(kv))
             t == skip_json_whitespace(body, w)
  <1>3. /\ Len(body) \in Nat /\ c \in (s + 3)..Len(body) /\ s \in Nat
        /\ c + 1 \in 1..(Len(body) + 1)
    BY <1>2, SMTT(30) DEF ColonAt, KeyAt
  <1>4. v \in (c + 1)..(Len(body) + 1) /\ Blank(body, c + 1, v - 1)
    BY <1>2, <1>3, SkipStops
  <1>5. /\ w \in v..(Len(body) + 1) /\ (w > Len(body) \/ body[w] \notin Digits)
        /\ \A k \in v..(w - 1) : body[k] \in Digits
    <2> DEFINE T == Past(kv)
    <2>1. T \subseteq Nat /\ Len(body) + 1 \in T
      BY <1>3, <1>4
    <2>2. Min(T) \in T /\ \A x \in T : Min(T) <= x
      <3> HIDE DEF T
      <3> QED
        BY <2>1, MinIsLeast
    <2>3. w = Min(T)
      OBVIOUS
    <2> HIDE DEF w
    <2>4. w \in v..(Len(body) + 1) /\ (w > Len(body) \/ body[w] \notin Digits)
      BY <2>2, <2>3
    <2>5. ASSUME NEW k \in v..(w - 1)
          PROVE  body[k] \in Digits
      <3>1. k \in v..(Len(body) + 1) /\ ~(w <= k)
        BY <1>3, <1>4, <2>4
      <3>2. k \notin T
        BY <2>2, <2>3, <3>1
      <3>3. QED
        BY <3>1, <3>2
    <2>6. QED
      BY <2>4, <2>5
  <1>6. w # v /\ ~(w > v + 1 /\ body[v] = "0") /\ t <= Len(body)
        /\ body[t] \in {",", "}"} /\ r = [start |-> s, end |-> t + 1]
    <2>1. w \in 1..(Len(body) + 1)
      BY <1>3, <1>4, <1>5
    <2>2. t \in w..(Len(body) + 1)
      <3> HIDE DEF w
      <3> QED
        BY <2>1, SkipStops
    <2>3. /\ w # v /\ ~(w > v + 1 /\ body[v] = "0") /\ ~(t > Len(body))
          /\ body[t] \in {",", "}"} /\ r = [start |-> s, end |-> t + 1]
      BY <1>1
    <2> HIDE DEF t, w
    <2>4. t <= Len(body)
      <3>1. w \in Nat /\ t \in Nat
        BY <1>3, <2>1, <2>2
      <3>2. ~(t > Len(body))
        BY <2>3
      <3>3. QED
        BY <1>3, <3>1, <3>2
    <2>5. QED
      BY <2>3, <2>4
  <1> HIDE DEF s, v, w
  <1>7. t \in w..(Len(body) + 1) /\ Blank(body, w, t - 1)
    <2>1. w \in 1..(Len(body) + 1)
      BY <1>3, <1>4, <1>5
    <2>2. QED
      BY <2>1, SkipStops
  <1> HIDE DEF t
  <1>8. /\ w \in (v + 1)..Len(body) /\ t \in w..Len(body) /\ v \in (c + 1)..Len(body)
        /\ body[v] = "0" => w = v + 1
    <2>1. w \in Nat /\ v \in Nat /\ t \in Nat /\ v < w /\ w <= t /\ t <= Len(body)
      <3>1. v \in Nat
        BY <1>3, <1>4
      <3>2. w \in Nat /\ v <= w
        BY <1>3, <1>5, <3>1
      <3>3. t \in Nat /\ w <= t
        BY <1>3, <1>7, <3>2
      <3>4. w # v /\ t <= Len(body)
        BY <1>6
      <3>5. QED
        BY <3>1, <3>2, <3>3, <3>4
    <2>2. body[v] = "0" => ~(w > v + 1)
      BY <1>6
    <2>3. QED
      BY <1>3, <1>4, <2>1, <2>2
  <1>9. NumberAt(body, s, c, v, w, t)
    BY <1>2, <1>4, <1>5, <1>6, <1>7, <1>8 DEF NumberAt, Opening, s
  <1>10. QED
    BY <1>6, <1>9

(* The order of the places of a number member. *)
LEMMA NumberPlaces ==
    ASSUME NEW body \in Seq(Bytes), NEW s, NEW c, NEW v, NEW w, NEW t,
           NumberAt(body, s, c, v, w, t)
    PROVE  /\ Len(body) \in Nat /\ s \in Nat \ {0} /\ c \in Nat /\ v \in Nat
           /\ w \in Nat /\ t \in Nat
           /\ s + 3 <= c /\ c < v /\ v < w /\ w <= t /\ t <= Len(body)
  <1>1. Opening(body, s, c, v) /\ w \in (v + 1)..Len(body) /\ t \in w..Len(body)
    BY DEF NumberAt
  <1>2. Len(body) \in Nat /\ s \in Nat \ {0} /\ c \in (s + 3)..Len(body) /\ v \in (c + 1)..Len(body)
    BY <1>1 DEF Opening, ColonAt, KeyAt
  <1>3. c \in Nat /\ v \in Nat /\ s + 3 <= c /\ c < v
    BY <1>2
  <1>4. w \in Nat /\ t \in Nat /\ v < w /\ w <= t /\ t <= Len(body)
    BY <1>1, <1>2, <1>3
  <1>5. QED
    BY <1>2, <1>3, <1>4

(* A number member ahead of which there is no key is the one it returns. *)
LEMMA FirstNumber ==
    ASSUME NEW body \in Seq(Bytes), NEW s, NEW c, NEW v, NEW w, NEW t,
           NumberAt(body, s, c, v, w, t), \A z \in 1..(s - 1) : ~KeyAt(body, z)
    PROVE  find_json_bare_snippet_range(body) = {[start |-> s, end |-> t + 1]}
  <1>1. /\ Len(body) \in Nat /\ s \in Nat \ {0} /\ c \in Nat /\ v \in Nat /\ w \in Nat /\ t \in Nat
        /\ s + 3 <= c /\ c < v /\ v < w /\ w <= t /\ t <= Len(body)
    BY NumberPlaces
  <1>2. /\ ColonAt(body, s, c) /\ Blank(body, c + 1, v - 1) /\ Blank(body, w, t - 1)
        /\ body[t] \in {",", "}"} /\ (body[v] = "0" => w = v + 1)
        /\ \A k \in v..(w - 1) : body[k] \in Digits
    BY DEF NumberAt, Opening
  <1>3. \A d \in Digits : d \notin Whitespace /\ d \notin {",", "}"}
    BY DEF Digits, Whitespace
  <1>4. skip_json_whitespace(body, c + 1) = v
    <2>1. v \in (c + 1)..Len(body) /\ c + 1 \in 1..(Len(body) + 1) /\ v \in v..(w - 1)
      BY <1>1
    <2>2. body[v] \notin Whitespace
      BY <1>2, <1>3, <2>1
    <2>3. QED
      BY <1>2, <2>1, <2>2, SkipIs
  <1>5. skip_json_whitespace(body, w) = t
    <2>1. t \in w..Len(body) /\ w \in 1..(Len(body) + 1)
      BY <1>1
    <2>2. body[t] \notin Whitespace
      BY <1>2 DEF Whitespace
    <2>3. QED
      BY <1>2, <2>1, <2>2, SkipIs
  <1>6. key_and_value(body, FALSE) = {<<s, v>>}
    <2>1. Starts(body, FALSE, s)
      BY <1>2 DEF Starts
    <2>2. \A z \in 1..(s - 1) : ~Starts(body, FALSE, z)
      BY DEF Starts, ColonAt
    <2>3. key_and_value(body, FALSE) = {<<s, skip_json_whitespace(body, c + 1)>>}
      BY <1>2, <2>1, <2>2, TheFirstStart
    <2>4. QED
      BY <1>4, <2>3
  <1> DEFINE Past == {p \in v..(Len(body) + 1) : p > Len(body) \/ body[p] \notin Digits}
  <1>7. w \in Past /\ Past \subseteq Nat
    <2>1. body[w] \notin Digits
      <3>1. CASE w = t
        BY <1>2, <1>3, <3>1
      <3>2. CASE w < t
        <4>1. w \in w..(t - 1)
          BY <1>1, <3>2
        <4>2. QED
          BY <1>2, <1>3, <4>1 DEF Blank
      <3>3. QED
        BY <1>1, <3>1, <3>2
    <2>2. QED
      BY <1>1, <2>1
  <1>8. ASSUME NEW x \in Past
        PROVE  w <= x
    <2>1. x \in Nat /\ v <= x /\ x <= Len(body) + 1 /\ (x > Len(body) \/ body[x] \notin Digits)
      BY <1>1
    <2>2. x \notin v..(w - 1)
      <3> SUFFICES ASSUME x \in v..(w - 1) PROVE FALSE
        OBVIOUS
      <3>1. body[x] \in Digits
        BY <1>2
      <3>2. ~(x > Len(body))
        BY <1>1
      <3>3. QED
        BY <2>1, <3>1, <3>2
    <2>3. QED
      BY <1>1, <2>1, <2>2
  <1>9. find_json_bare_snippet_range(body) =
            LET past == Min(Past)
                term == skip_json_whitespace(body, past)
            IN  IF \/ past = v
                   \/ past > v + 1 /\ body[v] = "0"
                   \/ term > Len(body) \/ body[term] \notin {",", "}"}
                THEN {} ELSE {[start |-> s, end |-> term + 1]}
    <2> DEFINE PastOf(kv) ==
                   {p \in kv[2]..(Len(body) + 1) : p > Len(body) \/ body[p] \notin Digits}
               Found(kv) ==
                   LET past == Min(PastOf(kv))
                       term == skip_json_whitespace(body, past)
                   IN  IF \/ past = kv[2]
                          \/ past > kv[2] + 1 /\ body[kv[2]] = "0"
                          \/ term > Len(body) \/ body[term] \notin {",", "}"}
                       THEN {} ELSE {[start |-> kv[1], end |-> term + 1]}
    <2>1. find_json_bare_snippet_range(body) = UNION {Found(kv) : kv \in {<<s, v>>}}
      BY <1>6 DEF find_json_bare_snippet_range
    <2>2. Found(<<s, v>>) =
              LET past == Min(Past)
                  term == skip_json_whitespace(body, past)
              IN  IF \/ past = v
                     \/ past > v + 1 /\ body[v] = "0"
                     \/ term > Len(body) \/ body[term] \notin {",", "}"}
                  THEN {} ELSE {[start |-> s, end |-> term + 1]}
      OBVIOUS
    <2> HIDE DEF Found, Past
    <2>3. find_json_bare_snippet_range(body) = Found(<<s, v>>)
      BY <2>1
    <2>4. QED
      BY <2>2, <2>3
  <1> HIDE DEF Past
  <1>10. Min(Past) = w
    BY <1>7, <1>8, MinIs
  <1>11. w # v /\ ~(w > v + 1 /\ body[v] = "0") /\ ~(t > Len(body))
    <2>1. w # v /\ ~(t > Len(body))
      BY <1>1
    <2>2. w = v + 1 => ~(w > v + 1)
      BY <1>1
    <2>3. QED
      BY <1>2, <2>1, <2>2
  <1>12. QED
    BY <1>2, <1>5, <1>9, <1>10, <1>11

-----------------------------------------------------------------------------
(* A member is one wherever its bytes are.                                 *)

\* The n + 1 bytes of x from a on are those of y from s on.
Same(x, a, y, s, n) ==
    /\ a \in Nat \ {0} /\ s \in Nat \ {0} /\ n \in Nat
    /\ x \in Seq(Bytes) /\ y \in Seq(Bytes) /\ a + n <= Len(x) /\ s + n <= Len(y)
    /\ \A i \in 0..n : x[a + i] = y[s + i]

LEMMA MoveOpening ==
    ASSUME NEW x, NEW a, NEW y, NEW s, NEW n, Same(x, a, y, s, n),
           NEW c, NEW v, Opening(x, a, c, v), v <= a + n
    PROVE  Opening(y, s, (c - a) + s, (v - a) + s)
  <1>1. /\ a \in Nat \ {0} /\ s \in Nat \ {0} /\ n \in Nat /\ Len(x) \in Nat /\ Len(y) \in Nat
        /\ a + n <= Len(x) /\ s + n <= Len(y)
    BY DEF Same
  <1>2. /\ c \in (a + 3)..Len(x) /\ v \in (c + 1)..Len(x)
        /\ x[a] = "q" /\ x[a + 1] = "n" /\ x[a + 2] = "q" /\ x[c] = ":"
        /\ Blank(x, a + 3, c - 1) /\ Blank(x, c + 1, v - 1)
    BY DEF Opening, ColonAt, KeyAt
  <1>3. \A i \in s..(s + n) : y[i] = x[(i - s) + a]
    <2> SUFFICES ASSUME NEW i \in s..(s + n) PROVE y[i] = x[(i - s) + a]
      OBVIOUS
    <2>1. i - s \in 0..n /\ a + (i - s) = (i - s) + a /\ s + (i - s) = i
      BY <1>1
    <2>2. QED
      BY <2>1 DEF Same
  <1>4. PICK c1 : c1 = (c - a) + s
    OBVIOUS
  <1>5. PICK v1 : v1 = (v - a) + s
    OBVIOUS
  <1>6. /\ c1 \in (s + 3)..Len(y) /\ v1 \in (c1 + 1)..Len(y) /\ s \in 1..(Len(y) - 2)
        /\ c1 \in s..(s + n) /\ v1 \in s..(s + n)
        /\ s \in s..(s + n) /\ s + 1 \in s..(s + n) /\ s + 2 \in s..(s + n)
    <2>1. c \in Nat /\ v \in Nat /\ a + 3 <= c /\ c < v
      BY <1>1, <1>2
    <2>2. c1 \in Nat /\ v1 \in Nat /\ s + 3 <= c1 /\ c1 < v1 /\ v1 <= s + n
      BY <1>1, <1>4, <1>5, <2>1
    <2>3. QED
      BY <1>1, <2>2
  <1>7. y[s] = "q" /\ y[s + 1] = "n" /\ y[s + 2] = "q" /\ y[c1] = ":"
    <2>1. (s - s) + a = a /\ ((s + 1) - s) + a = a + 1 /\ ((s + 2) - s) + a = a + 2
          /\ (c1 - s) + a = c
      BY <1>1, <1>2, <1>4
    <2>2. QED
      BY <1>2, <1>3, <1>6, <2>1
  <1>8. Blank(y, s + 3, c1 - 1)
    <2> SUFFICES ASSUME NEW i \in (s + 3)..(c1 - 1) PROVE y[i] \in Whitespace
      BY DEF Blank
    <2>1. i \in s..(s + n) /\ (i - s) + a \in (a + 3)..(c - 1)
      BY <1>1, <1>2, <1>4, <1>6
    <2>2. QED
      BY <1>2, <1>3, <2>1 DEF Blank
  <1>9. Blank(y, c1 + 1, v1 - 1)
    <2> SUFFICES ASSUME NEW i \in (c1 + 1)..(v1 - 1) PROVE y[i] \in Whitespace
      BY DEF Blank
    <2>1. i \in s..(s + n) /\ (i - s) + a \in (c + 1)..(v - 1)
      BY <1>1, <1>2, <1>4, <1>5, <1>6
    <2>2. QED
      BY <1>2, <1>3, <2>1 DEF Blank
  <1>10. Opening(y, s, c1, v1)
    BY <1>6, <1>7, <1>8, <1>9 DEF Opening, ColonAt, KeyAt
  <1>11. QED
    BY <1>4, <1>5, <1>10

LEMMA MoveString ==
    ASSUME NEW x, NEW a, NEW y, NEW s, NEW n, Same(x, a, y, s, n),
           NEW c, NEW v, NEW e, StringAt(x, a, c, v, e), e <= a + n
    PROVE  StringAt(y, s, (c - a) + s, (v - a) + s, (e - a) + s)
  <1>1. /\ a \in Nat \ {0} /\ s \in Nat \ {0} /\ n \in Nat /\ Len(x) \in Nat /\ Len(y) \in Nat
        /\ a + n <= Len(x) /\ s + n <= Len(y)
    BY DEF Same
  <1>2. /\ v \in Nat /\ a < v /\ v < e /\ e \in Nat /\ e <= a + n
        /\ Opening(x, a, c, v) /\ x[v] = "q" /\ x[e] = "q"
        /\ \A k \in (v + 1)..(e - 1) : x[k] # "q"
    BY <1>1 DEF StringAt, Opening, ColonAt
  <1>3. \A i \in s..(s + n) : y[i] = x[(i - s) + a]
    <2> SUFFICES ASSUME NEW i \in s..(s + n) PROVE y[i] = x[(i - s) + a]
      OBVIOUS
    <2>1. i - s \in 0..n /\ a + (i - s) = (i - s) + a /\ s + (i - s) = i
      BY <1>1
    <2>2. QED
      BY <2>1 DEF Same
  <1>4. PICK v1 : v1 = (v - a) + s
    OBVIOUS
  <1>5. PICK e1 : e1 = (e - a) + s
    OBVIOUS
  <1>6. /\ e1 \in (v1 + 1)..Len(y) /\ v1 \in s..(s + n) /\ e1 \in s..(s + n)
        /\ (v1 - s) + a = v /\ (e1 - s) + a = e
    BY <1>1, <1>2, <1>4, <1>5
  <1>7. y[v1] = "q" /\ y[e1] = "q"
    BY <1>2, <1>3, <1>6
  <1>8. ASSUME NEW k \in (v1 + 1)..(e1 - 1)
        PROVE  y[k] # "q"
    <2>1. k \in s..(s + n) /\ (k - s) + a \in (v + 1)..(e - 1)
      BY <1>1, <1>2, <1>4, <1>5, <1>6
    <2>2. QED
      BY <1>2, <1>3, <2>1
  <1>9. Opening(y, s, (c - a) + s, v1)
    BY <1>1, <1>2, <1>4, MoveOpening, v <= a + n
  <1>10. QED
    BY <1>4, <1>5, <1>6, <1>7, <1>8, <1>9 DEF StringAt

LEMMA MoveNumber ==
    ASSUME NEW x, NEW a, NEW y, NEW s, NEW n, Same(x, a, y, s, n),
           NEW c, NEW v, NEW w, NEW t, NumberAt(x, a, c, v, w, t), t <= a + n
    PROVE  NumberAt(y, s, (c - a) + s, (v - a) + s, (w - a) + s, (t - a) + s)
  <1>1. /\ a \in Nat \ {0} /\ s \in Nat \ {0} /\ n \in Nat /\ Len(x) \in Nat /\ Len(y) \in Nat
        /\ a + n <= Len(x) /\ s + n <= Len(y)
    BY DEF Same
  <1>2. v \in Nat /\ a < v /\ v < w /\ w \in Nat /\ w <= t /\ t \in Nat /\ t <= a + n
    <2>1. /\ a + 3 <= c /\ c < v /\ v < w /\ w <= t
          /\ c \in Nat /\ v \in Nat /\ w \in Nat /\ t \in Nat
      BY NumberPlaces DEF Same
    <2>2. QED
      BY <1>1, <2>1
  <1>3. /\ Opening(x, a, c, v) /\ x[t] \in {",", "}"} /\ Blank(x, w, t - 1)
         /\ (\A k \in v..(w - 1) : x[k] \in Digits) /\ (x[v] = "0" => w = v + 1)
    BY DEF NumberAt
  <1>4. \A i \in s..(s + n) : y[i] = x[(i - s) + a]
    <2> SUFFICES ASSUME NEW i \in s..(s + n) PROVE y[i] = x[(i - s) + a]
      OBVIOUS
    <2>1. i - s \in 0..n /\ a + (i - s) = (i - s) + a /\ s + (i - s) = i
      BY <1>1
    <2>2. QED
      BY <2>1 DEF Same
  <1>5. PICK v1 : v1 = (v - a) + s
    OBVIOUS
  <1>6. PICK w1 : w1 = (w - a) + s
    OBVIOUS
  <1>7. PICK t1 : t1 = (t - a) + s
    OBVIOUS
  <1>8. /\ w1 \in (v1 + 1)..Len(y) /\ t1 \in w1..Len(y) /\ v1 \in s..(s + n) /\ t1 \in s..(s + n)
        /\ (v1 - s) + a = v /\ (t1 - s) + a = t
    <2>1. /\ v1 \in Nat /\ w1 \in Nat /\ t1 \in Nat
          /\ s < v1 /\ v1 < w1 /\ w1 <= t1 /\ t1 <= s + n
      BY <1>1, <1>2, <1>5, <1>6, <1>7
    <2>2. (v1 - s) + a = v /\ (t1 - s) + a = t
      BY <1>1, <1>2, <1>5, <1>7
    <2>3. QED
      BY <1>1, <2>1, <2>2
  <1>9. y[v1] = x[v] /\ y[t1] \in {",", "}"}
    BY <1>3, <1>4, <1>8
  <1>10. ASSUME NEW k \in v1..(w1 - 1)
        PROVE  y[k] \in Digits
    <2>1. k \in s..(s + n) /\ (k - s) + a \in v..(w - 1)
      BY <1>1, <1>2, <1>5, <1>6, <1>8
    <2>2. QED
      BY <1>3, <1>4, <2>1
  <1>11. Blank(y, w1, t1 - 1)
    <2> SUFFICES ASSUME NEW i \in w1..(t1 - 1) PROVE y[i] \in Whitespace
      BY DEF Blank
    <2>1. i \in s..(s + n) /\ (i - s) + a \in w..(t - 1)
      BY <1>1, <1>2, <1>6, <1>7, <1>8
    <2>2. QED
      BY <1>3, <1>4, <2>1 DEF Blank
  <1>12. y[v1] = "0" => w1 = v1 + 1
    <2>1. w = v + 1 => w1 = v1 + 1
      BY <1>1, <1>2, <1>5, <1>6
    <2>2. QED
      BY <1>9, <1>3, <2>1
  <1>13. Opening(y, s, (c - a) + s, v1)
    <2>1. v <= a + n
      BY <1>1, <1>2
    <2>2. QED
      BY <1>5, <1>3, <2>1, MoveOpening
  <1>14. QED
    BY <1>5, <1>6, <1>7, <1>8, <1>9, <1>10, <1>11, <1>12, <1>13 DEF NumberAt

(* A slice holds only what it is taken from. *)
LEMMA AllInSlice ==
    ASSUME NEW body \in Seq(Bytes), NEW S, NEW m \in Nat \ {0}, NEW n \in Nat, n <= Len(body)
    PROVE  AllIn(SubSeq(body, m, n), S) <=> \A k \in m..n : body[k] \in S
  <1> DEFINE cut == SubSeq(body, m, n)
  <1>1. /\ cut \in Seq(Bytes) /\ Len(cut) = (IF m <= n THEN n - m + 1 ELSE 0)
        /\ \A i \in 1..(n - m + 1) : cut[i] = body[m + i - 1]
    BY Slice
  <1> HIDE DEF cut
  <1>2. DOMAIN cut = 1..Len(cut)
    BY <1>1
  <1>3. DOMAIN cut = 1..(n - m + 1)
    <2>1. CASE m <= n
      BY <1>1, <1>2, <2>1
    <2>2. CASE ~(m <= n)
      <3>1. n - m + 1 < 1 /\ Len(cut) = 0
        BY <1>1, <2>2
      <3>2. 1..(n - m + 1) = {} /\ 1..0 = {}
        BY <3>1
      <3>3. QED
        BY <1>2, <3>1, <3>2
    <2>3. QED
      BY <2>1, <2>2
  <1>4. ASSUME AllIn(cut, S), NEW k \in m..n
        PROVE  body[k] \in S
    <2>1. PICK i \in 1..(n - m + 1) : m + i - 1 = k
      <3>1. (k - m) + 1 \in 1..(n - m + 1) /\ m + ((k - m) + 1) - 1 = k
        OBVIOUS
      <3>2. QED
        BY <3>1
    <2>2. cut[i] \in S /\ cut[i] = body[m + i - 1]
      BY <1>1, <1>3, <1>4 DEF AllIn
    <2>3. QED
      BY <2>1, <2>2
  <1>5. ASSUME \A k \in m..n : body[k] \in S
        PROVE  AllIn(cut, S)
    <2> SUFFICES ASSUME NEW i \in 1..(n - m + 1) PROVE cut[i] \in S
      BY <1>3 DEF AllIn
    <2>1. m + i - 1 \in m..n
      OBVIOUS
    <2>2. QED
      BY <1>1, <1>5, <2>1
  <1>6. QED
    BY <1>4, <1>5 DEF cut

(* A text opens a member where its first key has one. *)
LEMMA OpensIs ==
    ASSUME NEW t \in Seq(Bytes), NEW p \in 4..(Len(t) - 1)
    PROVE  Opens(t, p) <=> \E c : Opening(t, 1, c, p + 1)
  <1>1. Len(t) \in Nat /\ p \in Nat /\ Len(t) >= 5
    OBVIOUS
  <1>2. SubSeq(t, 1, 3) = Key <=> KeyAt(t, 1)
    <2>1. 1 \in find_first(t, Key) <=> KeyAt(t, 1)
      BY KeyFound
    <2>2. Len(Key) = 3
      BY DEF Key
    <2>3. 1 \in find_first(t, Key) <=> SubSeq(t, 1, 3) = Key
      BY <1>1, <2>2 DEF find_first, Occurs
    <2>4. QED
      BY <2>1, <2>3
  <1>3. ASSUME NEW c \in 4..p
        PROVE  /\ AllIn(SubSeq(t, 4, c - 1), Whitespace) <=> Blank(t, 4, c - 1)
               /\ AllIn(SubSeq(t, c + 1, p), Whitespace) <=> Blank(t, c + 1, p)
    <2>1. c - 1 \in Nat /\ c - 1 <= Len(t) /\ c + 1 \in Nat \ {0} /\ p <= Len(t) /\ 4 \in Nat \ {0}
      BY <1>1
    <2>2. QED
      BY <1>1, <2>1, AllInSlice DEF Blank
  <1>4. ASSUME NEW c \in 4..p
        PROVE  Opening(t, 1, c, p + 1) <=>
                   /\ KeyAt(t, 1) /\ t[c] = ":" /\ Blank(t, 4, c - 1) /\ Blank(t, c + 1, p)
    <2>1. 1 + 3 = 4 /\ c \in 4..Len(t) /\ p + 1 \in (c + 1)..Len(t) /\ (p + 1) - 1 = p
      BY <1>1
    <2>2. QED
      BY <2>1 DEF Opening, ColonAt
  <1>5. ASSUME NEW c, Opening(t, 1, c, p + 1)
        PROVE  c \in 4..p
    <2>1. c \in (1 + 3)..Len(t) /\ p + 1 \in (c + 1)..Len(t)
      BY <1>5 DEF Opening, ColonAt
    <2>2. QED
      BY <1>1, <2>1
  <1>6. QED
    BY <1>2, <1>3, <1>4, <1>5 DEF Opens

LEMMA StringMemberIs ==
    ASSUME NEW t \in Seq(Bytes)
    PROVE  IsStringMember(t) <=> \E c, v : StringAt(t, 1, c, v, Len(t))
  <1>1. Len(t) \in Nat
    OBVIOUS
  <1>2. ASSUME IsStringMember(t)
        PROVE  \E c, v : StringAt(t, 1, c, v, Len(t))
    <2>1. PICK p \in 4..(Len(t) - 2) :
              /\ Opens(t, p) /\ t[p + 1] = "q" /\ t[Len(t)] = "q"
              /\ \A k \in (p + 2)..(Len(t) - 1) : t[k] # "q"
      BY <1>2 DEF IsStringMember
    <2>2. p \in 4..(Len(t) - 1) /\ (p + 1) + 1 = p + 2 /\ Len(t) \in (p + 2)..Len(t)
      BY <1>1
    <2>3. PICK c : Opening(t, 1, c, p + 1)
      BY <2>1, <2>2, OpensIs
    <2>4. StringAt(t, 1, c, p + 1, Len(t))
      BY <2>1, <2>2, <2>3 DEF StringAt
    <2>5. QED
      BY <2>4
  <1>3. ASSUME NEW c, NEW v, StringAt(t, 1, c, v, Len(t))
        PROVE  IsStringMember(t)
    <2>1. /\ Opening(t, 1, c, v) /\ t[v] = "q" /\ t[Len(t)] = "q" /\ Len(t) \in (v + 1)..Len(t)
          /\ \A k \in (v + 1)..(Len(t) - 1) : t[k] # "q"
      BY <1>3 DEF StringAt
    <2>2. c \in 4..Len(t) /\ v \in (c + 1)..Len(t)
      BY <2>1 DEF Opening, ColonAt
    <2>3. PICK p \in 4..(Len(t) - 2) : p + 1 = v
      <3>1. v - 1 \in 4..(Len(t) - 2) /\ (v - 1) + 1 = v
        BY <1>1, <2>1, <2>2
      <3>2. QED
        BY <3>1
    <2>4. p \in 4..(Len(t) - 1) /\ p + 2 = v + 1
      BY <1>1, <2>2, <2>3
    <2>5. Opens(t, p)
      BY <2>1, <2>3, <2>4, OpensIs
    <2>6. QED
      BY <2>1, <2>3, <2>4, <2>5 DEF IsStringMember
  <1>4. QED
    BY <1>2, <1>3

LEMMA NumberMemberIs ==
    ASSUME NEW t \in Seq(Bytes)
    PROVE  IsNumberMember(t) <=> \E c, v, w : NumberAt(t, 1, c, v, w, Len(t))
  <1>1. Len(t) \in Nat
    OBVIOUS
  <1>2. ASSUME NEW p \in 4..(Len(t) - 2), NEW d \in (p + 1)..(Len(t) - 1)
        PROVE  /\ AllIn(SubSeq(t, p + 1, d), Digits) <=> \A k \in (p + 1)..d : t[k] \in Digits
               /\ AllIn(SubSeq(t, d + 1, Len(t) - 1), Whitespace) <=> Blank(t, d + 1, Len(t) - 1)
    <2>1. /\ p + 1 \in Nat \ {0} /\ d + 1 \in Nat \ {0} /\ d \in Nat /\ d <= Len(t)
          /\ Len(t) - 1 \in Nat /\ Len(t) - 1 <= Len(t)
      BY <1>1
    <2>2. QED
      BY <2>1, AllInSlice DEF Blank
  <1>3. ASSUME IsNumberMember(t)
        PROVE  \E c, v, w : NumberAt(t, 1, c, v, w, Len(t))
    <2>1. PICK p \in 4..(Len(t) - 2) : \E d \in (p + 1)..(Len(t) - 1) :
              /\ Opens(t, p)
              /\ AllIn(SubSeq(t, p + 1, d), Digits) /\ (t[p + 1] = "0" => d = p + 1)
              /\ AllIn(SubSeq(t, d + 1, Len(t) - 1), Whitespace)
              /\ t[Len(t)] \in {",", "}"}
      BY <1>3 DEF IsNumberMember
    <2>2. PICK d \in (p + 1)..(Len(t) - 1) :
              /\ Opens(t, p)
              /\ AllIn(SubSeq(t, p + 1, d), Digits) /\ (t[p + 1] = "0" => d = p + 1)
              /\ AllIn(SubSeq(t, d + 1, Len(t) - 1), Whitespace)
              /\ t[Len(t)] \in {",", "}"}
      BY <2>1
    <2>3. /\ p \in 4..(Len(t) - 1) /\ d + 1 \in ((p + 1) + 1)..Len(t) /\ Len(t) \in (d + 1)..Len(t)
          /\ (d + 1) - 1 = d /\ (d = p + 1 => d + 1 = (p + 1) + 1)
      BY <1>1
    <2>4. PICK c : Opening(t, 1, c, p + 1)
      BY <2>2, <2>3, OpensIs
    <2>5. NumberAt(t, 1, c, p + 1, d + 1, Len(t))
      BY <1>2, <2>2, <2>3, <2>4 DEF NumberAt
    <2>6. QED
      BY <2>5
  <1>4. ASSUME NEW c, NEW v, NEW w, NumberAt(t, 1, c, v, w, Len(t))
        PROVE  IsNumberMember(t)
    <2>1. /\ Opening(t, 1, c, v) /\ (\A k \in v..(w - 1) : t[k] \in Digits)
          /\ (t[v] = "0" => w = v + 1)
          /\ Blank(t, w, Len(t) - 1) /\ t[Len(t)] \in {",", "}"}
      BY <1>4 DEF NumberAt
    <2>2. 1 + 3 <= c /\ c < v /\ v < w /\ w <= Len(t) /\ c \in Nat /\ v \in Nat /\ w \in Nat
      BY <1>4, NumberPlaces
    <2>3. PICK p \in 4..(Len(t) - 2) : p + 1 = v
      <3>1. v - 1 \in 4..(Len(t) - 2) /\ (v - 1) + 1 = v
        BY <1>1, <2>2
      <3>2. QED
        BY <3>1
    <2>4. PICK d \in (p + 1)..(Len(t) - 1) : d + 1 = w /\ d = w - 1
      <3>1. w - 1 \in (p + 1)..(Len(t) - 1) /\ (w - 1) + 1 = w
        BY <1>1, <2>2, <2>3
      <3>2. QED
        BY <3>1
    <2>5. p \in 4..(Len(t) - 1) /\ (w = v + 1 => d = p + 1)
      BY <1>1, <2>2, <2>3, <2>4
    <2>6. Opens(t, p)
      BY <2>1, <2>3, <2>5, OpensIs
    <2>7. AllIn(SubSeq(t, p + 1, d), Digits) /\ AllIn(SubSeq(t, d + 1, Len(t) - 1), Whitespace)
      BY <1>2, <2>1, <2>3, <2>4
    <2>8. t[p + 1] = "0" => d = p + 1
      BY <2>1, <2>3, <2>5
    <2>9. QED
      BY <2>1, <2>6, <2>7, <2>8 DEF IsNumberMember
  <1>5. QED
    BY <1>3, <1>4

(* The bytes of a slice of the document are members where the document has them. *)
LEMMA SliceIsSame ==
    ASSUME NEW doc \in Seq(Bytes), NEW s \in 1..Len(doc), NEW e \in 1..Len(doc), s <= e
    PROVE  /\ Len(SubSeq(doc, s, e)) = (e - s) + 1
           /\ Same(doc, s, SubSeq(doc, s, e), 1, e - s)
           /\ Same(SubSeq(doc, s, e), 1, doc, s, e - s)
  <1> DEFINE t == SubSeq(doc, s, e)
  <1>1. /\ Len(doc) \in Nat /\ s \in Nat \ {0} /\ e \in Nat /\ e - s \in Nat
        /\ s + (e - s) <= Len(doc) /\ (e - s) + 1 = 1 + (e - s) /\ e - s + 1 = (e - s) + 1
    OBVIOUS
  <1>2. /\ t \in Seq(Bytes) /\ Len(t) = (e - s) + 1
        /\ \A i \in 1..((e - s) + 1) : t[i] = doc[s + i - 1]
    BY <1>1, Slice
  <1> HIDE DEF t
  <1>3. ASSUME NEW i \in 0..(e - s)
        PROVE  t[1 + i] = doc[s + i]
    <2>1. 1 + i \in 1..((e - s) + 1) /\ s + (1 + i) - 1 = s + i
      BY <1>1
    <2>2. QED
      BY <1>2, <2>1
  <1>4. Same(doc, s, t, 1, e - s) /\ Same(t, 1, doc, s, e - s)
    BY <1>1, <1>2, <1>3 DEF Same
  <1>5. QED
    BY <1>2, <1>4 DEF t

LEMMA StringMember ==
    ASSUME NEW doc \in Seq(Bytes), NEW s \in 1..Len(doc), NEW e \in 1..Len(doc)
    PROVE  IsStringMember(SubSeq(doc, s, e)) <=> \E c, v : StringAt(doc, s, c, v, e)
  <1> DEFINE t == SubSeq(doc, s, e)
  <1>1. s \in Nat \ {0} /\ e \in Nat /\ e <= Len(doc) /\ Len(doc) \in Nat
    OBVIOUS
  <1>2. t \in Seq(Bytes) /\ Len(t) = IF s <= e THEN e - s + 1 ELSE 0
    BY <1>1, Slice
  <1>3. ASSUME IsStringMember(t)
        PROVE  \E c, v : StringAt(doc, s, c, v, e)
    <2>1. PICK c, v : StringAt(t, 1, c, v, Len(t))
      BY <1>2, <1>3, StringMemberIs
    <2>2. s <= e
      <3>1. Len(t) \in (v + 1)..Len(t) /\ v \in Nat
        BY <1>2, <2>1 DEF StringAt, Opening, ColonAt, KeyAt
      <3>2. QED
        BY <1>2, <3>1
    <2>3. Same(t, 1, doc, s, e - s) /\ Len(t) = (e - s) + 1
      BY <2>2, SliceIsSame
    <2> HIDE DEF t
    <2>4. Len(t) <= 1 + (e - s) /\ (Len(t) - 1) + s = e
      BY <1>1, <2>2, <2>3
    <2>5. StringAt(doc, s, (c - 1) + s, (v - 1) + s, (Len(t) - 1) + s)
      BY <2>1, <2>3, <2>4, MoveString
    <2>6. QED
      BY <2>4, <2>5
  <1>4. ASSUME NEW c, NEW v, StringAt(doc, s, c, v, e)
        PROVE  IsStringMember(t)
    <2>1. s <= e
      <3>1. c \in (s + 3)..Len(doc) /\ v \in (c + 1)..Len(doc) /\ e \in (v + 1)..Len(doc)
        BY <1>4 DEF StringAt, Opening, ColonAt
      <3>2. QED
        BY <1>1, <3>1
    <2>2. Same(doc, s, t, 1, e - s) /\ Len(t) = (e - s) + 1
      BY <2>1, SliceIsSame
    <2>3. e <= s + (e - s)
      BY <1>1
    <2> HIDE DEF t
    <2>4. StringAt(t, 1, (c - s) + 1, (v - s) + 1, (e - s) + 1)
      BY <1>4, <2>2, <2>3, MoveString
    <2>5. QED
      BY <1>2, <2>2, <2>4, StringMemberIs
  <1>5. QED
    BY <1>3, <1>4

LEMMA NumberMember ==
    ASSUME NEW doc \in Seq(Bytes), NEW s \in 1..Len(doc), NEW e \in 1..Len(doc)
    PROVE  IsNumberMember(SubSeq(doc, s, e)) <=> \E c, v, w : NumberAt(doc, s, c, v, w, e)
  <1> DEFINE t == SubSeq(doc, s, e)
  <1>1. s \in Nat \ {0} /\ e \in Nat /\ e <= Len(doc) /\ Len(doc) \in Nat
    OBVIOUS
  <1>2. t \in Seq(Bytes) /\ Len(t) = IF s <= e THEN e - s + 1 ELSE 0
    BY <1>1, Slice
  <1>3. ASSUME IsNumberMember(t)
        PROVE  \E c, v, w : NumberAt(doc, s, c, v, w, e)
    <2>1. PICK c, v, w : NumberAt(t, 1, c, v, w, Len(t))
      BY <1>2, <1>3, NumberMemberIs
    <2>2. s <= e
      <3>1. v < w /\ w <= Len(t) /\ v \in Nat /\ w \in Nat
        BY <1>2, <2>1, NumberPlaces
      <3>2. QED
        BY <1>2, <3>1
    <2>3. Same(t, 1, doc, s, e - s) /\ Len(t) = (e - s) + 1
      BY <2>2, SliceIsSame
    <2> HIDE DEF t
    <2>4. Len(t) <= 1 + (e - s) /\ (Len(t) - 1) + s = e
      BY <1>1, <2>2, <2>3
    <2>5. NumberAt(doc, s, (c - 1) + s, (v - 1) + s, (w - 1) + s, (Len(t) - 1) + s)
      BY <2>1, <2>3, <2>4, MoveNumber
    <2>6. QED
      BY <2>4, <2>5
  <1>4. ASSUME NEW c, NEW v, NEW w, NumberAt(doc, s, c, v, w, e)
        PROVE  IsNumberMember(t)
    <2>1. s <= e
      <3>1. s + 3 <= c /\ c < v /\ v < w /\ w <= e /\ c \in Nat /\ v \in Nat /\ w \in Nat
        BY <1>4, NumberPlaces
      <3>2. QED
        BY <1>1, <3>1
    <2>2. Same(doc, s, t, 1, e - s) /\ Len(t) = (e - s) + 1
      BY <2>1, SliceIsSame
    <2>3. e <= s + (e - s)
      BY <1>1
    <2> HIDE DEF t
    <2>4. NumberAt(t, 1, (c - s) + 1, (v - s) + 1, (w - s) + 1, (e - s) + 1)
      BY <1>4, <2>2, <2>3, MoveNumber
    <2>5. QED
      BY <1>2, <2>2, <2>4, NumberMemberIs
  <1>5. QED
    BY <1>3, <1>4

-----------------------------------------------------------------------------
(* Members of a framed body.                                               *)

\* No chunk ends between j and k.
Joined(ends, j, k) == \A c \in ends : ~(j <= c /\ c < k)

(* The sizes of chunks are no bytes that JSON gives a meaning to. *)
LEMMA Unlike ==
    /\ \A x \in Sizes : x \notin Whitespace \cup {"q", "n", ":", ",", "}"}
    /\ \A x \in {"q", "n", ":", ",", "}"} : x \notin Whitespace
    /\ Sizes \subseteq STRING
  BY SizeAssumption DEF Sizes, Whitespace

(* Bytes that no end is between are the same in the body. *)
LEMMA JoinedIsSame ==
    ASSUME NEW doc, NEW ends, IsCut(doc, ends), NEW b, Framing(b, doc, ends),
           NEW s \in 1..Len(doc), NEW e \in 1..Len(doc), s <= e, Joined(ends, s, e)
    PROVE  /\ \A i \in s..e : At(ends, i) = At(ends, s) + (i - s)
           /\ Same(doc, s, b, At(ends, s), e - s) /\ Same(b, At(ends, s), doc, s, e - s)
  <1>1. /\ doc \in Seq(Bytes) /\ Len(doc) \in Nat /\ s \in Nat \ {0} /\ e \in Nat /\ e - s \in Nat
        /\ s + (e - s) <= Len(doc)
    BY DEF IsCut
  <1>2. ASSUME NEW i \in s..e
        PROVE  At(ends, i) = At(ends, s) + (i - s)
    <2>1. i \in Nat /\ s <= i
      BY <1>1
    <2>2. \A c \in ends : ~(s <= c /\ c < i)
      <3>1. \A c \in ends : c \in Nat
        BY DEF IsCut
      <3>2. QED
        BY <1>1, <2>1, <3>1 DEF Joined
    <2>3. QED
      BY <1>1, <2>1, <2>2, PlacesStay
  <1>3. At(ends, s) \in Nat /\ At(ends, e) \in Nat /\ At(ends, s) >= s + 3
    BY <1>1, PlacesRise
  <1>4. At(ends, s) + (e - s) <= Len(b)
    <2>1. At(ends, e) + (Len(doc) - e) <= At(ends, Len(doc)) /\ At(ends, Len(doc)) \in Nat
      BY <1>1, PlacesRise
    <2>2. At(ends, e) = At(ends, s) + (e - s)
      BY <1>1, <1>2
    <2>3. At(ends, Len(doc)) + 5 <= Len(b) /\ Len(b) \in Nat
      BY DEF Framing
    <2>4. QED
      BY <1>1, <1>3, <2>1, <2>2, <2>3, SMTT(30)
  <1>5. ASSUME NEW i \in 0..(e - s)
        PROVE  b[At(ends, s) + i] = doc[s + i]
    <2>1. s + i \in s..e /\ s + i \in 1..Len(doc) /\ (s + i) - s = i
      BY <1>1
    <2>2. QED
      BY <1>2, <2>1 DEF Framing
  <1>6. At(ends, s) \in Nat \ {0} /\ b \in Seq(Bytes)
    BY <1>1, <1>3 DEF Framing
  <1>7. QED
    BY <1>1, <1>2, <1>4, <1>5, <1>6 DEF Same

(* A key is one of the document. *)
LEMMA RawKey ==
    ASSUME NEW doc, NEW ends, IsCut(doc, ends), NEW b, Framing(b, doc, ends),
           NEW S, KeyAt(b, S)
    PROVE  \E s \in 1..Len(doc) : S = At(ends, s) /\ KeyAt(doc, s)
  <1>1. S \in Nat /\ S \in 1..Len(b) /\ S + 1 \in 1..Len(b) /\ S + 2 \in 1..Len(b)
        /\ Len(b) \in Nat /\ Len(doc) \in Nat
    BY DEF KeyAt, Framing, IsCut
  <1>2. b[S] = "q" /\ b[S + 1] = "n" /\ b[S + 2] = "q"
    BY DEF KeyAt
  <1>3. PICK s \in 1..Len(doc) : S = At(ends, s)
    <2>1. b[S] \notin Whitespace /\ b[S] \notin Sizes
      BY <1>2, Unlike
    <2>2. QED
      BY <1>1, <2>1, Covered
  <1>4. PICK k \in 1..Len(doc) : S + 2 = At(ends, k)
    <2>1. b[S + 2] \notin Whitespace /\ b[S + 2] \notin Sizes
      BY <1>2, Unlike
    <2>2. QED
      BY <1>1, <2>1, Covered
  <1>5. s <= k /\ Joined(ends, s, k)
    <2>1. At(ends, s) <= At(ends, k)
      BY <1>1, <1>3, <1>4
    <2>2. \A p \in (At(ends, s) + 1)..(At(ends, k) - 1) : b[p] \notin Sizes
      <3> SUFFICES ASSUME NEW p \in (S + 1)..((S + 2) - 1) PROVE b[p] \notin Sizes
        BY <1>3, <1>4
      <3>1. p = S + 1
        BY <1>1
      <3>2. QED
        BY <1>2, <3>1, Unlike
    <2>3. QED
      BY <2>1, <2>2, Straight DEF Joined
  <1>6. s \in Nat /\ k \in Nat /\ k = s + 2
    <2>1. s \in Nat /\ k \in Nat /\ k \in s..k
      BY <1>5
    <2>2. At(ends, k) = At(ends, s) + (k - s)
      BY <1>5, <2>1, JoinedIsSame
    <2>3. QED
      BY <1>1, <1>3, <1>4, <2>1, <2>2
  <1>7. doc[s] = "q" /\ doc[s + 1] = "n" /\ doc[s + 2] = "q"
    <2>1. Same(b, S, doc, s, k - s) /\ k - s = 2
      BY <1>3, <1>5, <1>6, JoinedIsSame
    <2>2. 0 \in 0..2 /\ 1 \in 0..2 /\ 2 \in 0..2 /\ S + 0 = S /\ s + 0 = s
      BY <1>1, <1>6
    <2>3. QED
      BY <1>2, <2>1, <2>2 DEF Same
  <1>8. s \in 1..(Len(doc) - 2)
    BY <1>1, <1>6
  <1>9. QED
    BY <1>3, <1>7, <1>8 DEF KeyAt

(* A key and its colon are those of the document, and no chunk ends between them. *)
LEMMA RawColon ==
    ASSUME NEW doc, NEW ends, IsCut(doc, ends), NEW b, Framing(b, doc, ends),
           NEW S, NEW C, ColonAt(b, S, C)
    PROVE  \E s, c \in 1..Len(doc) :
               /\ S = At(ends, s) /\ C = At(ends, c) /\ s + 3 <= c /\ Joined(ends, s, c)
               /\ ColonAt(doc, s, c)
  <1>1. /\ S \in Nat \ {0} /\ C \in Nat /\ S + 3 <= C /\ C <= Len(b) /\ Len(b) \in Nat
        /\ S \in 1..Len(b) /\ C \in 1..Len(b)
    <2>1. S \in 1..(Len(b) - 2) /\ C \in (S + 3)..Len(b) /\ Len(b) \in Nat
      BY DEF ColonAt, KeyAt, Framing
    <2>2. QED
      BY <2>1
  <1>2. /\ b[S] = "q" /\ b[S + 1] = "n" /\ b[S + 2] = "q" /\ b[C] = ":"
        /\ Blank(b, S + 3, C - 1)
    BY DEF ColonAt, KeyAt
  <1>3. PICK s \in 1..Len(doc) : S = At(ends, s)
    <2>1. b[S] \notin Whitespace /\ b[S] \notin Sizes
      BY <1>2, Unlike
    <2>2. QED
      BY <1>1, <2>1, Covered
  <1>4. PICK c \in 1..Len(doc) : C = At(ends, c)
    <2>1. b[C] \notin Whitespace /\ b[C] \notin Sizes
      BY <1>2, Unlike
    <2>2. QED
      BY <1>1, <2>1, Covered
  <1>5. ASSUME NEW p \in (S + 1)..(C - 1)
        PROVE  b[p] \notin Sizes
    <2>1. p = S + 1 \/ p = S + 2 \/ p \in (S + 3)..(C - 1)
      BY <1>1
    <2>2. QED
      BY <1>2, <2>1, Unlike DEF Blank
  <1>6. s <= c /\ Joined(ends, s, c)
    <2>1. At(ends, s) <= At(ends, c)
      BY <1>1, <1>3, <1>4
    <2>2. \A p \in (At(ends, s) + 1)..(At(ends, c) - 1) : b[p] \notin Sizes
      BY <1>3, <1>4, <1>5
    <2>3. QED
      BY <2>1, <2>2, Straight DEF Joined
  <1>7. s + 3 <= c
    <2>1. s \in Nat /\ c \in Nat /\ c \in s..c
      BY <1>6
    <2>2. At(ends, c) = At(ends, s) + (c - s)
      BY <1>6, <2>1, JoinedIsSame
    <2>3. QED
      BY <1>1, <1>3, <1>4, <2>1, <2>2
  <1>8. ColonAt(doc, s, c)
    <2>1. s \in Nat /\ c \in Nat /\ Len(doc) \in Nat /\ s <= c
      BY <1>6 DEF IsCut
    <2>2. \A i \in s..c : doc[i] = b[S + (i - s)]
      <3> SUFFICES ASSUME NEW i \in s..c PROVE doc[i] = b[S + (i - s)]
        OBVIOUS
      <3>1. i \in 1..Len(doc) /\ At(ends, i) = S + (i - s)
        BY <1>3, <1>6, <2>1, JoinedIsSame
      <3>2. QED
        BY <3>1 DEF Framing
    <2>3. c = s + (C - S)
      <3>1. c \in s..c /\ At(ends, c) = At(ends, s) + (c - s)
        BY <1>6, <2>1, JoinedIsSame
      <3>2. QED
        BY <1>1, <1>3, <1>4, <2>1, <3>1
    <2>4. doc[s] = "q" /\ doc[s + 1] = "n" /\ doc[s + 2] = "q" /\ doc[c] = ":"
      <3>1. /\ s \in s..c /\ s + 1 \in s..c /\ s + 2 \in s..c /\ c \in s..c
            /\ S + (s - s) = S /\ S + ((s + 1) - s) = S + 1 /\ S + ((s + 2) - s) = S + 2
            /\ S + (c - s) = C
        BY <1>1, <1>7, <2>1, <2>3
      <3>2. QED
        BY <1>2, <2>2, <3>1
    <2>5. Blank(doc, s + 3, c - 1)
      <3> SUFFICES ASSUME NEW i \in (s + 3)..(c - 1) PROVE doc[i] \in Whitespace
        BY DEF Blank
      <3>1. i \in s..c /\ S + (i - s) \in (S + 3)..(C - 1)
        BY <1>1, <2>1, <2>3
      <3>2. QED
        BY <1>2, <2>2, <3>1 DEF Blank
    <2>6. s \in 1..(Len(doc) - 2) /\ c \in (s + 3)..Len(doc)
      BY <1>7, <2>1
    <2>7. QED
      BY <2>4, <2>5, <2>6 DEF ColonAt, KeyAt
  <1>9. QED
    BY <1>3, <1>4, <1>6, <1>7, <1>8

(* A string member of the body is one of the document, and no chunk ends between its
   key and its value. *)
LEMMA RawString ==
    ASSUME NEW doc, NEW ends, IsCut(doc, ends), NEW b, Framing(b, doc, ends),
           NEW S, NEW C, NEW V, NEW E, StringAt(b, S, C, V, E)
    PROVE  \E s, v, e \in 1..Len(doc) :
               /\ S = At(ends, s) /\ V = At(ends, v) /\ E = At(ends, e)
               /\ s + 3 <= v /\ v < e /\ Joined(ends, s, v)
               /\ \E c : StringAt(doc, s, c, v, e)
  <1>1. /\ Opening(b, S, C, V) /\ b[V] = "q" /\ b[E] = "q"
        /\ \A k \in (V + 1)..(E - 1) : b[k] # "q"
        /\ ColonAt(b, S, C) /\ Blank(b, C + 1, V - 1)
    BY DEF StringAt, Opening
  <1>2. /\ V \in 1..Len(b) /\ E \in 1..Len(b) /\ C \in Nat /\ C < V /\ V < E
        /\ V \in Nat /\ E \in Nat
    <2>1. S \in Nat /\ C \in (S + 3)..Len(b) /\ V \in (C + 1)..Len(b) /\ E \in (V + 1)..Len(b)
      BY DEF StringAt, Opening, ColonAt, KeyAt
    <2>2. Len(b) \in Nat
      BY DEF Framing
    <2>3. QED
      BY <2>1, <2>2
  <1>3. PICK s \in 1..Len(doc), c \in 1..Len(doc) :
            S = At(ends, s) /\ C = At(ends, c) /\ s + 3 <= c /\ Joined(ends, s, c)
    BY <1>1, RawColon
  <1>4. b[V] \notin Whitespace /\ b[V] \notin Sizes /\ b[E] \notin Whitespace /\ b[E] \notin Sizes
    BY <1>1, Unlike
  <1>5. PICK v \in 1..Len(doc) : V = At(ends, v)
    BY <1>2, <1>4, Covered
  <1>6. PICK e \in 1..Len(doc) : E = At(ends, e)
    BY <1>2, <1>4, Covered
  <1>7. /\ doc \in Seq(Bytes) /\ Len(doc) \in Nat /\ s \in Nat /\ c \in Nat
        /\ v \in Nat /\ e \in Nat
    BY DEF IsCut
  <1>8. c <= v /\ Joined(ends, c, v)
    <2>1. At(ends, c) <= At(ends, v)
      BY <1>2, <1>3, <1>5
    <2>2. \A p \in (At(ends, c) + 1)..(At(ends, v) - 1) : b[p] \notin Sizes
      BY <1>1, <1>3, <1>5, Unlike DEF Blank
    <2>3. QED
      BY <2>1, <2>2, Straight DEF Joined
  <1>9. s + 3 <= v /\ Joined(ends, s, v)
    <2>1. \A x \in ends : x \in Nat
      BY DEF IsCut
    <2>2. QED
      BY <1>3, <1>7, <1>8, <2>1 DEF Joined
  <1>10. v < e
    <2> SUFFICES ASSUME e <= v PROVE FALSE
      BY <1>7
    <2>1. At(ends, e) + (v - e) <= At(ends, v)
      BY <1>7, PlacesRise
    <2>2. QED
      BY <1>2, <1>5, <1>6, <1>7, <2>1
  <1>11. PICK d : Opening(doc, s, d, v)
    <2>1. s <= v /\ v \in s..v
      BY <1>7, <1>9
    <2>2. Same(b, S, doc, s, v - s) /\ V = S + (v - s)
      BY <1>3, <1>5, <1>9, <2>1, JoinedIsSame
    <2>3. S \in Nat /\ V <= S + (v - s) /\ (V - S) + s = v
      BY <1>2, <1>7, <2>2, SMTT(30) DEF Same
    <2>4. Opening(doc, s, (C - S) + s, (V - S) + s)
      BY <1>1, <2>2, <2>3, MoveOpening
    <2>5. QED
      BY <2>3, <2>4
  <1>12. ASSUME NEW k \in (v + 1)..(e - 1)
         PROVE  doc[k] # "q"
    <2>1. k \in 1..Len(doc) /\ k \in Nat /\ v <= k /\ k <= e /\ 1 <= k - v /\ 1 <= e - k
      BY <1>7
    <2>2. /\ At(ends, v) + (k - v) <= At(ends, k) /\ At(ends, k) + (e - k) <= At(ends, e)
          /\ At(ends, k) \in Nat
      BY <1>7, <2>1, PlacesRise
    <2>3. At(ends, k) \in (V + 1)..(E - 1)
      <3>1. PICK K \in Nat : K = At(ends, k)
        BY <2>2
      <3>2. V + (k - v) <= K /\ K + (e - k) <= E
        BY <1>5, <1>6, <2>2, <3>1
      <3>3. V \in Nat /\ E \in Nat /\ k \in Nat /\ v \in Nat /\ e \in Nat
            /\ 1 <= k - v /\ 1 <= e - k
        BY <1>2, <1>7, <2>1
      <3>4. K \in (V + 1)..(E - 1)
        BY ONLY <3>2, <3>3, K \in Nat
      <3>5. QED
        BY <3>1, <3>4
    <2>4. b[At(ends, k)] = doc[k]
      BY <2>1 DEF Framing
    <2>5. QED
      BY <1>1, <2>3, <2>4
  <1>13. StringAt(doc, s, d, v, e)
    <2>1. doc[v] = "q" /\ doc[e] = "q"
      BY <1>1, <1>5, <1>6 DEF Framing
    <2>2. e \in (v + 1)..Len(doc)
      BY <1>7, <1>10
    <2>3. QED
      BY <1>11, <1>12, <2>1, <2>2 DEF StringAt
  <1>14. QED
    BY <1>3, <1>5, <1>6, <1>9, <1>10, <1>13

(* The clauses of JSON that the scans rest on, at the places of a member. *)
LEMMA NoReturnInString ==
    ASSUME NEW doc \in Seq(Bytes), IsJSON(doc), NEW s \in 1..Len(doc), NEW e \in 1..Len(doc),
           NEW c, NEW v, StringAt(doc, s, c, v, e), NEW k \in (s + 3)..e, doc[k] = "q",
           NEW j \in k..e
    PROVE  doc[j] # "CR"
  <1>1. IsStringMember(SubSeq(doc, s, e))
    BY StringMember
  <1>2. QED
    BY <1>1 DEF IsJSON

LEMMA ValueFollows ==
    ASSUME NEW doc \in Seq(Bytes), IsJSON(doc), NEW s, NEW c, NEW t, Opening(doc, s, c, t)
    PROVE  doc[t] \notin {",", "}"}
  <1> DEFINE x == SubSeq(doc, s, Len(doc))
             p == t - s
  <1>1. /\ s \in Nat \ {0} /\ c \in Nat /\ t \in Nat /\ Len(doc) \in Nat /\ s + 3 <= c /\ c < t
        /\ t <= Len(doc)
    <2>1. /\ s \in Nat \ {0} /\ Len(doc) \in Nat
          /\ c \in (s + 3)..Len(doc) /\ t \in (c + 1)..Len(doc)
      BY DEF Opening, ColonAt, KeyAt
    <2>2. QED
      BY <2>1
  <1>2. /\ s \in 1..Len(doc) /\ Len(doc) \in 1..Len(doc) /\ s <= Len(doc)
        /\ p \in 4..(Len(doc) - s) /\ s + p = t /\ (t - s) + 1 = p + 1
        /\ t <= s + (Len(doc) - s)
    BY <1>1
  <1>3. Same(doc, s, x, 1, Len(doc) - s) /\ Len(x) = (Len(doc) - s) + 1 /\ x \in Seq(Bytes)
    BY <1>2, SliceIsSame DEF Same
  <1> HIDE DEF x
  <1>4. Opening(x, 1, (c - s) + 1, (t - s) + 1)
    BY <1>2, <1>3, MoveOpening
  <1>5. p \in 4..(Len(x) - 1)
    BY <1>1, <1>2, <1>3
  <1>6. Opens(x, p)
    <2> HIDE DEF p
    <2> QED
      BY <1>2, <1>3, <1>4, <1>5, OpensIs
  <1>7. doc[s + p] \notin {",", "}"}
    BY <1>2, <1>6 DEF IsJSON, x
  <1>8. QED
    BY <1>2, <1>7

(* A number member of the body is one of the document, inside one chunk: a size that
   took the place of its value would leave the document with no value there. *)
LEMMA RawNumber ==
    ASSUME NEW doc, NEW ends, IsCut(doc, ends), IsJSON(doc), NEW b, Framing(b, doc, ends),
           NEW S, NEW C, NEW V, NEW W, NEW T, NumberAt(b, S, C, V, W, T)
    PROVE  \E s, t \in 1..Len(doc) :
               /\ S = At(ends, s) /\ T = At(ends, t) /\ s <= t /\ Joined(ends, s, t)
               /\ \E c, v, w : NumberAt(doc, s, c, v, w, t)
  <1>1. /\ Opening(b, S, C, V) /\ Blank(b, W, T - 1) /\ b[T] \in {",", "}"}
        /\ \A k \in V..(W - 1) : b[k] \in Digits
        /\ ColonAt(b, S, C) /\ Blank(b, C + 1, V - 1)
    BY DEF NumberAt, Opening
  <1>2. /\ Len(b) \in Nat /\ S \in Nat \ {0} /\ C \in Nat /\ V \in Nat /\ W \in Nat /\ T \in Nat
        /\ S + 3 <= C /\ C < V /\ V < W /\ W <= T /\ T <= Len(b)
    BY NumberPlaces DEF Framing
  <1>3. PICK s \in 1..Len(doc), c \in 1..Len(doc) :
            /\ S = At(ends, s) /\ C = At(ends, c) /\ s + 3 <= c /\ Joined(ends, s, c)
            /\ ColonAt(doc, s, c)
    <2>1. ColonAt(b, S, C)
      BY <1>1
    <2>2. QED
      BY <2>1, RawColon
  <1>4. PICK t \in 1..Len(doc) : T = At(ends, t)
    <2>1. T \in 1..Len(b)
      BY <1>2
    <2>2. b[T] \notin Whitespace /\ b[T] \notin Sizes
      BY <1>1, Unlike
    <2>3. QED
      BY <2>1, <2>2, Covered
  <1>5. doc \in Seq(Bytes) /\ Len(doc) \in Nat /\ s \in Nat /\ c \in Nat /\ t \in Nat
    BY DEF IsCut
  <1>6. C = At(ends, c) /\ T = At(ends, t) /\ At(ends, c) \in Nat /\ At(ends, t) \in Nat
    BY <1>2, <1>3, <1>4
  <1>7. c < t
    <2> SUFFICES ASSUME t <= c PROVE FALSE
      BY <1>5
    <2>1. At(ends, t) + (c - t) <= At(ends, c)
      BY <1>5, PlacesRise
    <2>2. QED
      BY <1>2, <1>5, <1>6, <2>1, SMTT(30)
  <1>8. ASSUME NEW x \in ends, c <= x, x < t
        PROVE  FALSE
    <2>1. x \in Nat /\ At(ends, x) \in Nat /\ At(ends, x + 1) = At(ends, x) + 6
      BY PlacesJump
    <2>2. At(ends, c) + (x - c) <= At(ends, x)
      BY <1>5, <1>8, <2>1, PlacesRise
    <2>3. At(ends, x + 1) + (t - (x + 1)) <= At(ends, t)
      <3>1. x + 1 \in Nat /\ x + 1 <= t
        BY <1>5, <1>8, <2>1
      <3>2. QED
        BY <1>5, <3>1, PlacesRise
    <2>4. PICK X \in Nat : X = At(ends, x) + 3
      BY <2>1
    <2>5. /\ X \in (C + 1)..(T - 1) /\ X - 1 \in (C + 1)..(T - 1) /\ X + 1 \in (C + 1)..(T - 1)
      <3>1. At(ends, c) <= At(ends, x)
        BY <1>5, <1>8, <1>6, <2>1, <2>2
      <3>2. At(ends, x) + 6 <= At(ends, t)
        BY <1>5, <1>8, <1>6, <2>1, <2>3
      <3>3. C + 3 <= X /\ X + 3 <= T
        BY <1>6, <2>1, <2>4, <3>1, <3>2, SMTT(30)
      <3>4. QED
        BY <1>2, <3>3
    <2>6. b[X] \in Sizes /\ b[X - 1] = "LF" /\ b[X + 1] = "CR"
      <3>1. X - 1 = At(ends, x) + 2 /\ X + 1 = At(ends, x) + 4
        BY <2>1, <2>4, SMTT(30)
      <3>2. QED
        BY <2>4, <3>1 DEF Framing
    <2>7. X \in V..(W - 1)
      <3>1. b[X] \notin Whitespace
        BY <2>6, Unlike
      <3>2. X \notin (C + 1)..(V - 1) /\ X \notin W..(T - 1)
        BY <1>1, <3>1 DEF Blank
      <3>3. QED
        BY <1>2, <2>5, <3>2
    <2>8. X - 1 \notin V..(W - 1) /\ X + 1 \notin V..(W - 1)
      <3>1. "LF" \notin Digits /\ "CR" \notin Digits
        BY DEF Digits
      <3>2. QED
        BY <1>1, <2>6, <3>1
    <2>9. V = X /\ W = X + 1
      BY <1>2, <2>7, <2>8
    <2>10. ASSUME NEW i \in (c + 1)..(t - 1)
           PROVE  doc[i] \in Whitespace
      <3>1. i \in Nat /\ i \in 1..Len(doc) /\ c <= i /\ i <= t /\ 1 <= i - c /\ 1 <= t - i
        BY <1>5
      <3>2. /\ At(ends, c) + (i - c) <= At(ends, i) /\ At(ends, i) + (t - i) <= At(ends, t)
            /\ At(ends, i) \in Nat
        BY <1>5, <3>1, PlacesRise
      <3>3. At(ends, i) \in (C + 1)..(T - 1)
        <4>1. At(ends, c) + 1 <= At(ends, i) /\ At(ends, i) + 1 <= At(ends, t)
          BY <1>5, <1>6, <3>1, <3>2, SMTT(30)
        <4>2. QED
          BY <1>6, <3>2, <4>1
      <3>4. At(ends, i) # X
        <4>1. CASE i <= x
          <5>1. At(ends, i) + (x - i) <= At(ends, x)
            BY <2>1, <3>1, <4>1, PlacesRise
          <5>2. QED
            BY <2>1, <2>4, <3>1, <3>2, <4>1, <5>1, SMTT(30)
        <4>2. CASE x < i
          <5>1. x + 1 \in Nat /\ x + 1 <= i
            BY <2>1, <3>1, <4>2
          <5>2. At(ends, x + 1) + (i - (x + 1)) <= At(ends, i)
            BY <3>1, <5>1, PlacesRise
          <5>3. QED
            <6>1. At(ends, x) + 6 <= At(ends, i)
              BY <2>1, <3>1, <3>2, <5>1, <5>2, SMTT(30)
            <6>2. QED
              BY <2>1, <2>4, <3>2, <6>1, SMTT(30)
        <4>3. QED
          BY <2>1, <3>1, <4>1, <4>2
      <3>5. At(ends, i) \in (C + 1)..(V - 1) \/ At(ends, i) \in W..(T - 1)
        <4>1. PICK I \in Nat : I = At(ends, i)
          BY <3>2
        <4>2. I \in (C + 1)..(T - 1) /\ I # V
          BY <2>9, <3>3, <3>4, <4>1
        <4>3. I \in (C + 1)..(V - 1) \/ I \in W..(T - 1)
          BY <1>2, <2>9, <4>2
        <4>4. QED
          BY <4>1, <4>3
      <3>6. b[At(ends, i)] \in Whitespace
        BY <1>1, <3>5 DEF Blank
      <3>7. QED
        BY <3>1, <3>6 DEF Framing
    <2>11. Opening(doc, s, c, t)
      <3>1. t \in (c + 1)..Len(doc)
        BY <1>5, <1>7
      <3>2. QED
        BY <1>3, <2>10, <3>1 DEF Opening, Blank
    <2>12. doc[t] \in {",", "}"}
      BY <1>1, <1>4 DEF Framing
    <2>13. QED
      BY <1>5, <2>11, <2>12, ValueFollows
  <1>9. s <= t /\ Joined(ends, s, t)
    <2>1. \A x \in ends : x \in Nat
      BY DEF IsCut
    <2>2. QED
      BY <1>3, <1>5, <1>7, <1>8, <2>1 DEF Joined
  <1>10. Same(b, S, doc, s, t - s) /\ T = S + (t - s)
    <2>1. t \in s..t
      BY <1>5, <1>9
    <2>2. QED
      BY <1>3, <1>4, <1>9, <2>1, JoinedIsSame
  <1>11. T <= S + (t - s) /\ (T - S) + s = t
    BY <1>2, <1>5, <1>10
  <1>12. NumberAt(doc, s, (C - S) + s, (V - S) + s, (W - S) + s, (T - S) + s)
    BY <1>10, <1>11, MoveNumber
  <1>13. QED
    BY <1>3, <1>4, <1>9, <1>11, <1>12

\* The range r of a body is that of the bytes s to e of the document.
Places(r, ends, s, e) == r = [start |-> At(ends, s), end |-> At(ends, e) + 1]

(* What both scans for a string find with the same bytes is a whole member of the
   document, inside one chunk: bytes with a line of framing in them are not those of
   a string of JSON. *)
LEMMA StringsAreWhole ==
    ASSUME NEW doc, NEW ends, IsCut(doc, ends), IsJSON(doc), NEW b, Framing(b, doc, ends),
           NEW r \in in_body(b), NEW d \in in_body(doc),
           SubSeq(b, r.start, r.end - 1) = SubSeq(doc, d.start, d.end - 1)
    PROVE  \E s, e \in 1..Len(doc) :
               /\ s <= e /\ Joined(ends, s, e) /\ Places(r, ends, s, e)
               /\ IsStringMember(SubSeq(doc, s, e))
  <1>1. doc \in Seq(Bytes) /\ b \in Seq(Bytes) /\ Len(doc) \in Nat /\ Len(b) \in Nat
    BY DEF IsCut, Framing
  <1>2. PICK S, C, V, E : StringAt(b, S, C, V, E) /\ r = [start |-> S, end |-> E + 1]
    BY <1>1, StringFound
  <1>3. PICK s \in 1..Len(doc), v \in 1..Len(doc), e \in 1..Len(doc) :
            /\ S = At(ends, s) /\ V = At(ends, v) /\ E = At(ends, e)
            /\ s + 3 <= v /\ v < e /\ Joined(ends, s, v)
            /\ \E c : StringAt(doc, s, c, v, e)
    BY <1>2, RawString
  <1>4. PICK s1, c1, v1, e1 : StringAt(doc, s1, c1, v1, e1) /\ d = [start |-> s1, end |-> e1 + 1]
    BY <1>1, StringFound
  <1>5. s \in Nat /\ v \in Nat /\ e \in Nat /\ s1 \in 1..Len(doc) /\ e1 \in 1..Len(doc) /\ s1 < e1
    <2>1. /\ s1 \in 1..(Len(doc) - 2) /\ c1 \in (s1 + 3)..Len(doc) /\ v1 \in (c1 + 1)..Len(doc)
          /\ e1 \in (v1 + 1)..Len(doc)
      BY <1>4 DEF StringAt, Opening, ColonAt, KeyAt
    <2>2. QED
      BY <1>1, <2>1
  <1>6. /\ S \in Nat \ {0} /\ V \in Nat /\ E \in Nat /\ S <= V /\ V <= E /\ E <= Len(b)
    <2>1. /\ S \in 1..(Len(b) - 2) /\ C \in (S + 3)..Len(b) /\ V \in (C + 1)..Len(b)
          /\ E \in (V + 1)..Len(b)
      BY <1>2 DEF StringAt, Opening, ColonAt, KeyAt
    <2>2. QED
      BY <1>1, <2>1
  <1>7. E - S = e1 - s1 /\ \A i \in 0..(E - S) : b[S + i] = doc[s1 + i]
    <2> DEFINE x == SubSeq(b, S, E)
               y == SubSeq(doc, s1, e1)
    <2>1. (E + 1) - 1 = E /\ (e1 + 1) - 1 = e1 /\ E \in 1..Len(b) /\ S \in 1..Len(b) /\ S <= E
          /\ s1 <= e1
      BY <1>1, <1>5, <1>6
    <2>2. x = y
      BY <1>2, <1>4, <2>1
    <2>3. Same(b, S, x, 1, E - S) /\ Len(x) = (E - S) + 1
      BY <1>1, <2>1, SliceIsSame
    <2>4. Same(doc, s1, y, 1, e1 - s1) /\ Len(y) = (e1 - s1) + 1
      BY <1>1, <1>5, <2>1, SliceIsSame
    <2> HIDE DEF x, y
    <2>5. E - S = e1 - s1
      BY <1>5, <1>6, <2>2, <2>3, <2>4, SMTT(30)
    <2>6. QED
      BY <2>2, <2>3, <2>4, <2>5 DEF Same
  <1>8. ASSUME NEW x \in ends, s <= x, x < e
        PROVE  FALSE
    <2>1. x \in Nat /\ At(ends, x) \in Nat /\ At(ends, x + 1) = At(ends, x) + 6
      BY PlacesJump
    <2>2. v <= x
      BY <1>3, <1>5, <1>8, <2>1 DEF Joined
    <2>3. V + (x - v) <= At(ends, x)
      BY <1>3, <1>5, <2>1, <2>2, PlacesRise
    <2>4. At(ends, x + 1) + (e - (x + 1)) <= E
      <3>1. x + 1 \in Nat /\ x + 1 <= e
        BY <1>5, <1>8, <2>1
      <3>2. QED
        BY <1>3, <1>5, <3>1, PlacesRise
    <2>5. PICK X \in Nat : X = At(ends, x) + 1
      BY <2>1
    <2>6. b[X] = "CR" /\ b[V] = "q"
      BY <1>2, <2>5 DEF Framing, StringAt
    <2>7. V <= X /\ X <= E
      <3>1. PICK A \in Nat : A = At(ends, x)
        BY <2>1
      <3>2. V + (x - v) <= A /\ (A + 6) + (e - (x + 1)) <= E /\ X = A + 1
        BY <2>1, <2>3, <2>4, <2>5, <3>1
      <3>3. V \in Nat /\ E \in Nat /\ x \in Nat /\ v \in Nat /\ e \in Nat /\ v <= x /\ x < e
        BY <1>5, <1>6, <1>8, <2>1, <2>2
      <3>4. QED
        BY ONLY <3>2, <3>3, A \in Nat
    <2>8. S + 3 <= V
      <3>1. S \in Nat /\ C \in (S + 3)..Len(b) /\ V \in (C + 1)..Len(b)
        BY <1>2 DEF StringAt, Opening, ColonAt, KeyAt
      <3>2. QED
        BY <1>1, <3>1
    <2>9. PICK k \in (s1 + 3)..e1 : k = s1 + (V - S)
      BY <1>1, <1>5, <1>6, <1>7, <2>8
    <2>10. PICK j \in k..e1 : j = s1 + (X - S)
      <3>1. s1 + (X - S) \in k..e1
        BY <1>1, <1>5, <1>6, <1>7, <2>7, <2>9
      <3>2. QED
        BY <3>1
    <2>11. doc[k] = b[V] /\ doc[j] = b[X]
      <3>1. V - S \in 0..(E - S) /\ X - S \in 0..(E - S) /\ S + (V - S) = V /\ S + (X - S) = X
        BY <1>6, <2>7
      <3>2. QED
        BY <1>7, <2>9, <2>10, <3>1
    <2>12. QED
      BY <1>1, <1>4, <1>5, <2>6, <2>11, NoReturnInString
  <1>9. Joined(ends, s, e) /\ s <= e
    BY <1>3, <1>5, <1>8 DEF Joined
  <1>10. IsStringMember(SubSeq(doc, s, e))
    BY <1>1, <1>3, StringMember
  <1>11. QED
    BY <1>2, <1>3, <1>9, <1>10 DEF Places

(* What the scan for a number finds is a whole member, inside one chunk. *)
LEMMA NumbersAreWhole ==
    ASSUME NEW doc, NEW ends, IsCut(doc, ends), IsJSON(doc), NEW b, Framing(b, doc, ends),
           NEW r \in find_json_bare_snippet_range(b)
    PROVE  \E s, e \in 1..Len(doc) :
               /\ s <= e /\ Joined(ends, s, e) /\ Places(r, ends, s, e)
               /\ IsNumberMember(SubSeq(doc, s, e))
  <1>1. doc \in Seq(Bytes) /\ b \in Seq(Bytes)
    BY DEF IsCut, Framing
  <1>2. PICK S, C, V, W, T : NumberAt(b, S, C, V, W, T) /\ r = [start |-> S, end |-> T + 1]
    BY <1>1, NumberFound
  <1>3. PICK s \in 1..Len(doc), t \in 1..Len(doc) :
            /\ S = At(ends, s) /\ T = At(ends, t) /\ s <= t /\ Joined(ends, s, t)
            /\ \E c, v, w : NumberAt(doc, s, c, v, w, t)
    BY <1>2, RawNumber
  <1>4. IsNumberMember(SubSeq(doc, s, t))
    BY <1>1, <1>3, NumberMember
  <1>5. QED
    BY <1>2, <1>3, <1>4 DEF Places

(* What no end runs through is in the body with the same bytes. *)
LEMMA JoinedBytes ==
    ASSUME NEW doc, NEW ends, IsCut(doc, ends), NEW b, Framing(b, doc, ends),
           NEW s \in 1..Len(doc), NEW e \in 1..Len(doc), s <= e, Joined(ends, s, e)
    PROVE  /\ Same(doc, s, b, At(ends, s), e - s)
           /\ At(ends, s) \in Nat \ {0} /\ At(ends, e) = At(ends, s) + (e - s)
           /\ SubSeq(b, At(ends, s), At(ends, e)) = SubSeq(doc, s, e)
  <1>1. doc \in Seq(Bytes) /\ b \in Seq(Bytes) /\ Len(doc) \in Nat /\ s \in Nat /\ e \in Nat
    BY DEF IsCut, Framing
  <1>2. PICK S : S = At(ends, s)
    OBVIOUS
  <1>3. Same(doc, s, b, S, e - s) /\ At(ends, e) = S + (e - s)
    <2>1. e \in s..e
      BY <1>1
    <2>2. QED
      BY <1>2, <2>1, JoinedIsSame
  <1>4. S \in Nat \ {0} /\ S + (e - s) <= Len(b) /\ Len(b) \in Nat
    BY <1>1, <1>3 DEF Same
  <1> DEFINE x == SubSeq(b, S, S + (e - s))
             y == SubSeq(doc, s, e)
  <1>5. S \in 1..Len(b) /\ S + (e - s) \in 1..Len(b) /\ S <= S + (e - s)
        /\ (S + (e - s)) - S = e - s /\ e - s \in Nat
    BY <1>1, <1>4
  <1>6. Same(x, 1, b, S, e - s) /\ Len(x) = (e - s) + 1
    BY <1>1, <1>5, SliceIsSame
  <1>7. Same(y, 1, doc, s, e - s) /\ Len(y) = (e - s) + 1
    BY <1>1, SliceIsSame
  <1> HIDE DEF x, y
  <1>8. x \in Seq(Bytes) /\ y \in Seq(Bytes) /\ Len(x) = Len(y)
    BY <1>6, <1>7 DEF Same
  <1>9. ASSUME NEW i \in 1..Len(x)
        PROVE  x[i] = y[i]
    <2>1. PICK k \in 0..(e - s) : 1 + k = i
      <3>1. i - 1 \in 0..(e - s) /\ 1 + (i - 1) = i
        BY <1>5, <1>6
      <3>2. QED
        BY <3>1
    <2>2. x[1 + k] = b[S + k] /\ y[1 + k] = doc[s + k] /\ doc[s + k] = b[S + k]
      BY <1>3, <1>6, <1>7 DEF Same
    <2>3. QED
      BY <2>1, <2>2
  <1>10. x = y
    BY <1>8, <1>9, SeqEqual
  <1>11. QED
    BY <1>2, <1>3, <1>4, <1>10 DEF x, y

(* The first member of a document is the one its scan finds. *)
LEMMA DocString ==
    ASSUME NEW doc \in Seq(Bytes),
           NEW s \in 1..Len(doc), NEW e \in 1..Len(doc), IsStringMember(SubSeq(doc, s, e)),
           \A z, y \in 1..Len(doc) : IsStringMember(SubSeq(doc, z, y)) => s <= z
    PROVE  in_body(doc) = {[start |-> s, end |-> e + 1]} /\ s <= e
  <1>1. Len(doc) \in Nat /\ s \in Nat /\ e \in Nat
    OBVIOUS
  <1>2. PICK c, v : StringAt(doc, s, c, v, e)
    BY <1>1, StringMember
  <1>3. s <= e
    <2>1. c \in (s + 3)..Len(doc) /\ v \in (c + 1)..Len(doc) /\ e \in (v + 1)..Len(doc)
      BY <1>2 DEF StringAt, Opening, ColonAt
    <2>2. QED
      BY <1>1, <2>1
  <1>4. ASSUME NEW z, NEW c0, NEW v0, NEW e0, StringAt(doc, z, c0, v0, e0)
        PROVE  z \in Nat /\ s <= z
    <2>1. z \in 1..(Len(doc) - 2) /\ c0 \in (z + 3)..Len(doc) /\ v0 \in (c0 + 1)..Len(doc)
          /\ e0 \in (v0 + 1)..Len(doc)
      BY <1>4 DEF StringAt, Opening, ColonAt, KeyAt
    <2>2. z \in 1..Len(doc) /\ e0 \in 1..Len(doc) /\ z \in Nat
      BY <1>1, <2>1
    <2>3. IsStringMember(SubSeq(doc, z, e0))
      BY <1>1, <1>4, <2>2, StringMember
    <2>4. QED
      BY <2>2, <2>3
  <1>5. \A z \in 1..(s - 1) : \A c0, v0, e0 : ~StringAt(doc, z, c0, v0, e0)
    BY <1>1, <1>4
  <1>6. QED
    BY <1>2, <1>3, <1>5, FirstString

LEMMA DocNumber ==
    ASSUME NEW doc \in Seq(Bytes),
           NEW s \in 1..Len(doc), NEW e \in 1..Len(doc), IsNumberMember(SubSeq(doc, s, e)),
           \A z \in 1..(s - 1) : SubSeq(doc, z, z + 2) # Key
    PROVE  find_json_bare_snippet_range(doc) = {[start |-> s, end |-> e + 1]} /\ s <= e
  <1>1. Len(doc) \in Nat /\ s \in Nat /\ e \in Nat
    OBVIOUS
  <1>2. PICK c, v, w : NumberAt(doc, s, c, v, w, e)
    BY <1>1, NumberMember
  <1>3. s <= e
    <2>1. s + 3 <= c /\ c < v /\ v < w /\ w <= e /\ c \in Nat /\ v \in Nat /\ w \in Nat
      BY <1>1, <1>2, NumberPlaces
    <2>2. QED
      BY <1>1, <2>1
  <1>4. \A z \in 1..(s - 1) : ~KeyAt(doc, z)
    <2> SUFFICES ASSUME NEW z \in 1..(s - 1), KeyAt(doc, z) PROVE FALSE
      OBVIOUS
    <2>1. z \in find_first(doc, Key) /\ Len(Key) = 3
      BY <1>1, KeyFound DEF Key
    <2>2. SubSeq(doc, z, z + Len(Key) - 1) = Key
      BY <2>1 DEF find_first, Occurs
    <2>3. z + Len(Key) - 1 = z + 2
      BY <2>1
    <2>4. QED
      BY <2>2, <2>3
  <1>5. QED
    BY <1>2, <1>3, <1>4, FirstNumber

\* Nothing is ahead of byte s that would stop the scan.
NoStringAhead(doc, s) ==
    \A z, y \in 1..Len(doc) : IsStringMember(SubSeq(doc, z, y)) => s <= z
NoKeyAhead(doc, s) == \A z \in 1..(s - 1) : SubSeq(doc, z, z + 2) # Key

\* found holds the range of bytes s to e in the body b, which are the document's.
FoundThere(found, b, doc, ends, s, e) ==
    /\ found = {[start |-> At(ends, s), end |-> At(ends, e) + 1]}
    /\ SubSeq(b, At(ends, s), At(ends, e)) = SubSeq(doc, s, e)

(* A member that no end runs through, and that the scan comes to first, is found in
   the body, with the same bytes. *)
LEMMA StringsAreFound ==
    ASSUME NEW doc, NEW ends, IsCut(doc, ends), NEW b, Framing(b, doc, ends),
           NEW s \in 1..Len(doc), NEW e \in 1..Len(doc), IsStringMember(SubSeq(doc, s, e)),
           NoStringAhead(doc, s), Joined(ends, s, e)
    PROVE  FoundThere(in_body(b), b, doc, ends, s, e)
  <1>1. doc \in Seq(Bytes) /\ b \in Seq(Bytes) /\ Len(doc) \in Nat /\ s \in Nat /\ e \in Nat
    BY DEF IsCut, Framing
  <1>2. PICK c, v : StringAt(doc, s, c, v, e)
    BY <1>1, StringMember
  <1>3. s <= e
    <2>1. c \in (s + 3)..Len(doc) /\ v \in (c + 1)..Len(doc) /\ e \in (v + 1)..Len(doc)
      BY <1>2 DEF StringAt, Opening, ColonAt
    <2>2. QED
      BY <1>1, <2>1
  <1>4. ASSUME NEW z, NEW c0, NEW v0, NEW e0, StringAt(doc, z, c0, v0, e0)
        PROVE  z \in Nat /\ s <= z
    <2>1. z \in 1..(Len(doc) - 2) /\ c0 \in (z + 3)..Len(doc) /\ v0 \in (c0 + 1)..Len(doc)
          /\ e0 \in (v0 + 1)..Len(doc)
      BY <1>4 DEF StringAt, Opening, ColonAt, KeyAt
    <2>2. z \in 1..Len(doc) /\ e0 \in 1..Len(doc) /\ z \in Nat
      BY <1>1, <2>1
    <2>3. IsStringMember(SubSeq(doc, z, e0))
      BY <1>1, <1>4, <2>2, StringMember
    <2>4. QED
      BY <2>2, <2>3 DEF NoStringAhead
  <1>5. PICK S, E : S = At(ends, s) /\ E = At(ends, e)
    OBVIOUS
  <1>6. /\ Same(doc, s, b, S, e - s) /\ S \in Nat \ {0} /\ E = S + (e - s)
        /\ SubSeq(b, S, E) = SubSeq(doc, s, e)
    BY <1>3, <1>5, JoinedBytes, SMTT(30)
  <1>7. StringAt(b, S, (c - s) + S, (v - s) + S, E)
    <2>1. e <= s + (e - s) /\ (e - s) + S = E
      BY <1>1, <1>6
    <2>2. StringAt(b, S, (c - s) + S, (v - s) + S, (e - s) + S)
      BY <1>2, <1>6, <2>1, MoveString
    <2>3. QED
      BY <2>1, <2>2
  <1>8. \A z \in 1..(S - 1) : \A c0, v0, e0 : ~StringAt(b, z, c0, v0, e0)
    <2> SUFFICES ASSUME NEW z \in 1..(S - 1), NEW c0, NEW v0, NEW e0, StringAt(b, z, c0, v0, e0)
                 PROVE  FALSE
      OBVIOUS
    <2>1. PICK s0 \in 1..Len(doc) : z = At(ends, s0) /\ \E d, w, y : StringAt(doc, s0, d, w, y)
      BY RawString
    <2>2. s0 \in Nat /\ s <= s0
      BY <1>4, <2>1
    <2>3. At(ends, s) + (s0 - s) <= At(ends, s0) /\ At(ends, s) \in Nat /\ At(ends, s0) \in Nat
      BY <1>1, <2>2, PlacesRise
    <2>4. At(ends, s0) < At(ends, s)
      BY <1>5, <1>6, <2>1
    <2>5. QED
      BY <1>1, <2>2, <2>3, <2>4
  <1>9. in_body(b) = {[start |-> S, end |-> E + 1]}
    BY <1>1, <1>7, <1>8, FirstString
  <1>10. QED
    BY <1>5, <1>6, <1>9 DEF FoundThere

LEMMA NumbersAreFound ==
    ASSUME NEW doc, NEW ends, IsCut(doc, ends), NEW b, Framing(b, doc, ends),
           NEW s \in 1..Len(doc), NEW e \in 1..Len(doc), IsNumberMember(SubSeq(doc, s, e)),
           NoKeyAhead(doc, s), Joined(ends, s, e)
    PROVE  FoundThere(find_json_bare_snippet_range(b), b, doc, ends, s, e)
  <1>1. doc \in Seq(Bytes) /\ b \in Seq(Bytes) /\ Len(doc) \in Nat /\ s \in Nat /\ e \in Nat
    BY DEF IsCut, Framing
  <1>2. PICK c, v, w : NumberAt(doc, s, c, v, w, e)
    BY <1>1, NumberMember
  <1>3. s <= e
    <2>1. s + 3 <= c /\ c < v /\ v < w /\ w <= e /\ c \in Nat /\ v \in Nat /\ w \in Nat
      BY <1>1, <1>2, NumberPlaces
    <2>2. QED
      BY <1>1, <2>1
  <1>4. \A z \in 1..(s - 1) : ~KeyAt(doc, z)
    <2> SUFFICES ASSUME NEW z \in 1..(s - 1), KeyAt(doc, z) PROVE FALSE
      OBVIOUS
    <2>1. z \in find_first(doc, Key) /\ Len(Key) = 3
      BY <1>1, KeyFound DEF Key
    <2>2. SubSeq(doc, z, z + Len(Key) - 1) = Key
      BY <2>1 DEF find_first, Occurs
    <2>3. z + Len(Key) - 1 = z + 2
      BY <2>1
    <2>4. QED
      BY <2>2, <2>3 DEF NoKeyAhead
  <1>5. PICK S, E : S = At(ends, s) /\ E = At(ends, e)
    OBVIOUS
  <1>6. /\ Same(doc, s, b, S, e - s) /\ S \in Nat \ {0} /\ E = S + (e - s)
        /\ SubSeq(b, S, E) = SubSeq(doc, s, e)
    BY <1>3, <1>5, JoinedBytes
  <1>7. NumberAt(b, S, (c - s) + S, (v - s) + S, (w - s) + S, E)
    <2>1. e <= s + (e - s) /\ (e - s) + S = E
      BY <1>1, <1>6
    <2>2. NumberAt(b, S, (c - s) + S, (v - s) + S, (w - s) + S, (e - s) + S)
      BY <1>2, <1>6, <2>1, MoveNumber
    <2>3. QED
      BY <2>1, <2>2
  <1>8. \A z \in 1..(S - 1) : ~KeyAt(b, z)
    <2> SUFFICES ASSUME NEW z \in 1..(S - 1), KeyAt(b, z) PROVE FALSE
      OBVIOUS
    <2>1. PICK s0 \in 1..Len(doc) : z = At(ends, s0) /\ KeyAt(doc, s0)
      BY RawKey
    <2>2. s0 \in Nat /\ s <= s0
      BY <1>1, <1>4, <2>1
    <2>3. At(ends, s) + (s0 - s) <= At(ends, s0) /\ At(ends, s) \in Nat /\ At(ends, s0) \in Nat
      BY <1>1, <2>2, PlacesRise
    <2>4. At(ends, s0) < At(ends, s)
      BY <1>5, <1>6, <2>1
    <2>5. QED
      BY <1>1, <2>2, <2>3, <2>4
  <1>9. find_json_bare_snippet_range(b) = {[start |-> S, end |-> E + 1]}
    BY <1>1, <1>7, <1>8, FirstNumber
  <1>10. QED
    BY <1>5, <1>6, <1>9 DEF FoundThere

-----------------------------------------------------------------------------
(* What the server sends.                                                  *)

\* Chunks no longer than the longest.
IsChunked(doc, ends) ==
    /\ IsCut(doc, ends)
    /\ \A k \in 1..Len(doc) : ends \cap k..(k + MaxChunk - 1) # {}

\* Where the chunk with byte k of the document ends, and how much of it is left.
EndOf(ends, k) == Min({c \in ends : c >= k})
Left(doc, ends, k) == IF k > Len(doc) THEN 0 ELSE EndOf(ends, k) - k + 1

LEMMA EndIsNext ==
    ASSUME NEW doc, NEW ends, IsChunked(doc, ends), NEW k \in 1..Len(doc)
    PROVE  /\ EndOf(ends, k) \in ends /\ EndOf(ends, k) \in k..Len(doc)
           /\ Joined(ends, k, EndOf(ends, k))
           /\ Left(doc, ends, k) = EndOf(ends, k) - k + 1 /\ Left(doc, ends, k) \in 1..MaxChunk
  <1> DEFINE T == {c \in ends : c >= k}
             e == EndOf(ends, k)
  <1>1. /\ IsCut(doc, ends) /\ Len(doc) \in Nat /\ k \in Nat /\ MaxChunk \in Nat
        /\ \A c \in ends : c \in 1..Len(doc)
    <2>1. IsCut(doc, ends)
      BY DEF IsChunked
    <2>2. Len(doc) \in Nat /\ \A c \in ends : c \in 1..Len(doc)
      BY <2>1 DEF IsCut
    <2>3. MaxChunk \in Nat
      BY SizeAssumption
    <2>4. QED
      BY <2>1, <2>2, <2>3
  <1>2. PICK c \in ends : c \in k..(k + MaxChunk - 1)
    <2>1. ends \cap k..(k + MaxChunk - 1) # {}
      BY DEF IsChunked
    <2>2. QED
      BY <2>1
  <1>3. c \in T /\ T \subseteq Nat
    <2>1. \A x \in ends : x \in Nat
      BY <1>1
    <2>2. c >= k
      BY <1>1, <1>2
    <2>3. QED
      BY <2>1, <2>2
  <1>4. e \in T /\ \A x \in T : e <= x
    <2>1. e = Min(T)
      BY DEF EndOf
    <2> HIDE DEF T, e
    <2>2. QED
      BY <1>3, <2>1, MinIsLeast
  <1> HIDE DEF e
  <1>5. e \in ends /\ e \in k..Len(doc) /\ e <= c
    BY <1>1, <1>3, <1>4
  <1>6. Joined(ends, k, e)
    BY <1>1, <1>4, <1>5 DEF Joined
  <1>7. Left(doc, ends, k) = e - k + 1
    <2>1. ~(k > Len(doc))
      BY <1>1
    <2>2. QED
      BY <2>1 DEF Left, e
  <1>8. e - k + 1 \in 1..MaxChunk
    BY <1>1, <1>2, <1>5
  <1>9. QED
    BY <1>5, <1>6, <1>7, <1>8 DEF e

\* The body from the size of the chunk that begins with byte k on.
SentFrom(f, doc, ends, k) ==
    LET by == At(ends, k) - 4
        at(j) == At(ends, j) - by
        last == at(Len(doc))
    IN  /\ f \in Seq(Bytes) /\ Len(f) = last + 7
        /\ f[1] = Size[Left(doc, ends, k)] /\ f[2] = "CR" /\ f[3] = "LF"
        /\ \A j \in k..Len(doc) : f[at(j)] = doc[j]
        /\ \A c \in ends : c >= k =>
               /\ f[at(c) + 1] = "CR" /\ f[at(c) + 2] = "LF"
               /\ f[at(c) + 3] = Size[Left(doc, ends, c + 1)]
               /\ f[at(c) + 4] = "CR" /\ f[at(c) + 5] = "LF"
        /\ f[last + 6] = "CR" /\ f[last + 7] = "LF"

LEMMA Appended ==
    ASSUME NEW s \in Seq(Bytes), NEW t \in Seq(Bytes)
    PROVE  /\ s \o t \in Seq(Bytes) /\ Len(s \o t) = Len(s) + Len(t)
           /\ \A i \in 1..Len(s) : (s \o t)[i] = s[i]
           /\ \A i \in 1..Len(t) : (s \o t)[Len(s) + i] = t[i]
  <1>1. /\ s \o t \in Seq(Bytes) /\ Len(s \o t) = Len(s) + Len(t)
        /\ \A i \in 1..(Len(s) + Len(t)) :
               (s \o t)[i] = IF i <= Len(s) THEN s[i] ELSE t[i - Len(s)]
    BY ConcatProperties
  <1>2. Len(s) \in Nat /\ Len(t) \in Nat
    OBVIOUS
  <1>3. ASSUME NEW i \in 1..Len(s)
        PROVE  (s \o t)[i] = s[i]
    <2>1. i \in 1..(Len(s) + Len(t)) /\ i <= Len(s)
      BY <1>2
    <2>2. QED
      BY <1>1, <2>1
  <1>4. ASSUME NEW i \in 1..Len(t)
        PROVE  (s \o t)[Len(s) + i] = t[i]
    <2>1. /\ Len(s) + i \in 1..(Len(s) + Len(t)) /\ ~(Len(s) + i <= Len(s))
          /\ (Len(s) + i) - Len(s) = i
      BY <1>2
    <2>2. QED
      BY <1>1, <2>1
  <1>5. QED
    BY <1>1, <1>3, <1>4

\* A chunk and what follows it.
Chunked(x, t, g) == <<x>> \o CRLF \o t \o CRLF \o g

IsChunk(f, x, t, g) ==
    /\ f \in Seq(Bytes) /\ Len(f) = 5 + Len(t) + Len(g)
    /\ f[1] = x /\ f[2] = "CR" /\ f[3] = "LF"
    /\ \A i \in 1..Len(t) : f[3 + i] = t[i]
    /\ f[4 + Len(t)] = "CR" /\ f[5 + Len(t)] = "LF"
    /\ \A i \in 1..Len(g) : f[5 + Len(t) + i] = g[i]

(* The bytes of a chunk and of what follows it. *)
LEMMA ChunkBytes ==
    ASSUME NEW x \in Bytes, NEW t \in Seq(Bytes), NEW g \in Seq(Bytes)
    PROVE  IsChunk(Chunked(x, t, g), x, t, g)
  <1> DEFINE f == Chunked(x, t, g)
             a == <<x>> \o CRLF
             b == a \o t
             c == b \o CRLF
  <1>1. "CR" \in Bytes /\ "LF" \in Bytes
    BY DEF Bytes
  <1>2. CRLF \in Seq(Bytes) /\ Len(CRLF) = 2 /\ CRLF[1] = "CR" /\ CRLF[2] = "LF"
    BY <1>1 DEF CRLF
  <1>3. <<x>> \in Seq(Bytes) /\ Len(<<x>>) = 1 /\ <<x>>[1] = x
    OBVIOUS
  <1>4. Len(t) \in Nat /\ Len(g) \in Nat
    OBVIOUS
  <1>5. /\ a \in Seq(Bytes) /\ Len(a) = Len(<<x>>) + Len(CRLF)
        /\ \A i \in 1..Len(<<x>>) : a[i] = <<x>>[i]
        /\ \A i \in 1..Len(CRLF) : a[Len(<<x>>) + i] = CRLF[i]
    BY <1>2, <1>3, Appended
  <1> HIDE DEF a
  <1>6. Len(a) = 3 /\ a[1] = x /\ a[2] = "CR" /\ a[3] = "LF"
    <2>1. 1 \in 1..1 /\ 1 \in 1..2 /\ 2 \in 1..2 /\ 1 + 1 = 2 /\ 1 + 2 = 3
      OBVIOUS
    <2>2. QED
      BY <1>2, <1>3, <1>5, <2>1
  <1>7. /\ b \in Seq(Bytes) /\ Len(b) = Len(a) + Len(t)
        /\ \A i \in 1..Len(a) : b[i] = a[i]
        /\ \A i \in 1..Len(t) : b[Len(a) + i] = t[i]
    BY <1>5, Appended
  <1> HIDE DEF b
  <1>8. /\ c \in Seq(Bytes) /\ Len(c) = Len(b) + Len(CRLF)
        /\ \A i \in 1..Len(b) : c[i] = b[i]
        /\ \A i \in 1..Len(CRLF) : c[Len(b) + i] = CRLF[i]
    BY <1>2, <1>7, Appended, ZenonT(60)
  <1>9. /\ f \in Seq(Bytes) /\ Len(f) = Len(c) + Len(g)
        /\ \A i \in 1..Len(c) : f[i] = c[i]
        /\ \A i \in 1..Len(g) : f[Len(c) + i] = g[i]
    <2>1. f = c \o g
      BY DEF Chunked, c, b, a
    <2> HIDE DEF c, f
    <2>2. QED
      BY <1>8, <2>1, Appended, ZenonT(60)
  <1> HIDE DEF c, f
  <1>10. Len(b) = 3 + Len(t) /\ Len(c) = 5 + Len(t) /\ Len(f) = 5 + Len(t) + Len(g)
    BY <1>2, <1>4, <1>6, <1>7, <1>8, <1>9
  <1>11. \A i \in 1..3 : f[i] = a[i]
    <2>1. \A i \in 1..3 : i \in 1..Len(a) /\ i \in 1..Len(b) /\ i \in 1..Len(c)
      BY <1>4, <1>6, <1>10
    <2>2. QED
      BY <1>7, <1>8, <1>9, <2>1
  <1>12. ASSUME NEW i \in 1..Len(t)
         PROVE  f[3 + i] = t[i]
    <2>1. 3 + i \in 1..Len(b) /\ 3 + i \in 1..Len(c) /\ Len(a) + i = 3 + i
      BY <1>4, <1>6, <1>10
    <2>2. f[3 + i] = b[3 + i] /\ b[Len(a) + i] = t[i]
      BY <1>7, <1>8, <1>9, <2>1
    <2>3. QED
      BY <2>1, <2>2
  <1>13. f[4 + Len(t)] = "CR" /\ f[5 + Len(t)] = "LF"
    <2>1. /\ 1 \in 1..Len(CRLF) /\ 2 \in 1..Len(CRLF)
          /\ Len(b) + 1 = 4 + Len(t) /\ Len(b) + 2 = 5 + Len(t)
          /\ 4 + Len(t) \in 1..Len(c) /\ 5 + Len(t) \in 1..Len(c)
      BY <1>2, <1>4, <1>10
    <2>2. c[Len(b) + 1] = "CR" /\ c[Len(b) + 2] = "LF"
      BY <1>2, <1>8, <2>1
    <2>3. f[4 + Len(t)] = c[4 + Len(t)] /\ f[5 + Len(t)] = c[5 + Len(t)]
      BY <1>9, <2>1
    <2>4. QED
      BY <2>1, <2>2, <2>3
  <1>14. \A i \in 1..Len(g) : f[5 + Len(t) + i] = g[i]
    BY <1>9, <1>10
  <1>15. f[1] = x /\ f[2] = "CR" /\ f[3] = "LF"
    BY <1>6, <1>11
  <1>16. QED
    BY <1>9, <1>10, <1>12, <1>13, <1>14, <1>15 DEF IsChunk, f

\* The table Framed fills, and the chunk that begins with byte k in it.
IsFraming(doc, ends, f) ==
    f = [at \in 1..(Len(doc) + 1) |->
            IF at > Len(doc) THEN <<Size[0]>> \o CRLF \o CRLF
            ELSE LET last == Min({k \in ends : k >= at}) IN
                 <<Size[last - at + 1]>> \o CRLF \o SubSeq(doc, at, last)
                     \o CRLF \o f[last + 1]]

ChunkFrom(doc, ends, f, k) ==
    Chunked(Size[Left(doc, ends, k)], SubSeq(doc, k, EndOf(ends, k)),
            f[EndOf(ends, k) + 1])

LEMMA SizeIsByte ==
    /\ MaxChunk \in Nat /\ \A n \in 0..MaxChunk : Size[n] \in Bytes /\ Size[n] \in Sizes
    /\ CRLF \in Seq(Bytes) /\ Len(CRLF) = 2 /\ CRLF[1] = "CR" /\ CRLF[2] = "LF"
  <1>1. "CR" \in Bytes /\ "LF" \in Bytes
    BY DEF Bytes
  <1>2. CRLF \in Seq(Bytes)
    BY <1>1 DEF CRLF
  <1>3. Len(CRLF) = 2 /\ CRLF[1] = "CR" /\ CRLF[2] = "LF"
    BY DEF CRLF
  <1>4. MaxChunk \in Nat /\ \A n \in 0..MaxChunk : Size[n] \in Bytes /\ Size[n] \in Sizes
    BY SizeAssumption DEF Bytes, Sizes
  <1>5. QED
    BY <1>2, <1>3, <1>4

(* The chunk that closes the body. *)
LEMMA LastChunk ==
    LET z == <<Size[0]>> \o CRLF \o CRLF IN
    /\ z \in Seq(Bytes) /\ Len(z) = 5 /\ z[1] = Size[0]
    /\ z[2] = "CR" /\ z[3] = "LF" /\ z[4] = "CR" /\ z[5] = "LF"
  <1> DEFINE a == <<Size[0]>> \o CRLF
             z == a \o CRLF
  <1>1. <<Size[0]>> \in Seq(Bytes) /\ Len(<<Size[0]>>) = 1 /\ <<Size[0]>>[1] = Size[0]
    <2>1. Size[0] \in Bytes
      BY SizeIsByte
    <2>2. QED
      BY <2>1
  <1>2. CRLF \in Seq(Bytes) /\ Len(CRLF) = 2 /\ CRLF[1] = "CR" /\ CRLF[2] = "LF"
    BY SizeIsByte
  <1>3. /\ a \in Seq(Bytes) /\ Len(a) = Len(<<Size[0]>>) + Len(CRLF)
        /\ \A i \in 1..Len(<<Size[0]>>) : a[i] = <<Size[0]>>[i]
        /\ \A i \in 1..Len(CRLF) : a[Len(<<Size[0]>>) + i] = CRLF[i]
    BY <1>1, <1>2, Appended
  <1> HIDE DEF a
  <1>4. 1 \in 1..1 /\ 1 \in 1..2 /\ 2 \in 1..2 /\ 1 + 1 = 2 /\ 1 + 2 = 3
    OBVIOUS
  <1>5. Len(a) = 3 /\ a[1] = Size[0] /\ a[2] = "CR" /\ a[3] = "LF"
    BY <1>1, <1>2, <1>3, <1>4
  <1>6. /\ z \in Seq(Bytes) /\ Len(z) = Len(a) + Len(CRLF)
        /\ \A i \in 1..Len(a) : z[i] = a[i]
        /\ \A i \in 1..Len(CRLF) : z[Len(a) + i] = CRLF[i]
    BY <1>2, <1>3, Appended
  <1> HIDE DEF z
  <1>7. /\ 1 \in 1..3 /\ 2 \in 1..3 /\ 3 \in 1..3 /\ 3 + 1 = 4 /\ 3 + 2 = 5
    OBVIOUS
  <1>8. /\ z \in Seq(Bytes) /\ Len(z) = 5 /\ z[1] = Size[0]
        /\ z[2] = "CR" /\ z[3] = "LF" /\ z[4] = "CR" /\ z[5] = "LF"
    BY <1>2, <1>4, <1>5, <1>6, <1>7
  <1>9. QED
    BY <1>8 DEF z, a

LEMMA FramingExists ==
    ASSUME NEW doc, NEW cuts, IsChunked(doc, cuts \cup {Len(doc)})
    PROVE  LET ends == cuts \cup {Len(doc)} IN
           \E f : /\ Framed(doc, cuts) = f[1]
                  /\ f[Len(doc) + 1] = <<Size[0]>> \o CRLF \o CRLF
                  /\ \A k \in 1..Len(doc) : f[k] = ChunkFrom(doc, ends, f, k)
  <1> DEFINE ends == cuts \cup {Len(doc)}
             N == Len(doc) + 1
             T == Seq(Bytes)
             Last == <<Size[0]>> \o CRLF \o CRLF
             Row(f, at) == IF at > Len(doc) THEN Last ELSE ChunkFrom(doc, ends, f, at)
             step == [at \in 1..N |-> [f \in [1..N -> T] |-> Row(f, at)]]
  <1>1. doc \in Seq(Bytes) /\ Len(doc) \in Nat /\ N \in Nat
    BY DEF IsChunked, IsCut
  <1>2. Last \in T
    BY LastChunk
  <1> HIDE DEF Last
  <1>3. ASSUME NEW at \in 1..Len(doc)
        PROVE  /\ EndOf(ends, at) + 1 \in (at + 1)..N /\ Left(doc, ends, at) \in 1..MaxChunk
               /\ SubSeq(doc, at, EndOf(ends, at)) \in T
    <2>1. EndOf(ends, at) \in at..Len(doc) /\ Left(doc, ends, at) \in 1..MaxChunk
      BY EndIsNext
    <2>2. SubSeq(doc, at, EndOf(ends, at)) \in T
      <3>1. at \in Nat \ {0} /\ EndOf(ends, at) \in Nat /\ EndOf(ends, at) <= Len(doc)
        BY <1>1, <2>1
      <3>2. QED
        BY <1>1, <3>1, Slice
    <2>3. EndOf(ends, at) + 1 \in (at + 1)..N
      <3>1. PICK e \in at..Len(doc) : e = EndOf(ends, at)
        BY <2>1
      <3>2. e + 1 \in (at + 1)..N
        BY <1>1
      <3>3. QED
        BY <3>1, <3>2
    <2>4. QED
      BY <2>1, <2>2, <2>3
  <1>4. ASSUME NEW at \in 1..N, NEW f \in [1..N -> T]
        PROVE  Row(f, at) \in T
    <2>1. CASE at > Len(doc)
      BY <1>2, <2>1
    <2>2. CASE ~(at > Len(doc))
      <3>1. at \in 1..Len(doc)
        BY <1>1, <2>2
      <3>2. EndOf(ends, at) + 1 \in 1..N /\ Left(doc, ends, at) \in 0..MaxChunk
        <4>1. EndOf(ends, at) + 1 \in (at + 1)..N /\ Left(doc, ends, at) \in 1..MaxChunk
          BY <1>3, <3>1
        <4>2. \A x \in (at + 1)..N : x \in 1..N
          OBVIOUS
        <4>3. \A x \in 1..MaxChunk : x \in 0..MaxChunk
          BY SizeIsByte
        <4> HIDE DEF N
        <4>4. QED
          BY <4>1, <4>2, <4>3
      <3>3. f[EndOf(ends, at) + 1] \in T
        BY <3>2
      <3>4. Size[Left(doc, ends, at)] \in Bytes
        BY <3>2, SizeIsByte
      <3>5. ChunkFrom(doc, ends, f, at) \in T
        <4>1. SubSeq(doc, at, EndOf(ends, at)) \in Seq(Bytes)
          BY <1>3, <3>1
        <4>2. IsChunk(ChunkFrom(doc, ends, f, at), Size[Left(doc, ends, at)],
                      SubSeq(doc, at, EndOf(ends, at)), f[EndOf(ends, at) + 1])
          BY <3>3, <3>4, <4>1, ChunkBytes DEF ChunkFrom
        <4>3. QED
          BY <4>2 DEF IsChunk
      <3>6. QED
        BY <2>2, <3>5
    <2>3. QED
      BY <2>1, <2>2
  <1>5. step \in [1..N -> [[1..N -> T] -> T]]
    BY <1>4
  <1>6. ASSUME NEW at \in 1..N, NEW f \in [1..N -> T], NEW g \in [1..N -> T],
               \A j \in (at + 1)..N : f[j] = g[j]
        PROVE  step[at][f] = step[at][g]
    <2>1. CASE at > Len(doc)
      BY <2>1
    <2>2. CASE ~(at > Len(doc))
      <3>1. at \in 1..Len(doc)
        BY <1>1, <2>2
      <3>2. EndOf(ends, at) + 1 \in (at + 1)..N
        BY <1>3, <3>1
      <3>3. f[EndOf(ends, at) + 1] = g[EndOf(ends, at) + 1]
        BY <1>6, <3>2
      <3>4. ChunkFrom(doc, ends, f, at) = ChunkFrom(doc, ends, g, at)
        BY <3>3 DEF ChunkFrom
      <3>5. QED
        BY <2>2, <3>4
    <2>3. QED
      BY <2>1, <2>2
  <1>7. PICK f : SolvesTo(f, N, T, step)
    <2> HIDE DEF step, T, N
    <2> QED
      BY <1>1, <1>2, <1>5, <1>6, BackwardRecursion
  <1>8. f \in [1..N -> T] /\ \A k \in 1..N : f[k] = Row(f, k)
    <2>1. f \in [1..N -> T] /\ \A k \in 1..N : f[k] = step[k][f]
      <3> HIDE DEF step, T, N
      <3> QED
        BY <1>7 DEF SolvesTo
    <2>2. \A k \in 1..N : step[k][f] = Row(f, k)
      <3> HIDE DEF Row
      <3> QED
        BY <2>1
    <2> HIDE DEF Row, step
    <2>3. QED
      BY <2>1, <2>2
  <1>9. \A g : IsFraming(doc, ends, g) <=> g = [at \in 1..N |-> Row(g, at)]
    <2>1. ASSUME NEW g, NEW at \in 1..N
          PROVE  (IF at > Len(doc) THEN <<Size[0]>> \o CRLF \o CRLF
                  ELSE LET last == Min({k \in ends : k >= at}) IN
                       <<Size[last - at + 1]>> \o CRLF \o SubSeq(doc, at, last)
                           \o CRLF \o g[last + 1]) = Row(g, at)
      <3>1. CASE at > Len(doc)
        BY <3>1 DEF Last
      <3>2. CASE ~(at > Len(doc))
        BY <3>2 DEF ChunkFrom, Chunked, Left, EndOf
      <3>3. QED
        BY <3>1, <3>2
    <2> HIDE DEF Row
    <2>2. QED
      BY <2>1 DEF IsFraming
  <1> DEFINE g == CHOOSE h : IsFraming(doc, ends, h)
  <1>10. IsFraming(doc, ends, f)
    <2>1. f = [at \in 1..N |-> f[at]]
      BY <1>8
    <2> HIDE DEF Row, N
    <2>2. f = [at \in 1..N |-> Row(f, at)]
      BY <1>8, <2>1
    <2>3. QED
      BY <1>9, <2>2
  <1>11. Framed(doc, cuts) = g[1]
    BY DEF Framed, IsFraming
  <1>12. g = [at \in 1..N |-> Row(g, at)]
    <2>1. IsFraming(doc, ends, g)
      BY <1>10
    <2> HIDE DEF Row, g
    <2>2. QED
      BY <1>9, <2>1
  <1> HIDE DEF g
  <1>13. \A k \in 1..N : g[k] = Row(g, k)
    <2> HIDE DEF Row
    <2> QED
      BY <1>12
  <1>14. g[N] = Last /\ \A k \in 1..Len(doc) : g[k] = ChunkFrom(doc, ends, g, k)
    <2>1. N \in 1..N /\ N > Len(doc) /\ \A k \in 1..Len(doc) : k \in 1..N /\ ~(k > Len(doc))
      BY <1>1
    <2>2. QED
      BY <1>13, <2>1
  <1> HIDE DEF ends
  <1>15. QED
    BY <1>11, <1>14 DEF Last, ends

(* One chunk more. *)
LEMMA SentChunk ==
    ASSUME NEW doc, NEW ends, IsChunked(doc, ends), NEW k \in 1..Len(doc),
           NEW g, SentFrom(g, doc, ends, EndOf(ends, k) + 1)
    PROVE  SentFrom(Chunked(Size[Left(doc, ends, k)], SubSeq(doc, k, EndOf(ends, k)), g),
                    doc, ends, k)
  <1> DEFINE x == Size[Left(doc, ends, k)]
             t(e) == SubSeq(doc, k, e)
             F(e) == Chunked(x, t(e), g)
             N == Len(doc)
  <1>1. IsCut(doc, ends) /\ N \in Nat /\ N \in ends /\ k \in Nat /\ k >= 1 /\ k <= N
    BY DEF IsChunked, IsCut
  <1>2. PICK e \in k..N : e = EndOf(ends, k) /\ e \in ends /\ Joined(ends, k, e)
    BY EndIsNext
  <1>3. e \in Nat /\ k <= e /\ e <= N /\ N + 1 \in Nat
    BY <1>1
  <1>4. PICK K \in Nat : K = At(ends, k)
    BY <1>1, PlacesRise, k <= k
  <1>5. PICK L \in Nat : L = At(ends, N)
    BY <1>1, PlacesRise, N <= N
  <1>6. At(ends, e) = K + (e - k) /\ At(ends, e + 1) = K + (e - k) + 6
    <2>1. At(ends, e) = At(ends, k) + (e - k)
      <3>1. \A c \in ends : ~(k <= c /\ c < e)
        BY <1>2 DEF Joined
      <3>2. QED
        BY <1>1, <1>3, <3>1, PlacesStay
    <2>2. At(ends, e + 1) = At(ends, e) + 6
      BY <1>1, <1>2, PlacesJump
    <2>3. QED
      BY <1>4, <2>1, <2>2
  <1>7. K + (e - k) + 6 <= L + 6
    <2>1. At(ends, N + 1) = L + 6
      BY <1>1, <1>5, PlacesJump
    <2>2. At(ends, e + 1) + ((N + 1) - (e + 1)) <= At(ends, N + 1)
      BY <1>1, <1>3, PlacesRise, e + 1 \in Nat, e + 1 <= N + 1
    <2>3. (K + (e - k) + 6) + ((N + 1) - (e + 1)) <= L + 6
      BY <1>6, <2>1, <2>2
    <2>4. QED
      BY <1>1, <1>3, <2>3
  <1> DEFINE B == K + (e - k) + 2
             D == e - k + 6
  <1>8. /\ g \in Seq(Bytes) /\ Len(g) = L - B + 7
        /\ g[1] = Size[Left(doc, ends, e + 1)] /\ g[2] = "CR" /\ g[3] = "LF"
        /\ \A j \in (e + 1)..N : g[At(ends, j) - B] = doc[j]
        /\ \A c \in ends : c >= e + 1 =>
               /\ g[At(ends, c) - B + 1] = "CR" /\ g[At(ends, c) - B + 2] = "LF"
               /\ g[At(ends, c) - B + 3] = Size[Left(doc, ends, c + 1)]
               /\ g[At(ends, c) - B + 4] = "CR" /\ g[At(ends, c) - B + 5] = "LF"
        /\ g[L - B + 6] = "CR" /\ g[L - B + 7] = "LF"
    <2>1. At(ends, e + 1) - 4 = B
      BY <1>3, <1>6
    <2> HIDE DEF B
    <2>2. SentFrom(g, doc, ends, e + 1)
      BY <1>2
    <2>3. QED
      BY <1>5, <2>1, <2>2, SMTT(30) DEF SentFrom
  <1>9. t(e) \in Seq(Bytes) /\ Len(t(e)) = e - k + 1 /\ \A j \in k..e : t(e)[j - k + 1] = doc[j]
    <2>1. doc \in Seq(Bytes)
      BY <1>1 DEF IsCut
    <2>2. /\ t(e) \in Seq(Bytes) /\ Len(t(e)) = IF k <= e THEN e - k + 1 ELSE 0
          /\ \A i \in 1..(e - k + 1) : t(e)[i] = doc[k + i - 1]
      BY <1>1, <1>3, <2>1, Slice, SMTT(30)
    <2> HIDE DEF t
    <2>3. \A j \in k..e : j - k + 1 \in 1..(e - k + 1) /\ k + (j - k + 1) - 1 = j
      BY <1>1, <1>3
    <2>4. \A j \in k..e : t(e)[j - k + 1] = doc[j]
      BY <2>2, <2>3
    <2>5. QED
      BY <1>3, <2>2, <2>4
  <1>10. /\ F(e) \in Seq(Bytes) /\ Len(F(e)) = 5 + Len(t(e)) + Len(g)
         /\ F(e)[1] = x /\ F(e)[2] = "CR" /\ F(e)[3] = "LF"
         /\ \A i \in 1..Len(t(e)) : F(e)[3 + i] = t(e)[i]
         /\ F(e)[4 + Len(t(e))] = "CR" /\ F(e)[5 + Len(t(e))] = "LF"
         /\ \A i \in 1..Len(g) : F(e)[5 + Len(t(e)) + i] = g[i]
    <2>1. x \in Bytes
      <3>1. Left(doc, ends, k) \in 1..MaxChunk
        BY EndIsNext
      <3>2. Left(doc, ends, k) \in 0..MaxChunk
        BY <3>1, SizeIsByte
      <3>3. QED
        BY <3>2, SizeIsByte
    <2>2. t(e) \in Seq(Bytes) /\ g \in Seq(Bytes)
      BY <1>8, <1>9
    <2> HIDE DEF x, t
    <2>3. IsChunk(F(e), x, t(e), g)
      BY <2>1, <2>2, ChunkBytes
    <2> HIDE DEF F
    <2>4. QED
      BY <2>3 DEF IsChunk
  <1> DEFINE f == F(e)
             T == t(e)
  <1> HIDE DEF T
  <1>11. /\ f \in Seq(Bytes) /\ Len(f) = D + Len(g)
         /\ f[1] = x /\ f[2] = "CR" /\ f[3] = "LF"
         /\ f[D - 1] = "CR" /\ f[D] = "LF"
         /\ \A i \in 1..Len(g) : f[D + i] = g[i]
         /\ \A i \in 1..(e - k + 1) : f[3 + i] = T[i]
    <2>1. 5 + Len(T) = D /\ 4 + Len(T) = D - 1 /\ Len(T) = e - k + 1
      BY <1>3, <1>9 DEF T
    <2> HIDE DEF D, x
    <2>2. QED
      BY <1>10, <2>1 DEF T
  <1> HIDE DEF f, F, t
  <1>12. ASSUME NEW i \in Nat, i >= B - (K - 4) - D + 1, i + B <= L + 7
         PROVE  f[i + B - (K - 4)] = g[i]
    <2>1. i \in 1..Len(g) /\ D + i = i + B - (K - 4)
      BY <1>3, <1>7, <1>8, <1>12
    <2> HIDE DEF B, D
    <2>2. QED
      BY <1>11, <2>1
  <1> B \in Int
    BY <1>3
  <1>13. ASSUME NEW p \in Nat, p >= B + 1, p <= L + 7
         PROVE  f[p - (K - 4)] = g[p - B]
    <2>1. p - B \in Nat /\ (p - B) + B - (K - 4) = p - (K - 4) /\ p - B >= B - (K - 4) - D + 1
          /\ (p - B) + B <= L + 7
      BY <1>3, <1>13
    <2> HIDE DEF B, D
    <2>2. QED
      BY <1>12, <2>1
  <1>14. ASSUME NEW j \in k..N
         PROVE  f[At(ends, j) - (K - 4)] = doc[j]
    <2>1. CASE j <= e
      <3>1. At(ends, j) = K + (j - k)
        <4>1. \A c \in ends : ~(k <= c /\ c < j)
          <5>1. \A c \in ends : c \in Nat
            BY <1>1 DEF IsCut
          <5>2. QED
            BY <1>2, <1>3, <2>1, <5>1 DEF Joined
        <4>2. j \in Nat /\ k <= j
          BY <1>1
        <4>3. QED
          BY <1>1, <1>4, <4>1, <4>2, PlacesStay, SMTT(30)
      <3>2. K + (j - k) - (K - 4) = 3 + (j - k + 1) /\ j - k + 1 \in 1..(e - k + 1) /\ j \in k..e
        BY <1>1, <1>3, <2>1
      <3>3. f[3 + (j - k + 1)] = T[j - k + 1] /\ T[j - k + 1] = doc[j]
        BY <1>9, <1>11, <3>2 DEF T
      <3>4. At(ends, j) - (K - 4) = 3 + (j - k + 1)
        <4>1. K + (j - k) - (K - 4) = 3 + (j - k + 1)
          BY <3>2
        <4>2. QED
          BY <3>1, <4>1
      <3>5. QED
        BY <3>3, <3>4
    <2>2. CASE j > e
      <3>1. j \in (e + 1)..N /\ j \in Nat
        BY <1>1, <1>3, <2>2
      <3>2. PICK p \in Nat : p = At(ends, j) /\ K + (e - k) + 6 <= p /\ p <= L
        <4>1. At(ends, e + 1) + (j - (e + 1)) <= At(ends, j) /\ At(ends, j) \in Nat
          BY <1>1, <1>3, <3>1, PlacesRise, e + 1 \in Nat, e + 1 <= j
        <4>2. At(ends, j) + (N - j) <= At(ends, N)
          BY <1>1, <3>1, PlacesRise, j <= N
        <4>3. PICK p \in Nat : p = At(ends, j)
          BY <4>1
        <4>4. (K + (e - k) + 6) + (j - (e + 1)) <= p /\ p + (N - j) <= L
          BY <1>5, <1>6, <4>1, <4>2, <4>3
        <4>5. K + (e - k) + 6 <= p /\ p <= L
          BY <1>1, <1>3, <3>1, <4>4
        <4>6. QED
          BY <4>3, <4>5
      <3>3. p >= B + 1 /\ p <= L + 7
        BY <1>3, <3>2
      <3> HIDE DEF B
      <3>4. f[p - (K - 4)] = g[p - B]
        BY <1>13, <3>3
      <3>5. QED
        BY <1>8, <3>1, <3>2, <3>4
    <2>3. QED
      BY <1>1, <1>3, <2>1, <2>2
  <1>15. ASSUME NEW c \in ends, c >= k
         PROVE  /\ f[At(ends, c) - (K - 4) + 1] = "CR" /\ f[At(ends, c) - (K - 4) + 2] = "LF"
                /\ f[At(ends, c) - (K - 4) + 3] = Size[Left(doc, ends, c + 1)]
                /\ f[At(ends, c) - (K - 4) + 4] = "CR" /\ f[At(ends, c) - (K - 4) + 5] = "LF"
    <2>1. c \in Nat /\ c <= N
      BY <1>1 DEF IsCut
    <2>2. CASE c = e
      <3>1. /\ K + (e - k) - (K - 4) + 1 = D - 1 /\ K + (e - k) - (K - 4) + 2 = D
            /\ K + (e - k) - (K - 4) + 3 = D + 1 /\ K + (e - k) - (K - 4) + 4 = D + 2
            /\ K + (e - k) - (K - 4) + 5 = D + 3
        BY <1>3
      <3>2. 1 \in 1..Len(g) /\ 2 \in 1..Len(g) /\ 3 \in 1..Len(g)
        BY <1>3, <1>7, <1>8
      <3> HIDE DEF D, B
      <3>3. f[D + 1] = g[1] /\ f[D + 2] = g[2] /\ f[D + 3] = g[3]
        <4>1. \A i \in 1..Len(g) : f[D + i] = g[i]
          BY <1>11
        <4> HIDE DEF f
        <4>2. QED
          BY <3>2, <4>1
      <3>4. g[1] = Size[Left(doc, ends, e + 1)] /\ g[2] = "CR" /\ g[3] = "LF"
        BY <1>8
      <3>5. /\ f[D - 1] = "CR" /\ f[D] = "LF"
            /\ f[D + 1] = Size[Left(doc, ends, e + 1)] /\ f[D + 2] = "CR" /\ f[D + 3] = "LF"
        BY <1>11, <3>3, <3>4
      <3>6. QED
        BY <1>6, <2>2, <3>1, <3>5
    <2>3. CASE c > e
      <3>1. c >= e + 1
        BY <1>3, <2>1, <2>3
      <3>2. PICK p \in Nat : p = At(ends, c) /\ K + (e - k) + 6 <= p /\ p <= L
        <4>1. At(ends, e + 1) + (c - (e + 1)) <= At(ends, c) /\ At(ends, c) \in Nat
          BY <1>1, <1>3, <2>1, <3>1, PlacesRise, e + 1 \in Nat, e + 1 <= c
        <4>2. At(ends, c) + (N - c) <= At(ends, N)
          BY <1>1, <2>1, PlacesRise, c <= N
        <4>3. PICK p \in Nat : p = At(ends, c)
          BY <4>1
        <4>4. (K + (e - k) + 6) + (c - (e + 1)) <= p /\ p + (N - c) <= L
          BY <1>5, <1>6, <4>1, <4>2, <4>3
        <4>5. K + (e - k) + 6 <= p /\ p <= L
          BY <1>1, <1>3, <2>1, <3>1, <4>4
        <4>6. QED
          BY <4>3, <4>5
      <3>3. ASSUME NEW i \in 1..5
            PROVE  /\ p + i \in Nat /\ p + i >= B + 1 /\ p + i <= L + 7
                   /\ p + i - (K - 4) = p - (K - 4) + i /\ p + i - B = p - B + i
        <4>1. K + (e - k) + 6 <= p /\ p <= L
          BY <3>2
        <4>2. QED
          BY <1>3, <4>1
      <3>4. 1 \in 1..5 /\ 2 \in 1..5 /\ 3 \in 1..5 /\ 4 \in 1..5 /\ 5 \in 1..5
        OBVIOUS
      <3> HIDE DEF B
      <3>5. \A i \in 1..5 : f[p - (K - 4) + i] = g[p - B + i]
        <4> SUFFICES ASSUME NEW i \in 1..5 PROVE f[p - (K - 4) + i] = g[p - B + i]
          OBVIOUS
        <4>1. p + i \in Nat /\ p + i >= B + 1 /\ p + i <= L + 7
          BY <3>3
        <4>2. f[p + i - (K - 4)] = g[p + i - B]
          BY <1>13, <4>1
        <4>3. QED
          BY <3>3, <4>2
      <3>6. /\ g[p - B + 1] = "CR" /\ g[p - B + 2] = "LF"
            /\ g[p - B + 3] = Size[Left(doc, ends, c + 1)]
            /\ g[p - B + 4] = "CR" /\ g[p - B + 5] = "LF"
        BY <1>8, <3>1, <3>2
      <3>7. QED
        BY <3>2, <3>4, <3>5, <3>6
    <2>4. c >= e
      BY <1>2, <1>3, <1>15, <2>1 DEF Joined
    <2>5. QED
      BY <1>3, <2>1, <2>2, <2>3, <2>4
  <1>16. f[L - (K - 4) + 6] = "CR" /\ f[L - (K - 4) + 7] = "LF"
    <2>1. /\ L + 6 \in Nat /\ L + 6 >= B + 1 /\ L + 6 <= L + 7
          /\ L + 7 \in Nat /\ L + 7 >= B + 1 /\ L + 7 <= L + 7
          /\ L + 6 - (K - 4) = L - (K - 4) + 6 /\ L + 7 - (K - 4) = L - (K - 4) + 7
          /\ L + 6 - B = L - B + 6 /\ L + 7 - B = L - B + 7
      BY <1>3, <1>7
    <2> HIDE DEF B
    <2>2. f[L + 6 - (K - 4)] = g[L + 6 - B]
      <3>1. L + 6 \in Nat /\ L + 6 >= B + 1 /\ L + 6 <= L + 7
        BY <2>1
      <3>2. QED
        BY <1>13, <3>1, SMTT(30)
    <2>3. f[L + 6 - (K - 4)] = g[L + 6 - B] /\ f[L + 7 - (K - 4)] = g[L + 7 - B]
      <3>1. f[L + 7 - (K - 4)] = g[L + 7 - B]
        BY <1>13, <2>1
      <3>2. QED
        BY <2>2, <3>1
    <2>4. QED
      BY <1>8, <2>1, <2>3, SMTT(30)
  <1>17. Len(f) = L - (K - 4) + 7
    BY <1>3, <1>8, <1>11
  <1>18. SentFrom(f, doc, ends, k)
    <2>1. f \in Seq(Bytes) /\ f[1] = Size[Left(doc, ends, k)] /\ f[2] = "CR" /\ f[3] = "LF"
      BY <1>11
    <2> HIDE DEF B, D, x
    <2>2. QED
      BY <1>4, <1>5, <1>14, <1>15, <1>16, <1>17, <2>1 DEF SentFrom
  <1>19. QED
    BY <1>2, <1>18 DEF f, F, t

(* Every chunk with what follows it. *)
LEMMA SentEach ==
    ASSUME NEW doc, NEW ends, IsChunked(doc, ends), NEW f,
           f[Len(doc) + 1] = <<Size[0]>> \o CRLF \o CRLF,
           \A k \in 1..Len(doc) : f[k] = ChunkFrom(doc, ends, f, k)
    PROVE  SentFrom(f[1], doc, ends, 1)
  <1> DEFINE N == Len(doc)
             S == {k \in 1..(N + 1) : SentFrom(f[k], doc, ends, k)}
  <1>1. IsCut(doc, ends) /\ N \in Nat /\ N >= 1 /\ N \in ends
    BY DEF IsChunked, IsCut
  <1>2. SentFrom(f[N + 1], doc, ends, N + 1)
    <2>1. PICK L \in Nat : L = At(ends, N)
      BY <1>1, PlacesRise, N <= N
    <2>2. At(ends, N + 1) - 4 = L + 2
      <3>1. At(ends, N + 1) = L + 6
        BY <1>1, <2>1, PlacesJump
      <3>2. L + 6 - 4 = L + 2
        OBVIOUS
      <3>3. QED
        BY <3>1, <3>2
    <2>3. L - (L + 2) + 7 = 5 /\ L - (L + 2) + 6 = 4
      OBVIOUS
    <2> DEFINE z == f[N + 1]
    <2>4. /\ z \in Seq(Bytes) /\ Len(z) = 5 /\ z[1] = Size[0]
          /\ z[2] = "CR" /\ z[3] = "LF" /\ z[4] = "CR" /\ z[5] = "LF"
      BY LastChunk
    <2>5. Left(doc, ends, N + 1) = 0
      BY <1>1 DEF Left
    <2>6. \A j \in (N + 1)..N : FALSE
      BY <1>1
    <2>7. \A c \in ends : ~(c >= N + 1)
      BY <1>1 DEF IsCut
    <2> HIDE DEF z
    <2>8. SentFrom(z, doc, ends, N + 1)
      BY <2>1, <2>2, <2>3, <2>4, <2>5, <2>6, <2>7 DEF SentFrom
    <2>9. QED
      BY <2>8 DEF z
  <1>3. ASSUME NEW k \in 1..(N + 1), (k + 1)..(N + 1) \subseteq S
        PROVE  k \in S
    <2>1. CASE k = N + 1
      BY <1>2, <2>1
    <2>2. CASE k # N + 1
      <3>1. k \in 1..N
        BY <1>1, <2>2
      <3>2. EndOf(ends, k) + 1 \in (k + 1)..(N + 1)
        <4>1. PICK e \in k..N : e = EndOf(ends, k)
          BY <3>1, EndIsNext
        <4>2. e + 1 \in (k + 1)..(N + 1)
          BY <1>1, <3>1
        <4>3. QED
          BY <4>1, <4>2
      <3>3. SentFrom(f[EndOf(ends, k) + 1], doc, ends, EndOf(ends, k) + 1)
        BY <1>3, <3>2
      <3>4. SentFrom(ChunkFrom(doc, ends, f, k), doc, ends, k)
        BY <3>1, <3>3, SentChunk DEF ChunkFrom
      <3>5. QED
        BY <3>1, <3>4
    <2>3. QED
      BY <2>1, <2>2
  <1>4. 1..(N + 1) \subseteq S
    <2>1. 1 \in Int /\ N + 1 \in Int
      BY <1>1
    <2> HIDE DEF S
    <2>2. QED
      BY <1>3, <2>1, Downwards
  <1>5. QED
    BY <1>1, <1>4, SMTT(30)

\* f is the framed body.
IsSent(f, doc, ends) ==
    LET last == At(ends, Len(doc)) IN
    /\ f \in Seq(Bytes) /\ Len(f) = last + 7
    /\ f[1] = Size[Left(doc, ends, 1)] /\ f[2] = "CR" /\ f[3] = "LF"
    /\ \A j \in 1..Len(doc) : f[At(ends, j)] = doc[j]
    /\ \A c \in ends :
           /\ f[At(ends, c) + 1] = "CR" /\ f[At(ends, c) + 2] = "LF"
           /\ f[At(ends, c) + 3] = Size[Left(doc, ends, c + 1)]
           /\ f[At(ends, c) + 4] = "CR" /\ f[At(ends, c) + 5] = "LF"
    /\ f[last + 6] = "CR" /\ f[last + 7] = "LF"

LEMMA FramedIsSent ==
    ASSUME NEW doc, NEW cuts, IsChunked(doc, cuts \cup {Len(doc)})
    PROVE  IsSent(Framed(doc, cuts), doc, cuts \cup {Len(doc)})
  <1> DEFINE ends == cuts \cup {Len(doc)}
             N == Len(doc)
  <1>1. PICK g : /\ Framed(doc, cuts) = g[1]
                 /\ g[Len(doc) + 1] = <<Size[0]>> \o CRLF \o CRLF
                 /\ \A k \in 1..Len(doc) : g[k] = ChunkFrom(doc, ends, g, k)
    BY FramingExists
  <1> DEFINE f == Framed(doc, cuts)
  <1>2. IsChunked(doc, ends)
    OBVIOUS
  <1> HIDE DEF ends
  <1>3. SentFrom(f, doc, ends, 1)
    BY <1>1, <1>2, SentEach
  <1> HIDE DEF f
  <1>4. IsCut(doc, ends) /\ N \in Nat /\ N >= 1 /\ \A c \in ends : c \in 1..N
    <2>1. IsCut(doc, ends)
      BY <1>2 DEF IsChunked
    <2>2. N \in Nat /\ N >= 1
      BY <2>1 DEF IsCut
    <2>3. QED
      BY <2>1, <2>2 DEF IsCut
  <1>5. At(ends, 1) - 4 = 0
    BY <1>4, FirstPlace
  <1>6. \A j \in 1..N : At(ends, j) \in Nat /\ At(ends, j) - 0 = At(ends, j)
    BY <1>4, PlacesRise, \A j \in 1..N : j \in Nat /\ j <= j
  <1>7. N \in 1..N /\ \A c \in ends : c >= 1
    BY <1>4
  <1>8. IsSent(f, doc, ends)
    BY <1>3, <1>4, <1>5, <1>6, <1>7, ZenonT(60) DEF SentFrom, IsSent
  <1>9. QED
    BY <1>8 DEF f, ends

(* So much of the framed body as holds the last chunk's size. *)
LEMMA SentIsFraming ==
    ASSUME NEW doc, NEW ends, IsChunked(doc, ends), NEW f, IsSent(f, doc, ends),
           NEW m \in Nat, m <= Len(f), m >= At(ends, Len(doc)) + 5
    PROVE  Framing(SubSeq(f, 1, m), doc, ends)
  <1> DEFINE b == SubSeq(f, 1, m)
             N == Len(doc)
  <1>1. IsCut(doc, ends) /\ N \in Nat /\ N >= 1 /\ \A c \in ends : c \in 1..N
    BY SMTT(30) DEF IsChunked, IsCut
  <1>2. PICK L \in Nat : L = At(ends, N)
    BY <1>1, PlacesRise, N <= N
  <1>3. /\ f \in Seq(Bytes) /\ Len(f) = L + 7 /\ f[1] = Size[Left(doc, ends, 1)]
        /\ f[2] = "CR" /\ f[3] = "LF" /\ f[L + 6] = "CR" /\ f[L + 7] = "LF"
    BY <1>2 DEF IsSent
  <1>4. m >= L + 5 /\ m <= L + 7 /\ L >= 3
    <2>1. L >= N + 3
      BY <1>1, <1>2, PlacesRise, N <= N
    <2>2. m >= L + 5 /\ m <= L + 7
      BY <1>2, <1>3
    <2>3. QED
      BY <1>1, <2>1, <2>2
  <1>5. b \in Seq(Bytes) /\ Len(b) = m /\ \A p \in 1..m : b[p] = f[p]
    <2>1. 1 \in Nat \ {0} /\ m \in Nat /\ m <= Len(f) /\ 1 <= m
      BY <1>4
    <2>2. /\ b \in Seq(Bytes) /\ Len(b) = IF 1 <= m THEN m - 1 + 1 ELSE 0
          /\ \A p \in 1..(m - 1 + 1) : b[p] = f[1 + p - 1]
      BY <1>3, <2>1, Slice
    <2> HIDE DEF b
    <2>3. m - 1 + 1 = m /\ \A p \in 1..m : 1 + p - 1 = p
      OBVIOUS
    <2>4. QED
      BY <2>1, <2>2, <2>3
  <1> HIDE DEF b
  <1>6. \A j \in 1..N : At(ends, j) \in Nat /\ At(ends, j) >= 4 /\ At(ends, j) <= L
    <2> SUFFICES ASSUME NEW j \in 1..N
                 PROVE  At(ends, j) \in Nat /\ At(ends, j) >= 4 /\ At(ends, j) <= L
      OBVIOUS
    <2>1. At(ends, j) \in Nat /\ At(ends, j) >= j + 3 /\ At(ends, j) + (N - j) <= L
      BY <1>1, <1>2, PlacesRise, j \in Nat, j <= N
    <2>2. PICK p \in Nat : p = At(ends, j)
      BY <2>1
    <2>3. p >= j + 3 /\ p + (N - j) <= L
      BY <2>1, <2>2
    <2>4. p >= 4 /\ p <= L
      BY <1>1, <2>3
    <2>5. QED
      BY <2>2, <2>4
  <1>7. \A k \in 1..(N + 1) : Size[Left(doc, ends, k)] \in Sizes
    <2> SUFFICES ASSUME NEW k \in 1..(N + 1) PROVE Size[Left(doc, ends, k)] \in Sizes
      OBVIOUS
    <2>1. Left(doc, ends, k) \in 0..MaxChunk
      <3>1. MaxChunk \in Nat
        BY SizeIsByte
      <3>2. CASE k > N
        BY <3>1, <3>2 DEF Left
      <3>3. CASE ~(k > N)
        <4>1. k \in 1..N
          BY <1>1, <3>3
        <4>2. Left(doc, ends, k) \in 1..MaxChunk
          BY <4>1, EndIsNext
        <4>3. QED
          BY <3>1, <4>2
      <3>4. QED
        BY <3>2, <3>3
    <2>2. QED
      BY <2>1, SizeIsByte
  <1>8. b[1] \in Sizes /\ b[2] = "CR" /\ b[3] = "LF"
    <2>1. 1 \in 1..m /\ 2 \in 1..m /\ 3 \in 1..m /\ 1 \in 1..(N + 1)
      BY <1>1, <1>4
    <2>2. QED
      BY <1>3, <1>5, <1>7, <2>1
  <1>9. ASSUME NEW j \in 1..N
        PROVE  b[At(ends, j)] = doc[j]
    <2>1. At(ends, j) \in 1..m
      BY <1>4, <1>6
    <2>2. f[At(ends, j)] = doc[j]
      BY DEF IsSent
    <2>3. QED
      BY <1>5, <2>1, <2>2
  <1>10. ASSUME NEW c \in ends
         PROVE  /\ b[At(ends, c) + 1] = "CR" /\ b[At(ends, c) + 2] = "LF"
                /\ b[At(ends, c) + 3] \in Sizes
                /\ b[At(ends, c) + 4] = "CR" /\ b[At(ends, c) + 5] = "LF"
    <2>1. PICK p \in Nat : p = At(ends, c) /\ p >= 4 /\ p <= L
      BY <1>1, <1>6
    <2>2. p + 1 \in 1..m /\ p + 2 \in 1..m /\ p + 3 \in 1..m /\ p + 4 \in 1..m /\ p + 5 \in 1..m
      BY <1>4, <2>1, SMTT(30)
    <2>3. /\ f[p + 1] = "CR" /\ f[p + 2] = "LF"
          /\ f[p + 3] = Size[Left(doc, ends, c + 1)]
          /\ f[p + 4] = "CR" /\ f[p + 5] = "LF"
      BY <2>1 DEF IsSent
    <2>4. c + 1 \in 1..(N + 1)
      BY <1>1
    <2>5. QED
      BY <1>5, <1>7, <2>1, <2>2, <2>3, <2>4
  <1>11. \A p \in (L + 6)..m : b[p] \in Whitespace
    <2>1. \A p \in (L + 6)..m : p \in 1..m /\ (p = L + 6 \/ p = L + 7)
      BY <1>4
    <2>2. "CR" \in Whitespace /\ "LF" \in Whitespace
      BY DEF Whitespace
    <2>3. QED
      BY <1>3, <1>5, <2>1, <2>2
  <1>12. Framing(b, doc, ends)
    BY <1>2, <1>4, <1>5, <1>8, <1>9, <1>10, <1>11 DEF Framing
  <1>13. QED
    BY <1>12 DEF b

-----------------------------------------------------------------------------
(* What the decoder makes of it.                                           *)

(* A line ends where its two bytes are. *)
LEMMA LineEnds ==
    ASSUME NEW s \in Seq(Bytes), NEW p \in Nat \ {0}, p + 1 <= Len(s),
           s[p] = "CR", s[p + 1] = "LF"
    PROVE  SubSeq(s, p, p + 1) = CRLF
  <1> DEFINE t == SubSeq(s, p, p + 1)
  <1>1. t \in Seq(Bytes) /\ Len(t) = 2 /\ t[1] = "CR" /\ t[2] = "LF"
    <2>1. p + 1 \in Nat /\ p <= p + 1 /\ p + 1 - p + 1 = 2 /\ p + 1 - 1 = p /\ p + 2 - 1 = p + 1
      OBVIOUS
    <2>2. /\ t \in Seq(Bytes) /\ Len(t) = IF p <= p + 1 THEN p + 1 - p + 1 ELSE 0
          /\ \A i \in 1..(p + 1 - p + 1) : t[i] = s[p + i - 1]
      BY <2>1, Slice
    <2>3. 1 \in 1..2 /\ 2 \in 1..2
      OBVIOUS
    <2> HIDE DEF t
    <2>4. QED
      BY <2>1, <2>2, <2>3
  <1> HIDE DEF t
  <1>2. CRLF \in Seq(Bytes) /\ Len(CRLF) = 2 /\ CRLF[1] = "CR" /\ CRLF[2] = "LF"
    BY SizeIsByte
  <1>3. \A i \in 1..2 : i = 1 \/ i = 2
    OBVIOUS
  <1>4. \A i \in 1..Len(t) : t[i] = CRLF[i]
    BY <1>1, <1>2, <1>3
  <1>5. t = CRLF
    BY <1>1, <1>2, <1>4, SeqEqual
  <1>6. QED
    BY <1>5 DEF t

(* A size reads as itself. *)
LEMMA SizeRead ==
    ASSUME NEW raw \in Seq(Bytes), NEW at \in Nat \ {0}, NEW n \in 0..MaxChunk,
           raw[at] = Size[n], at + 2 <= Len(raw), raw[at + 1] = "CR", raw[at + 2] = "LF"
    PROVE  ChunkSize(raw, at) = {n}
  <1>1. SubSeq(raw, at + 1, at + 2) = CRLF
    <2>1. at + 1 \in Nat \ {0} /\ (at + 1) + 1 = at + 2
      OBVIOUS
    <2>2. SubSeq(raw, at + 1, (at + 1) + 1) = CRLF
      BY <2>1, LineEnds
    <2>3. QED
      BY <2>1, <2>2
  <1>2. {k \in 0..MaxChunk : Size[k] = Size[n]} = {n}
    <2>1. \A j, k \in 0..MaxChunk : Size[j] = Size[k] => j = k
      BY SizeAssumption
    <2>2. QED
      BY <2>1
  <1>3. ChunkSize(raw, at) = {k \in 0..MaxChunk : Size[k] = raw[at]}
    BY <1>1 DEF ChunkSize
  <1>4. QED
    BY <1>2, <1>3

Bad == [ok |-> FALSE, out |-> <<>>]

\* A row of the table decode_chunked_body fills.
Decode(raw, d, at) ==
    IF ChunkSize(raw, at) = {} THEN Bad
    ELSE IF ChunkSize(raw, at) = {0} THEN [ok |-> TRUE, out |-> <<>>]
    ELSE LET data == at + 3
             end == data + Min(ChunkSize(raw, at)) IN
         IF end + 1 > Len(raw) \/ SubSeq(raw, end, end + 1) # CRLF THEN Bad
         ELSE [ok |-> d[end + 2].ok,
               out |-> SubSeq(raw, data, end - 1) \o d[end + 2].out]

IsDecoding(raw, d) == d = [at \in 1..(Len(raw) + 1) |-> Decode(raw, d, at)]

Texts == [ok : BOOLEAN, out : Seq(Bytes)]

LEMMA DecodingExists ==
    ASSUME NEW raw \in Seq(Bytes)
    PROVE  \E d : /\ decode_chunked_body(raw) = d[1]
                  /\ \A at \in 1..(Len(raw) + 1) : d[at] = Decode(raw, d, at)
  <1> DEFINE N == Len(raw) + 1
             step == [at \in 1..N |-> [d \in [1..N -> Texts] |-> Decode(raw, d, at)]]
             End(at) == at + 3 + Min(ChunkSize(raw, at))
  <1>1. Len(raw) \in Nat /\ N \in Nat /\ MaxChunk \in Nat
    BY SizeIsByte
  <1>2. Bad \in Texts /\ [ok |-> TRUE, out |-> <<>>] \in Texts
    BY DEF Bad, Texts
  <1>3. ASSUME NEW at \in 1..N, ChunkSize(raw, at) # {}
        PROVE  End(at) \in Nat /\ End(at) >= at + 3
    <2>1. ChunkSize(raw, at) \subseteq Nat
      BY <1>1 DEF ChunkSize
    <2>2. Min(ChunkSize(raw, at)) \in Nat
      BY <1>3, <2>1, MinIsLeast
    <2>3. QED
      BY <1>1, <2>2
  <1>4. ASSUME NEW at \in 1..N, NEW d \in [1..N -> Texts]
        PROVE  Decode(raw, d, at) \in Texts
    <2>1. CASE ChunkSize(raw, at) = {} \/ ChunkSize(raw, at) = {0}
      BY <1>2, <2>1 DEF Decode
    <2>2. CASE ~(ChunkSize(raw, at) = {} \/ ChunkSize(raw, at) = {0})
      <3>1. PICK e \in Nat : e = End(at) /\ e >= at + 3
        BY <1>3, <2>2
      <3>2. CASE e + 1 > Len(raw) \/ SubSeq(raw, e, e + 1) # CRLF
        BY <1>2, <2>2, <3>1, <3>2 DEF Decode
      <3>3. CASE ~(e + 1 > Len(raw) \/ SubSeq(raw, e, e + 1) # CRLF)
        <4>1. e + 2 \in 1..N /\ at + 3 \in Nat \ {0} /\ e - 1 \in Nat /\ e - 1 <= Len(raw)
          BY <1>1, <3>1, <3>3, SMTT(30)
        <4>2. d[e + 2] \in Texts
          BY <4>1
        <4>3. SubSeq(raw, at + 3, e - 1) \in Seq(Bytes)
          BY <4>1, Slice
        <4>4. [ok |-> d[e + 2].ok, out |-> SubSeq(raw, at + 3, e - 1) \o d[e + 2].out] \in Texts
          BY <4>2, <4>3, ConcatProperties DEF Texts
        <4>5. Decode(raw, d, at)
                  = [ok |-> d[e + 2].ok, out |-> SubSeq(raw, at + 3, e - 1) \o d[e + 2].out]
          BY <2>2, <3>1, <3>3 DEF Decode
        <4>6. QED
          BY <4>4, <4>5
      <3>4. QED
        BY <3>2, <3>3
    <2>3. QED
      BY <2>1, <2>2
  <1>5. step \in [1..N -> [[1..N -> Texts] -> Texts]]
    BY <1>4
  <1>6. ASSUME NEW at \in 1..N, NEW f \in [1..N -> Texts], NEW g \in [1..N -> Texts],
               \A j \in (at + 1)..N : f[j] = g[j]
        PROVE  step[at][f] = step[at][g]
    <2>1. CASE ChunkSize(raw, at) = {} \/ ChunkSize(raw, at) = {0}
      BY <2>1 DEF Decode
    <2>2. CASE ~(ChunkSize(raw, at) = {} \/ ChunkSize(raw, at) = {0})
      <3>1. PICK e \in Nat : e = End(at) /\ e >= at + 3
        BY <1>3, <2>2
      <3>2. CASE e + 1 > Len(raw) \/ SubSeq(raw, e, e + 1) # CRLF
        BY <2>2, <3>1, <3>2 DEF Decode
      <3>3. CASE ~(e + 1 > Len(raw) \/ SubSeq(raw, e, e + 1) # CRLF)
        <4>1. e + 2 \in (at + 1)..N
          BY <1>1, <3>1, <3>3
        <4>2. f[e + 2] = g[e + 2]
          BY <1>6, <4>1
        <4>3. Decode(raw, f, at) = Decode(raw, g, at)
          BY <2>2, <3>1, <4>2 DEF Decode
        <4>4. QED
          BY <4>3
      <3>4. QED
        BY <3>2, <3>3
    <2>3. QED
      BY <2>1, <2>2
  <1>7. PICK f : SolvesTo(f, N, Texts, step)
    <2> HIDE DEF step, N
    <2> QED
      BY <1>1, <1>2, <1>5, <1>6, BackwardRecursion
  <1>8. f \in [1..N -> Texts] /\ \A k \in 1..N : f[k] = Decode(raw, f, k)
    <2>1. f \in [1..N -> Texts] /\ \A k \in 1..N : f[k] = step[k][f]
      <3> HIDE DEF step, N
      <3> QED
        BY <1>7 DEF SolvesTo
    <2>2. \A k \in 1..N : step[k][f] = Decode(raw, f, k)
      BY <2>1
    <2> HIDE DEF step
    <2>3. QED
      BY <2>1, <2>2
  <1>9. IsDecoding(raw, f)
    <2>1. f = [at \in 1..N |-> f[at]]
      BY <1>8
    <2> HIDE DEF N
    <2>2. f = [at \in 1..N |-> Decode(raw, f, at)]
      BY <1>8, <2>1
    <2>3. QED
      BY <2>2 DEF IsDecoding, N
  <1> DEFINE g == CHOOSE d : IsDecoding(raw, d)
  <1>10. IsDecoding(raw, g)
    BY <1>9
  <1>11. decode_chunked_body(raw) = g[1]
    BY DEF decode_chunked_body, IsDecoding, Decode, Bad
  <1> HIDE DEF g
  <1>12. \A at \in 1..(Len(raw) + 1) : g[at] = Decode(raw, g, at)
    BY <1>10 DEF IsDecoding
  <1>13. QED
    BY <1>11, <1>12

\* Where the size of the chunk that begins with byte k is.
Sized(ends, k) == At(ends, k) - 3

(* The decoder at the size of a chunk, whose bytes and line end are there. *)
LEMMA DecodeChunk ==
    ASSUME NEW raw \in Seq(Bytes), NEW d, NEW at \in Nat \ {0}, NEW n \in 1..MaxChunk,
           raw[at] = Size[n], at + 4 + n <= Len(raw), raw[at + 1] = "CR", raw[at + 2] = "LF",
           raw[at + 3 + n] = "CR", raw[at + 4 + n] = "LF"
    PROVE  Decode(raw, d, at) = [ok |-> d[at + 5 + n].ok,
                                 out |-> SubSeq(raw, at + 3, at + 2 + n) \o d[at + 5 + n].out]
  <1>1. MaxChunk \in Nat /\ n \in Nat /\ n # 0 /\ n \in 0..MaxChunk /\ at + 2 <= Len(raw)
    BY SizeIsByte
  <1>2. ChunkSize(raw, at) = {n}
    BY <1>1, SizeRead
  <1>3. Min(ChunkSize(raw, at)) = n
    <2>1. {n} \subseteq Nat /\ n \in {n} /\ \A x \in {n} : n <= x
      BY <1>1
    <2>2. Min({n}) = n
      BY <2>1, MinIs
    <2>3. QED
      BY <1>2, <2>2
  <1>4. PICK e \in Nat : e = at + 3 + n
    BY <1>1
  <1>5. /\ e # 0 /\ e + 1 = at + 4 + n /\ e + 2 = at + 5 + n /\ e - 1 = at + 2 + n
        /\ ~(e + 1 > Len(raw))
    BY <1>1, <1>4
  <1>6. SubSeq(raw, e, e + 1) = CRLF
    BY <1>4, <1>5, LineEnds
  <1>7. ChunkSize(raw, at) # {} /\ ChunkSize(raw, at) # {0}
    BY <1>1, <1>2
  <1>8. at + 3 + Min(ChunkSize(raw, at)) = e
    BY <1>3, <1>4
  <1>9. Decode(raw, d, at) = [ok |-> d[e + 2].ok,
                              out |-> SubSeq(raw, at + 3, e - 1) \o d[e + 2].out]
    BY <1>5, <1>6, <1>7, <1>8 DEF Decode
  <1>10. QED
    BY <1>5, <1>9

(* A chunk that does not end is an error. *)
LEMMA DecodeCut ==
    ASSUME NEW raw \in Seq(Bytes), NEW d, NEW at \in Nat \ {0}, NEW n \in 1..MaxChunk,
           at <= Len(raw) => raw[at] = Size[n],
           at + 4 + n > Len(raw)
    PROVE  Decode(raw, d, at) = Bad
  <1>1. MaxChunk \in Nat /\ n \in Nat /\ n # 0 /\ n \in 0..MaxChunk /\ Len(raw) \in Nat
    BY SizeIsByte
  <1>2. CASE ChunkSize(raw, at) = {}
    BY <1>2 DEF Decode
  <1>3. CASE ChunkSize(raw, at) # {}
    <2>1. at + 2 <= Len(raw) /\ ChunkSize(raw, at) \subseteq {k \in 0..MaxChunk : Size[k] = raw[at]}
      BY <1>3 DEF ChunkSize
    <2>2. raw[at] = Size[n]
      BY <1>1, <2>1
    <2>3. {k \in 0..MaxChunk : Size[k] = Size[n]} = {n}
      <3>1. \A j, k \in 0..MaxChunk : Size[j] = Size[k] => j = k
        BY SizeAssumption
      <3>2. QED
        BY <1>1, <3>1
    <2>4. ChunkSize(raw, at) = {n}
      BY <1>3, <2>1, <2>2, <2>3
    <2>5. Min(ChunkSize(raw, at)) = n
      <3>1. {n} \subseteq Nat /\ n \in {n} /\ \A x \in {n} : n <= x
        BY <1>1
      <3>2. Min({n}) = n
        BY <3>1, MinIs
      <3>3. QED
        BY <2>4, <3>2
    <2>6. PICK e \in Nat : e = at + 3 + n
      BY <1>1
    <2>7. e + 1 > Len(raw)
      BY <1>1, <2>6
    <2>8. at + 3 + Min(ChunkSize(raw, at)) = e /\ ChunkSize(raw, at) # {0}
      BY <1>1, <2>4, <2>5, <2>6
    <2>9. QED
      BY <1>3, <2>7, <2>8 DEF Decode
  <1>4. QED
    BY <1>2, <1>3

\* What the decoder makes of the first m bytes of the framed body from byte k of the
\* document on: the bytes that are left, or an error.
Decoded(r, doc, ends, m, k) ==
    /\ m >= At(ends, Len(doc)) + 5 =>
           r = [ok |-> TRUE, out |-> SubSeq(doc, k, Len(doc))]
    /\ m < At(ends, Len(doc)) + 5 => ~r.ok

LEMMA DecodedStep ==
    ASSUME NEW doc, NEW ends, IsChunked(doc, ends), NEW f, IsSent(f, doc, ends),
           NEW m \in Nat, m <= Len(f), NEW d,
           NEW k \in 1..Len(doc), k = 1 \/ k - 1 \in ends,
           LET next == EndOf(ends, k) + 1 IN
           Sized(ends, next) <= m + 1 => Decoded(d[Sized(ends, next)], doc, ends, m, next)
    PROVE  Decoded(Decode(SubSeq(f, 1, m), d, Sized(ends, k)), doc, ends, m, k)
  <1> DEFINE raw == SubSeq(f, 1, m)
             N == Len(doc)
             n(e) == e - k + 1
  <1>1. /\ IsCut(doc, ends) /\ N \in Nat /\ N >= 1 /\ k \in Nat /\ k >= 1 /\ k <= N
        /\ doc \in Seq(Bytes) /\ MaxChunk \in Nat /\ \A c \in ends : c \in 1..N
    <2>1. IsCut(doc, ends)
      BY DEF IsChunked
    <2>2. N \in Nat /\ N >= 1 /\ doc \in Seq(Bytes) /\ \A c \in ends : c \in 1..N
      BY <2>1 DEF IsCut
    <2>3. QED
      BY <2>1, <2>2, SizeIsByte
  <1>2. PICK e \in k..N : e = EndOf(ends, k) /\ e \in ends /\ Joined(ends, k, e)
                          /\ Left(doc, ends, k) = n(e) /\ n(e) \in 1..MaxChunk
    BY EndIsNext
  <1>3. PICK K \in Nat : K = At(ends, k) /\ K >= 4
    <2>1. At(ends, k) \in Nat /\ At(ends, k) >= k + 3
      BY <1>1, PlacesRise, k <= k
    <2>2. QED
      BY <1>1, <2>1
  <1>4. PICK L \in Nat : L = At(ends, N)
    BY <1>1, PlacesRise, N <= N
  <1>5. /\ e \in Nat /\ k <= e /\ e <= N /\ At(ends, e) = K + (e - k)
        /\ Sized(ends, e + 1) = K + (e - k) + 3 /\ Sized(ends, k) = K - 3
    <2>1. e \in Nat /\ k <= e /\ e <= N
      BY <1>1
    <2>2. At(ends, e) = K + (e - k)
      <3>1. \A c \in ends : ~(k <= c /\ c < e)
        BY <1>2 DEF Joined
      <3>2. QED
        BY <1>1, <1>3, <2>1, <3>1, PlacesStay
    <2>3. At(ends, e + 1) = K + (e - k) + 6
      BY <1>1, <1>2, <2>2, PlacesJump
    <2>4. K + (e - k) + 6 - 3 = K + (e - k) + 3
      BY <2>1
    <2>5. Sized(ends, e + 1) = K + (e - k) + 3
      BY <2>3, <2>4 DEF Sized
    <2>6. Sized(ends, k) = K - 3
      BY <1>3 DEF Sized
    <2>7. QED
      BY <2>1, <2>2, <2>5, <2>6
  <1>6. K + (e - k) <= L
    <2>1. At(ends, e) + (N - e) <= L
      BY <1>1, <1>4, <1>5, PlacesRise
    <2>2. K + (e - k) + (N - e) <= L
      BY <1>5, <2>1
    <2>3. QED
      BY <1>1, <1>5, <2>2
  <1>7. /\ f \in Seq(Bytes) /\ Len(f) = L + 7 /\ f[K - 3] = Size[n(e)]
        /\ f[K - 2] = "CR" /\ f[K - 1] = "LF"
    <2>1. f \in Seq(Bytes) /\ Len(f) = L + 7
      BY <1>4 DEF IsSent
    <2>2. CASE k = 1
      <3>1. K = 4
        BY <1>1, <1>3, <2>2, FirstPlace
      <3>2. K - 3 = 1 /\ K - 2 = 2 /\ K - 1 = 3
        BY <3>1
      <3>3. f[1] = Size[Left(doc, ends, k)] /\ f[2] = "CR" /\ f[3] = "LF"
        BY <2>2 DEF IsSent
      <3>4. QED
        BY <1>2, <2>1, <3>2, <3>3
    <2>3. CASE k - 1 \in ends
      <3>1. PICK c \in ends : c = k - 1
        BY <2>3
      <3>2. c + 1 = k
        BY <1>1, <3>1
      <3>3. PICK C \in Nat : C = At(ends, c)
        BY <1>1, PlacesJump
      <3>4. K = C + 6
        BY <1>1, <1>3, <3>2, <3>3, PlacesJump
      <3>5. K - 3 = C + 3 /\ K - 2 = C + 4 /\ K - 1 = C + 5
        BY <3>4
      <3>6. /\ f[C + 3] = Size[Left(doc, ends, k)]
            /\ f[C + 4] = "CR" /\ f[C + 5] = "LF"
        BY <3>2, <3>3 DEF IsSent
      <3>7. QED
        BY <1>2, <2>1, <3>5, <3>6
    <2>4. QED
      BY <2>2, <2>3
  <1>8. f[K + (e - k) + 1] = "CR" /\ f[K + (e - k) + 2] = "LF"
    <2>1. f[At(ends, e) + 1] = "CR" /\ f[At(ends, e) + 2] = "LF"
      BY <1>2 DEF IsSent
    <2>2. QED
      BY <1>5, <2>1
  <1>9. raw \in Seq(Bytes) /\ Len(raw) = m /\ \A p \in 1..m : raw[p] = f[p]
    <2>1. 1 \in Nat \ {0} /\ m \in Nat /\ m <= Len(f)
      OBVIOUS
    <2>2. /\ raw \in Seq(Bytes) /\ Len(raw) = IF 1 <= m THEN m - 1 + 1 ELSE 0
          /\ \A p \in 1..(m - 1 + 1) : raw[p] = f[1 + p - 1]
      BY <1>7, <2>1, Slice, SMTT(30)
    <2> HIDE DEF raw
    <2>3. m - 1 + 1 = m /\ (IF 1 <= m THEN m ELSE 0) = m /\ \A p \in 1..m : 1 + p - 1 = p
      OBVIOUS
    <2>4. QED
      BY <2>2, <2>3
  <1> HIDE DEF raw
  <1> DEFINE at == K - 3
             b == e - k + 1
  <1>10. K >= 4 /\ at \in Nat \ {0} /\ b \in 1..MaxChunk /\ b \in Nat
    <2>1. K >= 4
      BY <1>3
    <2>2. b \in 1..MaxChunk
      BY <1>2
    <2>3. at \in Nat \ {0}
      BY <2>1
    <2>4. b \in Nat
      BY <1>1, <1>5
    <2>5. QED
      BY <2>1, <2>2, <2>3, <2>4
  <1>11. at <= Len(raw) => raw[at] = Size[b]
    <2>1. at <= m => at \in 1..m
      BY <1>10
    <2>2. QED
      BY <1>7, <1>9, <2>1
  <1>12. CASE at + 4 + b > m
    <2>1. Decode(raw, d, at) = Bad
      <3>1. at + 4 + b > Len(raw)
        BY <1>9, <1>12
      <3> HIDE DEF at, b
      <3>2. QED
        BY <1>9, <1>10, <1>11, <3>1, DecodeCut
    <2>2. m < L + 5
      <3>1. at + 4 + b = K + (e - k) + 2
        BY <1>1, <1>5
      <3>2. QED
        BY <1>1, <1>5, <1>6, <1>12, <3>1
    <2>3. ~Bad.ok /\ ~(m >= L + 5)
      BY <2>2 DEF Bad
    <2>4. Decoded(Bad, doc, ends, m, k)
      BY <1>4, <2>3 DEF Decoded
    <2>5. QED
      BY <1>5, <2>1, <2>4 DEF raw
  <1>13. CASE ~(at + 4 + b > m)
    <2>1. /\ at + 1 = K - 2 /\ at + 2 = K - 1 /\ at + 3 = K
          /\ at + 3 + b = K + (e - k) + 1 /\ at + 4 + b = K + (e - k) + 2
          /\ at + 5 + b = K + (e - k) + 3 /\ at + 2 + b = K + (e - k)
      BY <1>1, <1>5
    <2>2. /\ K - 3 \in 1..m /\ K - 2 \in 1..m /\ K - 1 \in 1..m
          /\ K + (e - k) + 1 \in 1..m /\ K + (e - k) + 2 \in 1..m
      <3>1. k \in Nat /\ e \in Nat /\ k <= e /\ K >= 4
        BY <1>1, <1>5, <1>10
      <3>2. ~(K + (e - k) + 2 > m)
        BY <1>13, <2>1
      <3>3. QED
        BY <3>1, <3>2
    <2>3. /\ raw[K - 3] = Size[b] /\ raw[K - 2] = "CR" /\ raw[K - 1] = "LF"
          /\ raw[K + (e - k) + 1] = "CR" /\ raw[K + (e - k) + 2] = "LF"
      BY <1>7, <1>8, <1>9, <2>2
    <2> DEFINE next == d[K + (e - k) + 3]
    <2>4. Decode(raw, d, at) = [ok |-> next.ok, out |-> SubSeq(raw, K, K + (e - k)) \o next.out]
      <3>1. /\ raw[at] = Size[b] /\ raw[at + 1] = "CR" /\ raw[at + 2] = "LF"
            /\ raw[at + 3 + b] = "CR" /\ raw[at + 4 + b] = "LF"
        BY <2>1, <2>3
      <3>2. at + 4 + b <= Len(raw)
        BY <1>1, <1>5, <1>9, <1>13, SMTT(30)
      <3>3. Decode(raw, d, at) = [ok |-> d[at + 5 + b].ok,
                                  out |-> SubSeq(raw, at + 3, at + 2 + b) \o d[at + 5 + b].out]
        <4> HIDE DEF at, b
        <4> QED
          BY <1>9, <1>10, <3>1, <3>2, DecodeChunk
      <3>4. QED
        BY <2>1, <3>3
    <2>5. Decoded(next, doc, ends, m, e + 1)
      <3>1. K + (e - k) + 3 <= m + 1
        BY <1>1, <1>5, <2>2
      <3>2. QED
        BY <1>2, <1>5, <3>1
    <2> HIDE DEF next
    <2>6. CASE m < L + 5
      <3>1. ~next.ok
        BY <1>4, <2>5, <2>6 DEF Decoded
      <3>2. ~Decode(raw, d, at).ok
        BY <2>4, <3>1
      <3>3. Decoded(Decode(raw, d, at), doc, ends, m, k)
        BY <1>4, <2>6, <3>2, SMTT(30) DEF Decoded
      <3>4. QED
        BY <1>5, <3>3 DEF raw
    <2>7. CASE ~(m < L + 5)
      <3>1. next = [ok |-> TRUE, out |-> SubSeq(doc, e + 1, N)]
        BY <1>4, <2>5, <2>7 DEF Decoded
      <3>2. SubSeq(raw, K, K + (e - k)) = SubSeq(doc, k, e)
        <4>1. Framing(raw, doc, ends)
          BY <1>4, <2>7, SentIsFraming DEF raw
        <4>2. e \in 1..N
          BY <1>1, <1>5
        <4>3. SubSeq(raw, At(ends, k), At(ends, e)) = SubSeq(doc, k, e)
          <5>1. IsCut(doc, ends) /\ k <= e /\ Joined(ends, k, e)
            BY <1>1, <1>2, <1>5
          <5>2. \A z, y \in 1..N : z <= y /\ Joined(ends, z, y) =>
                    SubSeq(raw, At(ends, z), At(ends, y)) = SubSeq(doc, z, y)
            <6> SUFFICES ASSUME NEW z \in 1..Len(doc), NEW y \in 1..Len(doc),
                                z <= y, Joined(ends, z, y)
                         PROVE  SubSeq(raw, At(ends, z), At(ends, y)) = SubSeq(doc, z, y)
              OBVIOUS
            <6>1. IsCut(doc, ends) /\ Framing(raw, doc, ends)
              BY <4>1, <5>1
            <6>2. /\ Same(doc, z, raw, At(ends, z), y - z)
                  /\ At(ends, z) \in Nat \ {0} /\ At(ends, y) = At(ends, z) + (y - z)
                  /\ SubSeq(raw, At(ends, z), At(ends, y)) = SubSeq(doc, z, y)
              BY ONLY <6>1, JoinedBytes, z \in 1..Len(doc), y \in 1..Len(doc), z <= y,
                      Joined(ends, z, y), SMTT(30)
            <6>3. QED
              BY <6>2
          <5>3. QED
            BY <4>2, <5>1, <5>2
        <4>4. QED
          BY <1>3, <1>5, <4>3
      <3>3. SubSeq(doc, k, e) \o SubSeq(doc, e + 1, N) = SubSeq(doc, k, N)
        <4>1. k \in 1..(Len(doc) + 1) /\ e \in (k - 1)..Len(doc) /\ N \in e..Len(doc)
          BY <1>1, <1>5
        <4>2. QED
          BY <1>1, <4>1, ConcatAdjacentSubSeq
      <3>4. Decode(raw, d, at) = [ok |-> TRUE, out |-> SubSeq(doc, k, N)]
        BY <2>4, <3>1, <3>2, <3>3
      <3>5. Decoded(Decode(raw, d, at), doc, ends, m, k)
        BY <1>4, <2>7, <3>4 DEF Decoded
      <3>6. QED
        BY <1>5, <3>5 DEF raw
    <2>8. QED
      BY <2>6, <2>7
  <1>14. QED
    BY <1>12, <1>13

(* The closing chunk. *)
LEMMA DecodedLast ==
    ASSUME NEW doc, NEW ends, IsChunked(doc, ends), NEW f, IsSent(f, doc, ends),
           NEW m \in Nat, m <= Len(f), NEW d
    PROVE  Decoded(Decode(SubSeq(f, 1, m), d, Sized(ends, Len(doc) + 1)),
                   doc, ends, m, Len(doc) + 1)
  <1> DEFINE raw == SubSeq(f, 1, m)
             N == Len(doc)
  <1>1. IsCut(doc, ends) /\ N \in Nat /\ N >= 1 /\ N \in ends /\ doc \in Seq(Bytes)
    <2>1. IsCut(doc, ends)
      BY DEF IsChunked
    <2>2. N \in Nat /\ N >= 1 /\ N \in ends /\ doc \in Seq(Bytes)
      BY <2>1 DEF IsCut
    <2>3. QED
      BY <2>1, <2>2
  <1>2. PICK L \in Nat : L = At(ends, N)
    BY <1>1, PlacesRise, N <= N
  <1>3. Sized(ends, N + 1) = L + 3
    <2>1. At(ends, N + 1) = L + 6
      BY <1>1, <1>2, PlacesJump
    <2>2. L + 6 - 3 = L + 3
      OBVIOUS
    <2>3. QED
      BY <2>1, <2>2 DEF Sized
  <1>4. f \in Seq(Bytes) /\ Len(f) = L + 7
    BY <1>2 DEF IsSent
  <1>5. f[L + 3] = Size[0] /\ f[L + 4] = "CR" /\ f[L + 5] = "LF"
    <2>1. Left(doc, ends, N + 1) = 0
      BY <1>1 DEF Left
    <2>2. /\ f[L + 3] = Size[Left(doc, ends, N + 1)]
          /\ f[L + 4] = "CR" /\ f[L + 5] = "LF"
      BY <1>1, <1>2 DEF IsSent
    <2>3. QED
      BY <2>1, <2>2
  <1>6. raw \in Seq(Bytes) /\ Len(raw) = m /\ \A p \in 1..m : raw[p] = f[p]
    <2>1. 1 \in Nat \ {0} /\ m \in Nat /\ m <= Len(f)
      OBVIOUS
    <2>2. /\ raw \in Seq(Bytes) /\ Len(raw) = IF 1 <= m THEN m - 1 + 1 ELSE 0
          /\ \A p \in 1..(m - 1 + 1) : raw[p] = f[1 + p - 1]
      BY <1>4, <2>1, Slice
    <2> HIDE DEF raw
    <2>3. m - 1 + 1 = m /\ (IF 1 <= m THEN m ELSE 0) = m /\ \A p \in 1..m : 1 + p - 1 = p
      OBVIOUS
    <2>4. QED
      BY <2>2, <2>3
  <1> HIDE DEF raw
  <1> DEFINE at == L + 3
  <1>7. CASE m >= L + 5
    <2>1. /\ at \in Nat \ {0} /\ at + 1 = L + 4 /\ at + 2 = L + 5
          /\ L + 3 \in 1..m /\ L + 4 \in 1..m /\ L + 5 \in 1..m
      BY <1>7
    <2>2. raw[at] = Size[0] /\ raw[at + 1] = "CR" /\ raw[at + 2] = "LF" /\ at + 2 <= Len(raw)
      BY <1>5, <1>6, <1>7, <2>1
    <2>3. ChunkSize(raw, at) = {0}
      <3>1. 0 \in 0..MaxChunk
        BY SizeIsByte
      <3> HIDE DEF at
      <3>2. QED
        BY <1>6, <2>1, <2>2, <3>1, SizeRead
    <2>4. Decode(raw, d, at) = [ok |-> TRUE, out |-> <<>>]
      BY <2>3 DEF Decode
    <2>5. SubSeq(doc, N + 1, N) = <<>>
      BY <1>1, SubSeqEmpty
    <2>6. Decoded(Decode(raw, d, at), doc, ends, m, N + 1)
      <3>1. ~(m < L + 5)
        BY <1>7
      <3>2. Decode(raw, d, at) = [ok |-> TRUE, out |-> SubSeq(doc, N + 1, N)]
        BY <2>4, <2>5
      <3>3. QED
        BY <1>2, <3>1, <3>2 DEF Decoded
    <2>7. QED
      BY <1>3, <2>6 DEF raw
  <1>8. CASE ~(m >= L + 5)
    <2>1. ~(at + 2 <= Len(raw)) /\ m < L + 5
      BY <1>6, <1>8
    <2>2. ChunkSize(raw, at) = {}
      BY <2>1 DEF ChunkSize
    <2>3. Decode(raw, d, at) = Bad /\ ~Bad.ok
      BY <2>2 DEF Decode, Bad
    <2>4. Decoded(Decode(raw, d, at), doc, ends, m, N + 1)
      BY <1>2, <1>8, <2>3 DEF Decoded
    <2>5. QED
      BY <1>3, <2>4 DEF raw
  <1>9. QED
    BY <1>7, <1>8

(* The decoder gives the document back, or an error if the body ends before the size
   of its last chunk. *)
LEMMA FramedDecodes ==
    ASSUME NEW doc, NEW ends, IsChunked(doc, ends), NEW f, IsSent(f, doc, ends),
           NEW m \in Nat, m <= Len(f)
    PROVE  Decoded(decode_chunked_body(SubSeq(f, 1, m)), doc, ends, m, 1)
  <1> DEFINE raw == SubSeq(f, 1, m)
             N == Len(doc)
             Reached(k) == (k = 1 \/ k - 1 \in ends) /\ Sized(ends, k) <= m + 1
  <1>1. IsCut(doc, ends) /\ N \in Nat /\ N >= 1 /\ \A c \in ends : c \in 1..N
    <2>1. IsCut(doc, ends)
      BY DEF IsChunked
    <2>2. N \in Nat /\ N >= 1 /\ \A c \in ends : c \in 1..N
      BY <2>1 DEF IsCut
    <2>3. QED
      BY <2>1, <2>2
  <1>2. raw \in Seq(Bytes) /\ Len(raw) = m
    <2>1. 1 \in Nat \ {0} /\ m \in Nat /\ m <= Len(f) /\ f \in Seq(Bytes)
      BY DEF IsSent
    <2>2. raw \in Seq(Bytes) /\ Len(raw) = IF 1 <= m THEN m - 1 + 1 ELSE 0
      BY <2>1, Slice
    <2> HIDE DEF raw
    <2>3. m - 1 + 1 = m /\ (IF 1 <= m THEN m ELSE 0) = m
      OBVIOUS
    <2>4. QED
      BY <2>2, <2>3
  <1>3. PICK d : /\ decode_chunked_body(raw) = d[1]
                 /\ \A at \in 1..(m + 1) : d[at] = Decode(raw, d, at)
    <2> HIDE DEF raw
    <2>1. QED
      BY <1>2, DecodingExists
  <1> DEFINE S == {k \in 1..(N + 1) :
                      Reached(k) => Decoded(d[Sized(ends, k)], doc, ends, m, k)}
  <1>4. ASSUME NEW k \in 1..(N + 1), Reached(k)
        PROVE  d[Sized(ends, k)] = Decode(raw, d, Sized(ends, k))
    <2>1. Sized(ends, k) \in 1..(m + 1)
      <3>1. At(ends, k) \in Nat /\ At(ends, k) >= k + 3
        BY <1>1, PlacesRise, k \in Nat, k <= k
      <3>2. PICK p \in Nat : p = At(ends, k)
        BY <3>1
      <3>3. p >= k + 3 /\ Sized(ends, k) = p - 3
        BY <3>1, <3>2 DEF Sized
      <3>4. p - 3 \in Nat /\ p - 3 >= 1
        BY <1>1, <3>3
      <3>5. p - 3 <= m + 1
        BY <1>4, <3>3
      <3>6. p - 3 \in 1..(m + 1)
        BY <3>4, <3>5
      <3>7. QED
        BY <3>3, <3>6
    <2> HIDE DEF raw
    <2>2. QED
      BY <1>3, <2>1
  <1>5. ASSUME NEW k \in 1..(N + 1), (k + 1)..(N + 1) \subseteq S
        PROVE  k \in S
    <2> SUFFICES ASSUME Reached(k)
                 PROVE  Decoded(Decode(raw, d, Sized(ends, k)), doc, ends, m, k)
      BY <1>4
    <2>1. CASE k = N + 1
      BY <2>1, DecodedLast
    <2>2. CASE k # N + 1
      <3>1. k \in 1..N /\ (k = 1 \/ k - 1 \in ends)
        BY <1>1, <2>2
      <3>2. PICK e \in k..N : e = EndOf(ends, k) /\ e \in ends
        BY <3>1, EndIsNext
      <3>3. e + 1 \in (k + 1)..(N + 1) /\ e + 1 - 1 = e
        BY <1>1, <3>1
      <3>4. e + 1 \in S /\ e + 1 - 1 \in ends
        BY <1>5, <3>2, <3>3
      <3>5. Sized(ends, e + 1) <= m + 1 =>
                Decoded(d[Sized(ends, e + 1)], doc, ends, m, e + 1)
        BY <3>4
      <3>6. Sized(ends, EndOf(ends, k) + 1) <= m + 1 =>
                Decoded(d[Sized(ends, EndOf(ends, k) + 1)], doc, ends, m, EndOf(ends, k) + 1)
        BY <3>2, <3>5
      <3>7. Decoded(Decode(SubSeq(f, 1, m), d, Sized(ends, k)), doc, ends, m, k)
        BY <3>1, <3>6, DecodedStep
      <3>8. QED
        BY <3>7
    <2>3. QED
      BY <2>1, <2>2
  <1>6. 1..(N + 1) \subseteq S
    <2>1. 1 \in Int /\ N + 1 \in Int
      BY <1>1
    <2> HIDE DEF S
    <2>2. QED
      BY <1>5, <2>1, Downwards
  <1>7. Sized(ends, 1) = 1
    <2>1. At(ends, 1) = 4
      BY <1>1, FirstPlace
    <2>2. QED
      BY <2>1 DEF Sized
  <1>8. Reached(1) /\ 1 \in 1..(N + 1)
    BY <1>1, <1>7
  <1>9. Decoded(d[1], doc, ends, m, 1)
    BY <1>6, <1>7, <1>8
  <1>10. QED
    BY <1>3, <1>9

-----------------------------------------------------------------------------
(* What arrives of a response.                                             *)

\* The empty line that ends a head.
EmptyLineAt(s, p) ==
    /\ p \in 1..(Len(s) - 3)
    /\ s[p] = "CR" /\ s[p + 1] = "LF" /\ s[p + 2] = "CR" /\ s[p + 3] = "LF"

LEMMA EmptyLineFound ==
    ASSUME NEW s \in Seq(Bytes)
    PROVE  \A p : p \in find_first(s, CRLF \o CRLF) <=> EmptyLineAt(s, p)
  <1> DEFINE line == CRLF \o CRLF
  <1>1. /\ line \in Seq(Bytes) /\ Len(line) = 4 /\ line[1] = "CR" /\ line[2] = "LF"
        /\ line[3] = "CR" /\ line[4] = "LF"
    <2>1. CRLF \in Seq(Bytes) /\ Len(CRLF) = 2 /\ CRLF[1] = "CR" /\ CRLF[2] = "LF"
      BY SizeIsByte
    <2>2. /\ line \in Seq(Bytes) /\ Len(line) = Len(CRLF) + Len(CRLF)
          /\ \A i \in 1..Len(CRLF) : line[i] = CRLF[i]
          /\ \A i \in 1..Len(CRLF) : line[Len(CRLF) + i] = CRLF[i]
      BY <2>1, Appended
    <2> HIDE DEF line
    <2>3. 1 \in 1..2 /\ 2 \in 1..2 /\ 2 + 1 = 3 /\ 2 + 2 = 4
      OBVIOUS
    <2>4. QED
      BY <2>1, <2>2, <2>3
  <1> HIDE DEF line
  <1>2. Len(s) \in Nat
    OBVIOUS
  <1>3. ASSUME NEW p \in 1..(Len(s) - 3)
        PROVE  SubSeq(s, p, p + 3) = line <=> EmptyLineAt(s, p)
    <2> DEFINE four == SubSeq(s, p, p + 3)
    <2>1. p \in Nat \ {0} /\ p + 3 \in Nat /\ p + 3 <= Len(s) /\ (p + 3) - p + 1 = 4
          /\ p <= p + 3
      BY <1>2
    <2>2. /\ four \in Seq(Bytes) /\ Len(four) = 4
          /\ \A i \in 1..4 : four[i] = s[p + i - 1]
      BY <2>1, Slice
    <2>3. four[1] = s[p] /\ four[2] = s[p + 1] /\ four[3] = s[p + 2] /\ four[4] = s[p + 3]
      <3>1. p + 1 - 1 = p /\ p + 2 - 1 = p + 1 /\ p + 3 - 1 = p + 2 /\ p + 4 - 1 = p + 3
        BY <2>1
      <3>2. 1 \in 1..4 /\ 2 \in 1..4 /\ 3 \in 1..4 /\ 4 \in 1..4
        OBVIOUS
      <3>3. QED
        BY <2>2, <3>1, <3>2
    <2> HIDE DEF four
    <2>4. (\A i \in 1..4 : four[i] = line[i]) => four = line
      BY <1>1, <2>2, SeqEqual
    <2>5. four = line <=>
              four[1] = "CR" /\ four[2] = "LF" /\ four[3] = "CR" /\ four[4] = "LF"
      <3>1. \A i \in 1..4 : i = 1 \/ i = 2 \/ i = 3 \/ i = 4
        OBVIOUS
      <3>2. QED
        BY <1>1, <2>4, <3>1
    <2>6. QED
      BY <2>3, <2>5 DEF four, EmptyLineAt
  <1>4. ASSUME NEW p
        PROVE  p \in find_first(s, line) <=> EmptyLineAt(s, p)
    <2>1. (Len(s) - Len(line)) + 1 = Len(s) - 3
      BY <1>1, <1>2
    <2>2. p \in find_first(s, line) <=>
              p \in 1..(Len(s) - 3) /\ SubSeq(s, p, p + Len(line) - 1) = line
      BY <2>1 DEF find_first, Occurs
    <2>3. p \in 1..(Len(s) - 3) => p + Len(line) - 1 = p + 3
      BY <1>1, <1>2
    <2>4. QED
      BY <1>3, <2>2, <2>3 DEF EmptyLineAt
  <1>5. QED
    BY <1>4 DEF line

(* The body begins behind the head, if all of the head arrived. *)
LEMMA Boundary ==
    ASSUME NEW h \in Seq(Bytes), find_first(h, CRLF \o CRLF) = {Len(h) - 3},
           NEW x \in Seq(Bytes), NEW m \in Nat, m <= Len(h) + Len(x)
    PROVE  LET recv == SubSeq(h \o x, 1, m) IN
           /\ m < Len(h) => find_response_body_range(recv) = 0
           /\ m >= Len(h) => /\ find_response_body_range(recv) = Len(h) + 1
                             /\ raw_body(recv) = SubSeq(x, 1, m - Len(h))
  <1> DEFINE H == Len(h)
             recv == SubSeq(h \o x, 1, m)
             T == find_first(recv, CRLF \o CRLF)
  <1>1. H \in Nat /\ Len(x) \in Nat
    OBVIOUS
  <1>2. H >= 4 /\ \A p : EmptyLineAt(h, p) <=> p = H - 3
    <2>1. \A p : EmptyLineAt(h, p) <=> p = H - 3
      BY EmptyLineFound
    <2>2. H - 3 \in 1..(H - 3)
      BY <2>1 DEF EmptyLineAt
    <2>3. QED
      BY <1>1, <2>1, <2>2
  <1> DEFINE s == h \o x
  <1>3. /\ s \in Seq(Bytes) /\ Len(s) = H + Len(x)
        /\ \A i \in 1..H : s[i] = h[i]
        /\ \A i \in 1..Len(x) : s[H + i] = x[i]
    BY Appended
  <1> HIDE DEF s
  <1>4. recv \in Seq(Bytes) /\ Len(recv) = m /\ \A i \in 1..m : recv[i] = s[i]
    <2>1. 1 \in Nat \ {0} /\ m <= Len(s)
      BY <1>3
    <2>2. /\ recv \in Seq(Bytes) /\ Len(recv) = IF 1 <= m THEN m - 1 + 1 ELSE 0
          /\ \A i \in 1..(m - 1 + 1) : recv[i] = s[1 + i - 1]
      BY <1>3, <2>1, Slice DEF s
    <2> HIDE DEF recv
    <2>3. m - 1 + 1 = m /\ (IF 1 <= m THEN m ELSE 0) = m /\ \A i \in 1..m : 1 + i - 1 = i
      OBVIOUS
    <2>4. QED
      BY <2>2, <2>3
  <1> HIDE DEF recv
  <1>5. \A p : p \in T <=> EmptyLineAt(recv, p)
    BY <1>4, EmptyLineFound
  <1> HIDE DEF T
  <1>6. ASSUME NEW p \in Nat \ {0}, p + 3 <= H, p + 3 <= m
        PROVE  EmptyLineAt(recv, p) <=> EmptyLineAt(h, p)
    <2>1. /\ p \in 1..H /\ p + 1 \in 1..H /\ p + 2 \in 1..H /\ p + 3 \in 1..H
          /\ p \in 1..m /\ p + 1 \in 1..m /\ p + 2 \in 1..m /\ p + 3 \in 1..m
          /\ p \in 1..(H - 3) /\ p \in 1..(m - 3)
      BY <1>1, <1>6
    <2>2. /\ recv[p] = h[p] /\ recv[p + 1] = h[p + 1] /\ recv[p + 2] = h[p + 2]
          /\ recv[p + 3] = h[p + 3]
      BY <1>3, <1>4, <2>1
    <2>3. QED
      BY <1>4, <2>1, <2>2 DEF EmptyLineAt
  <1>7. ASSUME m < H
        PROVE  find_response_body_range(recv) = 0
    <2>1. T = {}
      <3> SUFFICES ASSUME NEW p \in T PROVE FALSE
        OBVIOUS
      <3>1. EmptyLineAt(recv, p)
        BY <1>5
      <3>2. p \in 1..(m - 3)
        BY <1>4, <3>1 DEF EmptyLineAt
      <3>3. p \in Nat \ {0} /\ p + 3 <= H /\ p + 3 <= m /\ p # H - 3
        BY <1>1, <1>7, <3>2
      <3>4. QED
        BY <1>2, <1>6, <3>1, <3>3
    <2>2. QED
      BY <2>1 DEF find_response_body_range, T
  <1>8. ASSUME m >= H
        PROVE  /\ find_response_body_range(recv) = H + 1
               /\ raw_body(recv) = SubSeq(x, 1, m - H)
    <2>1. H - 3 \in T /\ T \subseteq Nat
      <3>1. H - 3 \in Nat \ {0} /\ (H - 3) + 3 <= H /\ (H - 3) + 3 <= m
        <4>1. H >= 4
          BY <1>2
        <4>2. \A j, k \in Nat : j >= 4 /\ k >= j =>
                  j - 3 \in Nat \ {0} /\ (j - 3) + 3 <= j /\ (j - 3) + 3 <= k
          OBVIOUS
        <4>3. QED
          BY <1>1, <1>8, <4>1, <4>2
      <3>2. EmptyLineAt(recv, H - 3)
        BY <1>2, <1>6, <3>1
      <3>3. \A p : EmptyLineAt(recv, p) => p \in Nat
        BY <1>4 DEF EmptyLineAt
      <3>4. QED
        BY <1>5, <3>2, <3>3
    <2>2. ASSUME NEW p \in T
          PROVE  H - 3 <= p
      <3> SUFFICES ASSUME p < H - 3 PROVE FALSE
        BY <1>1, <2>1
      <3>1. EmptyLineAt(recv, p)
        BY <1>5
      <3>2. p \in 1..(m - 3)
        BY <1>4, <3>1 DEF EmptyLineAt
      <3>3. p \in Nat \ {0} /\ p + 3 <= H /\ p + 3 <= m /\ p # H - 3
        BY <1>1, <1>8, <3>2
      <3>4. QED
        BY <1>2, <1>6, <3>1, <3>3
    <2>3. Min(T) = H - 3
      <3>1. PICK n : n = H - 3
        OBVIOUS
      <3>2. n \in T /\ T \subseteq Nat /\ \A p \in T : n <= p
        BY <2>1, <2>2, <3>1
      <3>3. QED
        BY <3>1, <3>2, MinIs
    <2>4. find_response_body_range(recv) = H + 1
      <3>1. T # {} /\ ~(Len(recv) < 4) /\ (H - 3) + 4 = H + 1
        BY <1>1, <1>2, <1>4, <1>8, <2>1
      <3>2. QED
        BY <2>3, <3>1 DEF find_response_body_range, T
    <2> DEFINE n == m - H
               raw == SubSeq(recv, H + 1, m)
               pre == SubSeq(x, 1, n)
    <2>5. n \in Nat /\ n <= Len(x) /\ H + n = m
      BY <1>1, <1>8
    <2>6. pre \in Seq(Bytes) /\ Len(pre) = n /\ \A i \in 1..n : pre[i] = x[i]
      <3> HIDE DEF n
      <3>1. /\ pre \in Seq(Bytes) /\ Len(pre) = IF 1 <= n THEN n - 1 + 1 ELSE 0
            /\ \A i \in 1..(n - 1 + 1) : pre[i] = x[1 + i - 1]
        BY <2>5, Slice, 1 \in Nat \ {0}
      <3> HIDE DEF pre
      <3>2. n - 1 + 1 = n /\ (IF 1 <= n THEN n ELSE 0) = n /\ \A i \in 1..n : 1 + i - 1 = i
        BY <2>5
      <3>3. QED
        BY <3>1, <3>2
    <2>7. raw \in Seq(Bytes) /\ Len(raw) = n /\ \A i \in 1..n : raw[i] = recv[H + i]
      <3>1. H + 1 \in Nat \ {0} /\ m <= Len(recv)
        BY <1>1, <1>4
      <3>2. /\ raw \in Seq(Bytes) /\ Len(raw) = IF H + 1 <= m THEN m - (H + 1) + 1 ELSE 0
            /\ \A i \in 1..(m - (H + 1) + 1) : raw[i] = recv[(H + 1) + i - 1]
        BY <1>4, <3>1, Slice
      <3> HIDE DEF raw
      <3>3. /\ m - (H + 1) + 1 = n /\ (IF H + 1 <= m THEN n ELSE 0) = n
            /\ \A i \in 1..n : (H + 1) + i - 1 = H + i
        BY <1>1, <2>5
      <3> HIDE DEF n
      <3>4. QED
        BY <3>2, <3>3
    <2> HIDE DEF raw, pre
    <2>8. \A i \in 1..n : raw[i] = pre[i]
      <3> SUFFICES ASSUME NEW i \in 1..n PROVE raw[i] = pre[i]
        OBVIOUS
      <3>1. H + i \in 1..m /\ i \in 1..Len(x)
        BY <1>1, <2>5
      <3>2. raw[i] = recv[H + i] /\ pre[i] = x[i]
        BY <2>6, <2>7
      <3>3. recv[H + i] = s[H + i] /\ s[H + i] = x[i]
        BY <1>3, <1>4, <3>1
      <3>4. QED
        BY <3>2, <3>3
    <2>9. raw = pre
      <3> HIDE DEF n
      <3> QED
        BY <2>5, <2>6, <2>7, <2>8, SeqEqual
    <2>10. raw_body(recv) = raw
      BY <1>4, <2>4 DEF raw_body, raw
    <2>11. QED
      BY <2>4, <2>9, <2>10 DEF pre
  <1>9. QED
    BY <1>7, <1>8 DEF recv

EndsOf(r) == r.cuts \cup {Len(r.doc)}

\* What is assumed of a response.
LEMMA OfAResponse ==
    ASSUME NEW r \in Responses
    PROVE  /\ r.head \in Seq(Bytes) /\ Len(r.head) \in Nat
           /\ r.doc \in Seq(Bytes) /\ Len(r.doc) \in Nat /\ Len(r.doc) >= 1
           /\ find_first(r.head, CRLF \o CRLF) = {Len(r.head) - 3}
           /\ IsJSON(r.doc) /\ IsCut(r.doc, EndsOf(r)) /\ IsChunked(r.doc, EndsOf(r))
           /\ r.arrived \in Nat /\ r.chunked \in BOOLEAN
  <1> DEFINE N == Len(r.doc)
  <1>1. /\ r.head \in Seq(STRING) /\ r.doc \in Seq(STRING)
        /\ r.chunked \in BOOLEAN /\ r.arrived \in Nat
        /\ IsJSON(r.doc) /\ r.cuts \subseteq 1..(N - 1)
    BY ResponsesAssumption
  <1>2. find_first(r.head, CRLF \o CRLF) = {Len(r.head) - 3}
    BY ResponsesAssumption
  <1>3. \A k \in 1..N : EndsOf(r) \cap k..(k + MaxChunk - 1) # {}
    BY ResponsesAssumption DEF EndsOf
  <1>4. r.head \in Seq(Bytes) /\ r.doc \in Seq(Bytes)
    <2>1. \A s \in Seq(STRING) : s \in Seq(Bytes)
      BY DEF Bytes
    <2>2. QED
      BY <1>1, <2>1
  <1>5. Len(r.head) \in Nat /\ N \in Nat /\ N >= 1
    <2>1. r.doc # <<>>
      BY <1>1 DEF IsJSON
    <2>2. QED
      BY <1>4, <2>1
  <1>6. EndsOf(r) \subseteq 1..N /\ N \in EndsOf(r)
    <2>1. \A c \in r.cuts : c \in 1..N
      BY <1>1, <1>5
    <2>2. N \in 1..N
      BY <1>5
    <2>3. QED
      BY <2>1, <2>2 DEF EndsOf
  <1>7. IsCut(r.doc, EndsOf(r))
    BY <1>4, <1>5, <1>6 DEF IsCut
  <1>8. IsChunked(r.doc, EndsOf(r))
    BY <1>3, <1>7 DEF IsChunked
  <1>9. QED
    BY <1>1, <1>2, <1>4, <1>5, <1>7, <1>8

\* How many bytes of r arrived, if x is the body that was sent.
Got(r, x) == Min({r.arrived, Len(r.head \o x)})

LEMMA GotIs ==
    ASSUME NEW r \in Responses, NEW x \in Seq(Bytes)
    PROVE  /\ Got(r, x) \in Nat /\ Len(r.head \o x) = Len(r.head) + Len(x)
           /\ Got(r, x) <= Len(r.head) + Len(x) /\ Got(r, x) <= r.arrived
           /\ r.arrived >= Len(r.head) + Len(x) => Got(r, x) = Len(r.head) + Len(x)
  <1> DEFINE n == Len(r.head) + Len(x)
  <1>1. Len(r.head \o x) = n /\ n \in Nat /\ r.arrived \in Nat
    <2>1. r.head \in Seq(Bytes) /\ r.arrived \in Nat /\ Len(r.head) \in Nat
      BY OfAResponse
    <2>2. Len(r.head \o x) = n
      BY <2>1, Appended
    <2>3. QED
      BY <2>1, <2>2
  <1> DEFINE S == {r.arrived, n}
  <1>2. S \subseteq Nat /\ S # {}
    BY <1>1
  <1>3. Min(S) \in S /\ \A y \in S : Min(S) <= y
    <2> HIDE DEF S
    <2> QED
      BY <1>2, MinIsLeast
  <1>4. Got(r, x) = Min(S)
    BY <1>1 DEF Got
  <1> HIDE DEF n
  <1>5. PICK g : g = Min(S)
    OBVIOUS
  <1>6. g \in Nat /\ g <= n /\ g <= r.arrived /\ (g = r.arrived \/ g = n)
    BY <1>1, <1>3, <1>5
  <1>7. r.arrived >= n => g = n
    BY <1>1, <1>6
  <1>8. QED
    BY <1>1, <1>4, <1>5, <1>6, <1>7 DEF n

(* Of a chunked response: all of the document, or nothing. *)
LEMMA ArrivedChunked ==
    ASSUME NEW r \in Responses, r.chunked
    PROVE  LET recv == Received(r)
               decoded == extract_response_body(recv, r.chunked)
               sent == Len(r.head \o Framed(r.doc, r.cuts))
           IN  /\ \/ ~decoded.ok
                  \/ /\ find_response_body_range(recv) = Len(r.head) + 1
                     /\ Framing(raw_body(recv), r.doc, EndsOf(r)) /\ decoded.out = r.doc
               /\ r.arrived < sent - 2 => ~decoded.ok
               /\ r.arrived >= sent => decoded.ok
  <1> DEFINE doc == r.doc
             ends == EndsOf(r)
             x == Framed(doc, r.cuts)
             H == Len(r.head)
             m == Got(r, x)
             recv == Received(r)
             decoded == extract_response_body(recv, r.chunked)
  <1>1. /\ r.head \in Seq(Bytes) /\ H \in Nat /\ r.arrived \in Nat
        /\ doc \in Seq(Bytes) /\ Len(doc) \in Nat /\ Len(doc) >= 1
        /\ find_first(r.head, CRLF \o CRLF) = {H - 3}
        /\ IsCut(doc, ends) /\ IsChunked(doc, ends)
    BY OfAResponse
  <1>2. IsSent(x, doc, ends)
    BY <1>1, FramedIsSent DEF EndsOf
  <1>3. PICK L \in Nat : L = At(ends, Len(doc))
    BY <1>1, PlacesRise, Len(doc) <= Len(doc)
  <1> HIDE DEF ends, x
  <1>4. x \in Seq(Bytes) /\ Len(x) = L + 7
    BY <1>2, <1>3 DEF IsSent
  <1>5. /\ m \in Nat /\ Len(r.head \o x) = H + Len(x) /\ m <= H + Len(x) /\ m <= r.arrived
        /\ r.arrived >= H + Len(x) => m = H + Len(x)
    BY <1>4, GotIs
  <1>6. recv = SubSeq(r.head \o x, 1, m)
    BY DEF Received, Got, x
  <1> HIDE DEF m, recv
  <1>7. /\ m < H => ~(r.arrived >= H + Len(x))
        /\ ~(m < H) => /\ m - H \in Nat /\ m - H <= Len(x) /\ m >= H
                       /\ r.arrived < H + Len(x) - 2 => m - H < L + 5
                       /\ r.arrived >= H + Len(x) => m - H >= L + 5
    <2>1. \A h, a, g \in Nat : g <= h + (L + 7) /\ g <= a /\ (a >= h + (L + 7) => g = h + (L + 7)) =>
              /\ g < h => ~(a >= h + (L + 7))
              /\ ~(g < h) => /\ g - h \in Nat /\ g - h <= L + 7 /\ g >= h
                             /\ a < h + (L + 7) - 2 => g - h < L + 5
                             /\ a >= h + (L + 7) => g - h >= L + 5
      OBVIOUS
    <2>2. Len(x) = L + 7 /\ H \in Nat /\ m \in Nat /\ r.arrived \in Nat
      BY <1>1, <1>4, <1>5
    <2> HIDE DEF H
    <2>3. m <= H + (L + 7) /\ m <= r.arrived /\ (r.arrived >= H + (L + 7) => m = H + (L + 7))
      BY <1>5, <2>2
    <2>4. QED
      BY <2>1, <2>2, <2>3
  <1>8. CASE m < H
    <2>1. find_response_body_range(recv) = 0
      BY <1>1, <1>4, <1>5, <1>6, <1>8, Boundary
    <2>2. ~decoded.ok
      BY <2>1 DEF extract_response_body
    <2>3. ~(r.arrived >= H + Len(x))
      BY <1>8, <1>7
    <2>4. QED
      BY <1>5, <2>2, <2>3 DEF recv, x
  <1>9. CASE ~(m < H)
    <2> DEFINE n == m - H
    <2>1. /\ find_response_body_range(recv) = H + 1
          /\ raw_body(recv) = SubSeq(x, 1, n)
      <3>1. m >= H
        BY <1>9, <1>7
      <3>2. QED
        BY <1>1, <1>4, <1>5, <1>6, <3>1, Boundary
    <2>2. n \in Nat /\ n <= Len(x)
      BY <1>9, <1>7
    <2> HIDE DEF n
    <2>3. decoded = decode_chunked_body(SubSeq(x, 1, n))
      <3>1. H + 1 # 0
        BY <1>1
      <3>2. QED
        BY <2>1, <3>1 DEF extract_response_body
    <2> HIDE DEF decoded
    <2>4. Decoded(decoded, doc, ends, n, 1)
      BY <1>1, <1>2, <2>2, <2>3, FramedDecodes
    <2>5. /\ n >= L + 5 => decoded = [ok |-> TRUE, out |-> doc]
          /\ n < L + 5 => ~decoded.ok
      <3>1. SubSeq(doc, 1, Len(doc)) = doc
        BY <1>1, SubSeqFull
      <3>2. QED
        BY <1>3, <2>4, <3>1 DEF Decoded
    <2>6. n >= L + 5 => Framing(raw_body(recv), doc, ends)
      <3>1. n >= At(ends, Len(doc)) + 5 => Framing(SubSeq(x, 1, n), doc, ends)
        BY <1>1, <1>2, <2>2, SentIsFraming
      <3>2. QED
        BY <1>3, <2>1, <3>1
    <2>7. n >= L + 5 \/ n < L + 5
      BY <2>2
    <2>8. r.arrived < H + Len(x) - 2 => n < L + 5
      BY <1>9, <1>7 DEF n
    <2>9. r.arrived >= H + Len(x) => n >= L + 5
      BY <1>9, <1>7 DEF n
    <2>10. Len(r.head \o x) = H + Len(x)
      BY <1>5
    <2>11. /\ \/ ~decoded.ok
              \/ /\ find_response_body_range(recv) = H + 1
                 /\ Framing(raw_body(recv), doc, ends) /\ decoded.out = doc
           /\ r.arrived < H + Len(x) - 2 => ~decoded.ok
           /\ r.arrived >= H + Len(x) => decoded.ok
      BY <2>1, <2>5, <2>6, <2>7, <2>8, <2>9
    <2>12. /\ \/ ~decoded.ok
              \/ /\ find_response_body_range(recv) = H + 1
                 /\ Framing(raw_body(recv), doc, ends) /\ decoded.out = doc
           /\ r.arrived < Len(r.head \o x) - 2 => ~decoded.ok
           /\ r.arrived >= Len(r.head \o x) => decoded.ok
      BY <2>10, <2>11
    <2>13. QED
      BY <2>12 DEF recv, decoded, x, ends
  <1>10. QED
    BY <1>8, <1>9

(* Of any other: as much of the document as arrived. *)
LEMMA ArrivedPlain ==
    ASSUME NEW r \in Responses, ~r.chunked
    PROVE  LET recv == Received(r)
               decoded == extract_response_body(recv, r.chunked)
               sent == Len(r.head \o Framed(r.doc, r.cuts))
           IN  /\ \/ ~decoded.ok
                  \/ /\ find_response_body_range(recv) = Len(r.head) + 1
                     /\ \E n \in 0..Len(r.doc) : raw_body(recv) = SubSeq(r.doc, 1, n)
                     /\ decoded.out = raw_body(recv)
               /\ r.arrived >= sent => decoded.ok /\ raw_body(recv) = r.doc
  <1> DEFINE doc == r.doc
             ends == EndsOf(r)
             x == Framed(doc, r.cuts)
             H == Len(r.head)
             N == Len(doc)
             m == Got(r, doc)
             recv == Received(r)
             decoded == extract_response_body(recv, r.chunked)
  <1>1. /\ r.head \in Seq(Bytes) /\ H \in Nat /\ r.arrived \in Nat
        /\ doc \in Seq(Bytes) /\ N \in Nat /\ N >= 1
        /\ find_first(r.head, CRLF \o CRLF) = {H - 3}
        /\ IsCut(doc, ends) /\ IsChunked(doc, ends)
    BY OfAResponse
  <1>2. Len(r.head \o x) = H + Len(x) /\ Len(x) \in Nat /\ Len(x) >= N
    <2>1. IsSent(x, doc, ends)
      BY <1>1, FramedIsSent DEF EndsOf
    <2>2. PICK L \in Nat : L = At(ends, N) /\ L >= N + 3
      BY <1>1, PlacesRise, N <= N
    <2> HIDE DEF ends, x
    <2>3. x \in Seq(Bytes) /\ Len(x) = L + 7
      BY <2>1, <2>2 DEF IsSent
    <2>4. Len(r.head \o x) = H + Len(x)
      BY <2>3, GotIs
    <2>5. L >= N + 3
      BY <2>2
    <2>6. QED
      BY <1>1, <2>3, <2>4, <2>5
  <1> HIDE DEF x, ends
  <1>3. /\ m \in Nat /\ m <= H + N /\ (r.arrived >= H + N => m = H + N)
    BY <1>1, GotIs
  <1>4. recv = SubSeq(r.head \o doc, 1, m)
    BY DEF Received, Got
  <1> HIDE DEF m, recv
  <1>5. /\ m < H => ~(r.arrived >= H + Len(x))
        /\ ~(m < H) => /\ m - H \in 0..N /\ m >= H
                       /\ r.arrived >= H + Len(x) => m - H = N
    <2>1. \A h, a, g, l, k \in Nat : l >= k /\ g <= h + k /\ (a >= h + k => g = h + k) =>
              /\ g < h => ~(a >= h + l)
              /\ ~(g < h) => /\ g - h \in 0..k /\ g >= h
                             /\ a >= h + l => g - h = k
      OBVIOUS
    <2> HIDE DEF H, N
    <2>2. /\ Len(x) \in Nat /\ Len(x) >= N /\ H \in Nat /\ N \in Nat /\ m \in Nat
          /\ r.arrived \in Nat
      BY <1>1, <1>2, <1>3
    <2>3. m <= H + N /\ (r.arrived >= H + N => m = H + N)
      BY <1>3
    <2>4. QED
      BY <2>1, <2>2, <2>3
  <1>6. CASE m < H
    <2>1. find_response_body_range(recv) = 0
      BY <1>1, <1>3, <1>4, <1>6, Boundary
    <2>2. ~decoded.ok
      BY <2>1 DEF extract_response_body
    <2>3. ~(r.arrived >= H + Len(x))
      BY <1>6, <1>5
    <2>4. QED
      BY <1>2, <2>2, <2>3 DEF recv, x
  <1>7. CASE ~(m < H)
    <2> DEFINE n == m - H
    <2>1. /\ find_response_body_range(recv) = H + 1
          /\ raw_body(recv) = SubSeq(doc, 1, n)
      <3>1. m >= H
        BY <1>7, <1>5
      <3>2. QED
        BY <1>1, <1>3, <1>4, <3>1, Boundary
    <2>2. n \in 0..N
      BY <1>7, <1>5
    <2>3. r.arrived >= H + Len(x) => n = N
      BY <1>7, <1>5
    <2> HIDE DEF n
    <2>4. decoded.ok /\ decoded.out = raw_body(recv)
      <3>1. H + 1 # 0
        BY <1>1
      <3>2. decoded = [ok |-> TRUE, out |-> raw_body(recv)]
        BY <2>1, <3>1 DEF extract_response_body
      <3>3. QED
        BY <3>2
    <2>5. SubSeq(doc, 1, N) = doc
      BY <1>1, SubSeqFull
    <2> HIDE DEF decoded
    <2>6. /\ \E j \in 0..N : raw_body(recv) = SubSeq(doc, 1, j)
          /\ r.arrived >= H + Len(x) => raw_body(recv) = doc
      BY <2>1, <2>2, <2>3, <2>5
    <2>7. QED
      BY <1>2, <2>1, <2>4, <2>6 DEF recv, x, decoded
  <1>8. QED
    BY <1>6, <1>7

-----------------------------------------------------------------------------
(* What is selected of a response.                                         *)

Before(recv) == find_response_body_range(recv) - 1

(* A selected range is one that was found in both bodies, with the same bytes. *)
LEMMA FoundIs ==
    ASSUME NEW recv, NEW decoded, NEW inRaw, NEW inDecoded,
           FoundInBoth(recv, decoded, inRaw, inDecoded) # None
    PROVE  /\ decoded.ok
           /\ \E r \in inRaw : \E d \in inDecoded :
                  /\ SubSeq(raw_body(recv), r.start, r.end - 1)
                         = SubSeq(decoded.out, d.start, d.end - 1)
                  /\ FoundInBoth(recv, decoded, inRaw, inDecoded)
                         = [start |-> r.start + Before(recv), end |-> r.end + Before(recv)]
  <1> DEFINE hits == {r \in inRaw : \E d \in inDecoded :
                          SubSeq(raw_body(recv), r.start, r.end - 1)
                              = SubSeq(decoded.out, d.start, d.end - 1)}
             found == FoundInBoth(recv, decoded, inRaw, inDecoded)
             hit == CHOOSE r \in hits : TRUE
  <1>1. found = IF ~decoded.ok \/ hits = {} THEN None
                ELSE [start |-> hit.start + Before(recv), end |-> hit.end + Before(recv)]
    BY DEF FoundInBoth, require_contiguous, Before
  <1> HIDE DEF found
  <1>2. found # None
    BY DEF found
  <1>3. decoded.ok /\ hits # {}
    BY <1>1, <1>2
  <1>4. hit \in hits
    BY <1>3
  <1>5. found = [start |-> hit.start + Before(recv), end |-> hit.end + Before(recv)]
    BY <1>1, <1>3
  <1> HIDE DEF hit
  <1>6. QED
    BY <1>3, <1>4, <1>5 DEF found

LEMMA NothingFound ==
    ASSUME NEW recv, NEW decoded, NEW inRaw, NEW inDecoded, ~decoded.ok
    PROVE  FoundInBoth(recv, decoded, inRaw, inDecoded) = None
  BY DEF FoundInBoth

(* What the scan finds in each body is selected if the bytes are the same. *)
LEMMA OneFound ==
    ASSUME NEW recv, NEW decoded, decoded.ok, Before(recv) \in Nat,
           NEW S \in Nat \ {0}, NEW E \in Nat, NEW s, NEW e,
           SubSeq(raw_body(recv), S, E) = SubSeq(decoded.out, s, e),
           e \in Nat
    PROVE  FoundInBoth(recv, decoded, {[start |-> S, end |-> E + 1]},
                       {[start |-> s, end |-> e + 1]}) # None
  <1> DEFINE x == [start |-> S, end |-> E + 1]
             y == [start |-> s, end |-> e + 1]
             hits == {r \in {x} : \E d \in {y} :
                          SubSeq(raw_body(recv), r.start, r.end - 1)
                              = SubSeq(decoded.out, d.start, d.end - 1)}
             hit == CHOOSE r \in hits : TRUE
             found == FoundInBoth(recv, decoded, {x}, {y})
  <1>1. found = IF ~decoded.ok \/ hits = {} THEN None
                ELSE [start |-> hit.start + Before(recv), end |-> hit.end + Before(recv)]
    BY DEF FoundInBoth, require_contiguous, Before
  <1> HIDE DEF found
  <1>2. SubSeq(raw_body(recv), x.start, x.end - 1) = SubSeq(decoded.out, y.start, y.end - 1)
    <2>1. E + 1 - 1 = E /\ e + 1 - 1 = e
      OBVIOUS
    <2>2. x.start = S /\ x.end = E + 1 /\ y.start = s /\ y.end = e + 1
      OBVIOUS
    <2> HIDE DEF x, y
    <2>3. x.end - 1 = E /\ y.end - 1 = e
      BY <2>1, <2>2
    <2>4. x.start = S /\ y.start = s
      BY <2>2
    <2>5. SubSeq(raw_body(recv), S, E) = SubSeq(decoded.out, s, e)
      OBVIOUS
    <2>6. QED
      BY ONLY <2>3, <2>4, <2>5
  <1>3. x.start = S
    OBVIOUS
  <1> HIDE DEF x, y
  <1>4. hits = {x}
    BY <1>2
  <1>5. hit = x
    BY <1>4
  <1>6. found.start = S + Before(recv)
    <2>1. found = [start |-> hit.start + Before(recv), end |-> hit.end + Before(recv)]
      BY <1>1, <1>4
    <2>2. QED
      BY <1>3, <1>5, <2>1
  <1>7. S + Before(recv) # 0
    OBVIOUS
  <1>8. found # None
    BY <1>6, <1>7 DEF None
  <1>9. QED
    BY <1>8 DEF found, x, y

(* Of a prefix of the document the scans find members of the document. *)
LEMMA PrefixString ==
    ASSUME NEW doc \in Seq(Bytes), NEW n \in 0..Len(doc), NEW r \in in_body(SubSeq(doc, 1, n))
    PROVE  \E s, e \in 1..Len(doc) :
               /\ s <= e /\ r = [start |-> s, end |-> e + 1]
               /\ IsStringMember(SubSeq(doc, s, e))
  <1> DEFINE b == SubSeq(doc, 1, n)
  <1>1. n \in Nat /\ n <= Len(doc) /\ Len(doc) \in Nat
    OBVIOUS
  <1>2. b \in Seq(Bytes) /\ Len(b) = n /\ \A i \in 1..n : b[i] = doc[i]
    <2>1. /\ b \in Seq(Bytes) /\ Len(b) = IF 1 <= n THEN n - 1 + 1 ELSE 0
          /\ \A i \in 1..(n - 1 + 1) : b[i] = doc[1 + i - 1]
      BY <1>1, Slice, 1 \in Nat \ {0}
    <2> HIDE DEF b
    <2>2. n - 1 + 1 = n /\ (IF 1 <= n THEN n ELSE 0) = n /\ \A i \in 1..n : 1 + i - 1 = i
      BY <1>1
    <2>3. QED
      BY <2>1, <2>2
  <1> HIDE DEF b
  <1>3. PICK s, c, v, e : StringAt(b, s, c, v, e) /\ r = [start |-> s, end |-> e + 1]
    <2>1. r \in in_body(b)
      BY DEF b
    <2>2. QED
      BY <1>2, <2>1, StringFound
  <1>4. /\ s \in Nat \ {0} /\ e \in Nat /\ s <= e /\ e <= n
        /\ s \in 1..Len(doc) /\ e \in 1..Len(doc)
    <2>1. /\ s \in 1..(n - 2) /\ c \in (s + 3)..n /\ v \in (c + 1)..n
          /\ e \in (v + 1)..n
      BY <1>2, <1>3 DEF StringAt, Opening, ColonAt, KeyAt
    <2>2. QED
      BY <1>1, <2>1
  <1>5. Same(b, s, doc, s, e - s)
    <2>1. e - s \in Nat /\ s + (e - s) <= n /\ s + (e - s) <= Len(doc)
      BY <1>1, <1>4
    <2>2. \A i \in 0..(e - s) : s + i \in 1..n
      BY <1>1, <1>4
    <2>3. QED
      BY <1>2, <1>4, <2>1, <2>2 DEF Same
  <1>6. \E c0, v0 : StringAt(doc, s, c0, v0, e)
    <2>1. e <= s + (e - s) /\ (e - s) + s = e
      BY <1>4
    <2>2. StringAt(doc, s, (c - s) + s, (v - s) + s, (e - s) + s)
      BY <1>3, <1>5, <2>1, MoveString
    <2>3. QED
      BY <2>1, <2>2
  <1>7. IsStringMember(SubSeq(doc, s, e))
    BY <1>4, <1>6, StringMember
  <1>8. QED
    BY <1>3, <1>4, <1>7

LEMMA PrefixNumber ==
    ASSUME NEW doc \in Seq(Bytes), NEW n \in 0..Len(doc),
           NEW r \in find_json_bare_snippet_range(SubSeq(doc, 1, n))
    PROVE  \E s, e \in 1..Len(doc) :
               /\ s <= e /\ r = [start |-> s, end |-> e + 1]
               /\ IsNumberMember(SubSeq(doc, s, e))
  <1> DEFINE b == SubSeq(doc, 1, n)
  <1>1. n \in Nat /\ n <= Len(doc) /\ Len(doc) \in Nat
    OBVIOUS
  <1>2. b \in Seq(Bytes) /\ Len(b) = n /\ \A i \in 1..n : b[i] = doc[i]
    <2>1. /\ b \in Seq(Bytes) /\ Len(b) = IF 1 <= n THEN n - 1 + 1 ELSE 0
          /\ \A i \in 1..(n - 1 + 1) : b[i] = doc[1 + i - 1]
      BY <1>1, Slice, 1 \in Nat \ {0}
    <2> HIDE DEF b
    <2>2. n - 1 + 1 = n /\ (IF 1 <= n THEN n ELSE 0) = n /\ \A i \in 1..n : 1 + i - 1 = i
      BY <1>1
    <2>3. QED
      BY <2>1, <2>2
  <1> HIDE DEF b
  <1>3. PICK s, c, v, w, e : NumberAt(b, s, c, v, w, e) /\ r = [start |-> s, end |-> e + 1]
    <2>1. r \in find_json_bare_snippet_range(b)
      BY DEF b
    <2>2. QED
      BY <1>2, <2>1, NumberFound
  <1>4. /\ s \in Nat \ {0} /\ e \in Nat /\ s <= e /\ e <= n
        /\ s \in 1..Len(doc) /\ e \in 1..Len(doc)
    <2>1. /\ s \in Nat \ {0} /\ c \in Nat /\ v \in Nat /\ w \in Nat /\ e \in Nat
          /\ s + 3 <= c /\ c < v /\ v < w /\ w <= e /\ e <= n
      BY <1>2, <1>3, NumberPlaces
    <2>2. QED
      BY <1>1, <2>1
  <1>5. Same(b, s, doc, s, e - s)
    <2>1. e - s \in Nat /\ s + (e - s) <= n /\ s + (e - s) <= Len(doc)
      BY <1>1, <1>4
    <2>2. \A i \in 0..(e - s) : s + i \in 1..n
      BY <1>1, <1>4
    <2>3. QED
      BY <1>2, <1>4, <2>1, <2>2 DEF Same
  <1>6. \E c0, v0, w0 : NumberAt(doc, s, c0, v0, w0, e)
    <2>1. e <= s + (e - s) /\ (e - s) + s = e
      BY <1>4
    <2>2. NumberAt(doc, s, (c - s) + s, (v - s) + s, (w - s) + s, (e - s) + s)
      BY <1>3, <1>5, <2>1, MoveNumber
    <2>3. QED
      BY <2>1, <2>2
  <1>7. IsNumberMember(SubSeq(doc, s, e))
    BY <1>4, <1>6, NumberMember
  <1>8. QED
    BY <1>3, <1>4, <1>7

FieldOf(r) ==
    LET recv == Received(r)
        decoded == extract_response_body(recv, r.chunked)
    IN  FoundInBoth(recv, decoded, in_body(raw_body(recv)), in_body(decoded.out))

NumberOf(r) ==
    LET recv == Received(r)
        decoded == extract_response_body(recv, r.chunked)
    IN  FoundInBoth(recv, decoded, find_json_bare_snippet_range(raw_body(recv)),
                    find_json_bare_snippet_range(decoded.out))

(* The places of a member in the transcript. *)
LEMMA Placed ==
    ASSUME response \in Responses, NEW s \in 1..Len(Doc), NEW e \in 1..Len(Doc), s <= e
    PROVE  LET H == Len(response.head)
               ends == EndsOf(response)
           IN  /\ response.chunked =>
                      /\ Place(s) = H + At(ends, s) /\ Place(e) = H + At(ends, e)
                      /\ Unsplit(s, e) <=> Joined(ends, s, e)
               /\ ~response.chunked =>
                      Place(s) = H + s /\ Place(e) = H + e /\ Unsplit(s, e)
  <1> DEFINE H == Len(response.head)
             ends == EndsOf(response)
  <1>1. H \in Nat /\ Len(Doc) \in Nat /\ IsCut(Doc, ends) /\ s \in Nat /\ e \in Nat
    BY OfAResponse DEF Doc
  <1>2. ASSUME NEW k \in 1..Len(Doc)
        PROVE  Chunk(k) = Ahead(ends, k) + 1 /\ Ahead(ends, k) \in Nat
    <2>1. {c \in response.cuts : c < k} = {c \in ends : c < k}
      <3>1. ~(Len(response.doc) < k)
        BY <1>1 DEF Doc
      <3>2. QED
        BY <3>1 DEF EndsOf
    <2>2. Ahead(ends, k) \in Nat
      BY <1>1, EndsAhead, k \in Nat, k <= k
    <2>3. QED
      BY <2>1, <2>2 DEF Chunk, Ahead
  <1> HIDE DEF H, ends
  <1>3. ASSUME response.chunked, NEW k \in 1..Len(Doc)
        PROVE  Place(k) = H + At(ends, k)
    <2>1. PICK a \in Nat : a = Ahead(ends, k)
      BY <1>2
    <2>2. Place(k) = H + k + (3 * (a + 1) + 2 * (a + 1 - 1))
      BY <1>2, <1>3, <2>1 DEF Place, H
    <2>3. At(ends, k) = k + 3 + 5 * a
      BY <2>1 DEF At
    <2>4. k \in Nat
      BY <1>1
    <2>5. H + k + (3 * (a + 1) + 2 * (a + 1 - 1)) = H + (k + 3 + 5 * a)
      BY <1>1, <2>4
    <2>6. QED
      BY <2>2, <2>3, <2>5
  <1>4. ASSUME response.chunked
        PROVE  Unsplit(s, e) <=> Joined(ends, s, e)
    <2>1. Unsplit(s, e) <=> Ahead(ends, s) = Ahead(ends, e)
      <3>1. Unsplit(s, e) <=> Ahead(ends, s) + 1 = Ahead(ends, e) + 1
        BY <1>2, <1>4 DEF Unsplit
      <3>2. PICK a \in Nat, b \in Nat : a = Ahead(ends, s) /\ b = Ahead(ends, e)
        BY <1>2
      <3>3. a + 1 = b + 1 <=> a = b
        OBVIOUS
      <3>4. QED
        BY <3>1, <3>2, <3>3
    <2>2. /\ (\A c \in ends : ~(s <= c /\ c < e)) => Ahead(ends, s) = Ahead(ends, e)
          /\ (\E c \in ends : s <= c /\ c < e) => Ahead(ends, s) + 1 <= Ahead(ends, e)
      BY <1>1, EndsAhead
    <2>3. \A a \in Nat : ~(a + 1 <= a)
      OBVIOUS
    <2>4. Ahead(ends, s) \in Nat
      BY <1>2
    <2>5. QED
      BY <2>1, <2>2, <2>3, <2>4 DEF Joined
  <1>5. ASSUME ~response.chunked, NEW k \in 1..Len(Doc)
        PROVE  Place(k) = H + k
    <2>1. Place(k) = H + k + 0
      BY <1>5 DEF Place, H
    <2>2. k \in Nat
      BY <1>1
    <2>3. QED
      BY <1>1, <2>1, <2>2
  <1>6. ~response.chunked => Unsplit(s, e)
    BY DEF Unsplit
  <1>7. QED
    BY <1>3, <1>4, <1>5, <1>6 DEF H, ends

(* A string the scans select. *)
LEMMA FieldIsWhole ==
    ASSUME response \in Responses, FieldOf(response) # None
    PROVE  \E se \in Members(IsStringMember) :
               /\ Unsplit(se[1], se[2])
               /\ FieldOf(response) = [start |-> Place(se[1]), end |-> Place(se[2]) + 1]
  <1> DEFINE recv == Received(response)
             decoded == extract_response_body(recv, response.chunked)
             raw == raw_body(recv)
             H == Len(response.head)
             ends == EndsOf(response)
             found == FieldOf(response)
  <1>1. /\ H \in Nat /\ Doc \in Seq(Bytes) /\ Len(Doc) \in Nat /\ IsJSON(Doc) /\ IsCut(Doc, ends)
        /\ response.chunked \in BOOLEAN
    BY OfAResponse DEF Doc
  <1>2. PICK r \in in_body(raw), d \in in_body(decoded.out) :
            /\ SubSeq(raw, r.start, r.end - 1) = SubSeq(decoded.out, d.start, d.end - 1)
            /\ found = [start |-> r.start + Before(recv), end |-> r.end + Before(recv)]
    BY FoundIs DEF FieldOf
  <1>3. decoded.ok
    BY FoundIs DEF FieldOf
  <1> SUFFICES \E s, e \in 1..Len(Doc) :
                   /\ s <= e /\ IsStringMember(SubSeq(Doc, s, e)) /\ Unsplit(s, e)
                   /\ found = [start |-> Place(s), end |-> Place(e) + 1]
    <2>1. PICK s \in 1..Len(Doc), e \in 1..Len(Doc) :
              /\ IsStringMember(SubSeq(Doc, s, e)) /\ Unsplit(s, e)
              /\ found = [start |-> Place(s), end |-> Place(e) + 1]
      OBVIOUS
    <2>2. Members(IsStringMember)
              = {se \in (1..Len(Doc)) \X (1..Len(Doc)) : IsStringMember(Text(se[1], se[2]))}
      BY DEF Members
    <2>3. <<s, e>> \in Members(IsStringMember)
      BY <2>1, <2>2 DEF Text
    <2> HIDE DEF found
    <2>4. QED
      BY <2>1, <2>3 DEF found
  <1>4. CASE response.chunked
    <2>1. Before(recv) = H /\ Framing(raw, Doc, ends) /\ decoded.out = Doc
      <3>1. /\ find_response_body_range(recv) = H + 1
            /\ Framing(raw, Doc, ends) /\ decoded.out = Doc
        BY <1>3, <1>4, ArrivedChunked DEF Doc
      <3>2. H + 1 - 1 = H
        BY <1>1
      <3>3. QED
        BY <3>1, <3>2 DEF Before
    <2> HIDE DEF raw, decoded, recv, found, ends, H
    <2>2. d \in in_body(Doc)
          /\ SubSeq(raw, r.start, r.end - 1) = SubSeq(Doc, d.start, d.end - 1)
      BY <1>2, <2>1
    <2>3. PICK s \in 1..Len(Doc), e \in 1..Len(Doc) :
              /\ s <= e /\ Joined(ends, s, e) /\ Places(r, ends, s, e)
              /\ IsStringMember(SubSeq(Doc, s, e))
      BY <1>1, <2>1, <2>2, StringsAreWhole, ZenonT(60)
    <2>4. Unsplit(s, e) /\ Place(s) = H + At(ends, s) /\ Place(e) = H + At(ends, e)
      BY <1>4, <2>3, Placed DEF H, ends
    <2>5. At(ends, s) \in Nat /\ At(ends, e) \in Nat
      BY <1>1, <2>3, PlacesRise, s \in Nat, e \in Nat
    <2>6. found = [start |-> At(ends, s) + H, end |-> At(ends, e) + 1 + H]
      BY <1>2, <2>1, <2>3 DEF Places
    <2>7. At(ends, s) + H = H + At(ends, s) /\ At(ends, e) + 1 + H = H + At(ends, e) + 1
      BY <1>1, <2>5
    <2>8. found = [start |-> Place(s), end |-> Place(e) + 1]
      BY <2>4, <2>6, <2>7
    <2>9. QED
      BY <2>3, <2>4, <2>8
  <1>5. CASE ~response.chunked
    <2>1. Before(recv) = H /\ \E n \in 0..Len(Doc) : raw = SubSeq(Doc, 1, n)
      <3>1. /\ find_response_body_range(recv) = H + 1
            /\ \E n \in 0..Len(Doc) : raw = SubSeq(Doc, 1, n)
        BY <1>3, <1>5, ArrivedPlain DEF Doc
      <3>2. H + 1 - 1 = H
        BY <1>1
      <3>3. QED
        BY <3>1, <3>2 DEF Before
    <2> HIDE DEF raw, decoded, recv, found, H
    <2>2. PICK s \in 1..Len(Doc), e \in 1..Len(Doc) :
              /\ s <= e /\ r = [start |-> s, end |-> e + 1]
              /\ IsStringMember(SubSeq(Doc, s, e))
      BY <1>1, <1>2, <2>1, PrefixString
    <2>3. Unsplit(s, e) /\ Place(s) = H + s /\ Place(e) = H + e
      BY <1>5, <2>2, Placed DEF H
    <2>4. found = [start |-> s + H, end |-> e + 1 + H]
      BY <1>2, <2>1, <2>2
    <2>5. s + H = H + s /\ e + 1 + H = H + e + 1
      BY <1>1
    <2>6. found = [start |-> Place(s), end |-> Place(e) + 1]
      BY <2>3, <2>4, <2>5
    <2>7. QED
      BY <2>2, <2>3, <2>6
  <1>6. QED
    BY <1>1, <1>4, <1>5

(* A number the scans select. *)
LEMMA NumberIsWhole ==
    ASSUME response \in Responses, NumberOf(response) # None
    PROVE  \E se \in Members(IsNumberMember) :
               /\ Unsplit(se[1], se[2])
               /\ NumberOf(response) = [start |-> Place(se[1]), end |-> Place(se[2]) + 1]
  <1> DEFINE recv == Received(response)
             decoded == extract_response_body(recv, response.chunked)
             raw == raw_body(recv)
             H == Len(response.head)
             ends == EndsOf(response)
             found == NumberOf(response)
  <1>1. /\ H \in Nat /\ Doc \in Seq(Bytes) /\ Len(Doc) \in Nat /\ IsJSON(Doc) /\ IsCut(Doc, ends)
        /\ response.chunked \in BOOLEAN
    BY OfAResponse DEF Doc
  <1>2. PICK r \in find_json_bare_snippet_range(raw) :
            found = [start |-> r.start + Before(recv), end |-> r.end + Before(recv)]
    BY FoundIs DEF NumberOf
  <1>3. decoded.ok
    BY FoundIs DEF NumberOf
  <1> SUFFICES \E s, e \in 1..Len(Doc) :
                   /\ s <= e /\ IsNumberMember(SubSeq(Doc, s, e)) /\ Unsplit(s, e)
                   /\ found = [start |-> Place(s), end |-> Place(e) + 1]
    <2>1. PICK s \in 1..Len(Doc), e \in 1..Len(Doc) :
              /\ IsNumberMember(SubSeq(Doc, s, e)) /\ Unsplit(s, e)
              /\ found = [start |-> Place(s), end |-> Place(e) + 1]
      OBVIOUS
    <2>2. Members(IsNumberMember)
              = {se \in (1..Len(Doc)) \X (1..Len(Doc)) : IsNumberMember(Text(se[1], se[2]))}
      BY DEF Members
    <2>3. <<s, e>> \in Members(IsNumberMember)
      BY <2>1, <2>2 DEF Text
    <2> HIDE DEF found
    <2>4. QED
      BY <2>1, <2>3 DEF found
  <1>4. CASE response.chunked
    <2>1. Before(recv) = H /\ Framing(raw, Doc, ends) /\ decoded.out = Doc
      <3>1. /\ find_response_body_range(recv) = H + 1
            /\ Framing(raw, Doc, ends) /\ decoded.out = Doc
        BY <1>3, <1>4, ArrivedChunked DEF Doc
      <3>2. H + 1 - 1 = H
        BY <1>1
      <3>3. QED
        BY <3>1, <3>2 DEF Before
    <2> HIDE DEF raw, decoded, recv, found, ends, H
    <2>2. PICK s \in 1..Len(Doc), e \in 1..Len(Doc) :
              /\ s <= e /\ Joined(ends, s, e) /\ Places(r, ends, s, e)
              /\ IsNumberMember(SubSeq(Doc, s, e))
      BY <1>1, <2>1, NumbersAreWhole
    <2>3. Unsplit(s, e) /\ Place(s) = H + At(ends, s) /\ Place(e) = H + At(ends, e)
      BY <1>4, <2>2, Placed DEF H, ends
    <2>4. At(ends, s) \in Nat /\ At(ends, e) \in Nat
      BY <1>1, <2>2, PlacesRise, s \in Nat, e \in Nat
    <2>5. found = [start |-> At(ends, s) + H, end |-> At(ends, e) + 1 + H]
      BY <1>2, <2>1, <2>2 DEF Places
    <2>6. At(ends, s) + H = H + At(ends, s) /\ At(ends, e) + 1 + H = H + At(ends, e) + 1
      BY <1>1, <2>4
    <2>7. found = [start |-> Place(s), end |-> Place(e) + 1]
      BY <2>3, <2>5, <2>6
    <2>8. QED
      BY <2>2, <2>3, <2>7
  <1>5. CASE ~response.chunked
    <2>1. Before(recv) = H /\ \E n \in 0..Len(Doc) : raw = SubSeq(Doc, 1, n)
      <3>1. /\ find_response_body_range(recv) = H + 1
            /\ \E n \in 0..Len(Doc) : raw = SubSeq(Doc, 1, n)
        BY <1>3, <1>5, ArrivedPlain DEF Doc
      <3>2. H + 1 - 1 = H
        BY <1>1
      <3>3. QED
        BY <3>1, <3>2 DEF Before
    <2> HIDE DEF raw, decoded, recv, found, H
    <2>2. PICK s \in 1..Len(Doc), e \in 1..Len(Doc) :
              /\ s <= e /\ r = [start |-> s, end |-> e + 1]
              /\ IsNumberMember(SubSeq(Doc, s, e))
      BY <1>1, <1>2, <2>1, PrefixNumber
    <2>3. Unsplit(s, e) /\ Place(s) = H + s /\ Place(e) = H + e
      BY <1>5, <2>2, Placed DEF H
    <2>4. found = [start |-> s + H, end |-> e + 1 + H]
      BY <1>2, <2>1, <2>2
    <2>5. s + H = H + s /\ e + 1 + H = H + e + 1
      BY <1>1
    <2>6. found = [start |-> Place(s), end |-> Place(e) + 1]
      BY <2>3, <2>4, <2>5
    <2>7. QED
      BY <2>2, <2>3, <2>6
  <1>6. QED
    BY <1>1, <1>4, <1>5

Arrives(r) == r.arrived >= Len(r.head \o Framed(r.doc, r.cuts))

(* The first string of a response that arrived is selected unless a chunk ends in it. *)
LEMMA FieldIsFound ==
    ASSUME response \in Responses, Arrives(response),
           NEW s \in 1..Len(Doc), NEW e \in 1..Len(Doc), IsStringMember(SubSeq(Doc, s, e)),
           NoStringAhead(Doc, s), Unsplit(s, e)
    PROVE  FieldOf(response) # None
  <1> DEFINE recv == Received(response)
             decoded == extract_response_body(recv, response.chunked)
             raw == raw_body(recv)
             H == Len(response.head)
             ends == EndsOf(response)
  <1>1. /\ H \in Nat /\ Doc \in Seq(Bytes) /\ Len(Doc) \in Nat /\ IsCut(Doc, ends)
        /\ response.chunked \in BOOLEAN /\ s \in Nat \ {0} /\ e \in Nat
    BY OfAResponse DEF Doc
  <1>2. in_body(Doc) = {[start |-> s, end |-> e + 1]} /\ s <= e
    BY <1>1, DocString DEF NoStringAhead
  <1>3. CASE response.chunked
    <2>1. /\ decoded.ok /\ Before(recv) = H /\ Framing(raw, Doc, ends) /\ decoded.out = Doc
      <3>1. decoded.ok
        BY <1>3, ArrivedChunked DEF Arrives
      <3>2. /\ find_response_body_range(recv) = H + 1
            /\ Framing(raw, Doc, ends) /\ decoded.out = Doc
        BY <1>3, <3>1, ArrivedChunked DEF Doc
      <3>3. H + 1 - 1 = H
        BY <1>1
      <3>4. QED
        BY <3>1, <3>2, <3>3 DEF Before
    <2>2. Joined(ends, s, e)
      BY <1>2, <1>3, Placed
    <2> HIDE DEF raw, decoded, recv, ends, H
    <2>3. FoundThere(in_body(raw), raw, Doc, ends, s, e)
      BY <1>1, <2>1, <2>2, StringsAreFound
    <2>4. PICK S \in Nat \ {0}, E \in Nat : S = At(ends, s) /\ E = At(ends, e)
      <3>1. /\ At(ends, s) \in Nat /\ At(ends, e) \in Nat /\ At(ends, s) >= s + 3
        BY <1>1, <1>2, PlacesRise
      <3>2. PICK n \in Nat : n = At(ends, s)
        BY <3>1
      <3>3. n >= s + 3
        BY <3>1, <3>2
      <3>4. n # 0
        BY <1>1, <3>3
      <3>5. QED
        BY <3>1, <3>2, <3>4
    <2>5. FoundInBoth(recv, decoded, {[start |-> S, end |-> E + 1]},
                      {[start |-> s, end |-> e + 1]}) # None
      <3>1. SubSeq(raw_body(recv), S, E) = SubSeq(decoded.out, s, e)
        BY <2>1, <2>3, <2>4 DEF raw, FoundThere
      <3>2. decoded.ok /\ Before(recv) \in Nat
        BY <1>1, <2>1
      <3>3. QED
        BY <1>1, <3>1, <3>2, OneFound
    <2>6. FoundInBoth(recv, decoded, in_body(raw), in_body(decoded.out)) # None
      BY <1>2, <2>1, <2>3, <2>4, <2>5 DEF FoundThere
    <2>7. QED
      BY <2>6 DEF FieldOf, recv, decoded, raw
  <1>4. CASE ~response.chunked
    <2>1. decoded.ok /\ Before(recv) = H /\ raw = Doc /\ decoded.out = Doc
      <3>1. decoded.ok /\ raw = Doc
        BY <1>4, ArrivedPlain DEF Arrives, Doc
      <3>2. find_response_body_range(recv) = H + 1 /\ decoded.out = raw
        BY <1>4, <3>1, ArrivedPlain
      <3>3. H + 1 - 1 = H
        BY <1>1
      <3>4. QED
        BY <3>1, <3>2, <3>3 DEF Before
    <2> HIDE DEF raw, decoded, recv, H
    <2>2. FoundInBoth(recv, decoded, {[start |-> s, end |-> e + 1]},
                      {[start |-> s, end |-> e + 1]}) # None
      <3>1. SubSeq(raw_body(recv), s, e) = SubSeq(decoded.out, s, e)
        BY <2>1 DEF raw
      <3>2. decoded.ok /\ Before(recv) \in Nat
        BY <1>1, <2>1
      <3>3. QED
        BY <1>1, <3>1, <3>2, OneFound
    <2>3. FoundInBoth(recv, decoded, in_body(raw), in_body(decoded.out)) # None
      BY <1>2, <2>1, <2>2
    <2>4. QED
      BY <2>3 DEF FieldOf, recv, decoded, raw
  <1>5. QED
    BY <1>1, <1>3, <1>4

(* So is a number that no key is ahead of. *)
LEMMA NumberIsFound ==
    ASSUME response \in Responses, Arrives(response),
           NEW s \in 1..Len(Doc), NEW e \in 1..Len(Doc), IsNumberMember(SubSeq(Doc, s, e)),
           NoKeyAhead(Doc, s), Unsplit(s, e)
    PROVE  NumberOf(response) # None
  <1> DEFINE recv == Received(response)
             decoded == extract_response_body(recv, response.chunked)
             raw == raw_body(recv)
             H == Len(response.head)
             ends == EndsOf(response)
  <1>1. /\ H \in Nat /\ Doc \in Seq(Bytes) /\ Len(Doc) \in Nat /\ IsCut(Doc, ends)
        /\ response.chunked \in BOOLEAN /\ s \in Nat \ {0} /\ e \in Nat
    BY OfAResponse DEF Doc
  <1>2. find_json_bare_snippet_range(Doc) = {[start |-> s, end |-> e + 1]} /\ s <= e
    BY <1>1, DocNumber DEF NoKeyAhead
  <1>3. CASE response.chunked
    <2>1. /\ decoded.ok /\ Before(recv) = H /\ Framing(raw, Doc, ends) /\ decoded.out = Doc
      <3>1. decoded.ok
        BY <1>3, ArrivedChunked DEF Arrives
      <3>2. /\ find_response_body_range(recv) = H + 1
            /\ Framing(raw, Doc, ends) /\ decoded.out = Doc
        BY <1>3, <3>1, ArrivedChunked DEF Doc
      <3>3. H + 1 - 1 = H
        BY <1>1
      <3>4. QED
        BY <3>1, <3>2, <3>3 DEF Before
    <2>2. Joined(ends, s, e)
      BY <1>2, <1>3, Placed
    <2> HIDE DEF raw, decoded, recv, ends, H
    <2>3. FoundThere(find_json_bare_snippet_range(raw), raw, Doc, ends, s, e)
      BY <1>1, <2>1, <2>2, NumbersAreFound
    <2>4. PICK S \in Nat \ {0}, E \in Nat : S = At(ends, s) /\ E = At(ends, e)
      <3>1. /\ At(ends, s) \in Nat /\ At(ends, e) \in Nat /\ At(ends, s) >= s + 3
        BY <1>1, <1>2, PlacesRise
      <3>2. PICK n \in Nat : n = At(ends, s)
        BY <3>1
      <3>3. n >= s + 3
        BY <3>1, <3>2
      <3>4. n # 0
        BY <1>1, <3>3
      <3>5. QED
        BY <3>1, <3>2, <3>4
    <2>5. FoundInBoth(recv, decoded, {[start |-> S, end |-> E + 1]},
                      {[start |-> s, end |-> e + 1]}) # None
      <3>1. SubSeq(raw_body(recv), S, E) = SubSeq(decoded.out, s, e)
        BY <2>1, <2>3, <2>4 DEF raw, FoundThere
      <3>2. decoded.ok /\ Before(recv) \in Nat
        BY <1>1, <2>1
      <3>3. QED
        BY <1>1, <3>1, <3>2, OneFound
    <2>6. FoundInBoth(recv, decoded, find_json_bare_snippet_range(raw),
                      find_json_bare_snippet_range(decoded.out)) # None
      BY <1>2, <2>1, <2>3, <2>4, <2>5 DEF FoundThere
    <2>7. QED
      BY <2>6 DEF NumberOf, recv, decoded, raw
  <1>4. CASE ~response.chunked
    <2>1. decoded.ok /\ Before(recv) = H /\ raw = Doc /\ decoded.out = Doc
      <3>1. decoded.ok /\ raw = Doc
        BY <1>4, ArrivedPlain DEF Arrives, Doc
      <3>2. find_response_body_range(recv) = H + 1 /\ decoded.out = raw
        BY <1>4, <3>1, ArrivedPlain
      <3>3. H + 1 - 1 = H
        BY <1>1
      <3>4. QED
        BY <3>1, <3>2, <3>3 DEF Before
    <2> HIDE DEF raw, decoded, recv, H
    <2>2. FoundInBoth(recv, decoded, {[start |-> s, end |-> e + 1]},
                      {[start |-> s, end |-> e + 1]}) # None
      <3>1. SubSeq(raw_body(recv), s, e) = SubSeq(decoded.out, s, e)
        BY <2>1 DEF raw
      <3>2. decoded.ok /\ Before(recv) \in Nat
        BY <1>1, <2>1
      <3>3. QED
        BY <1>1, <3>1, <3>2, OneFound
    <2>3. FoundInBoth(recv, decoded, find_json_bare_snippet_range(raw),
                      find_json_bare_snippet_range(decoded.out)) # None
      BY <1>2, <2>1, <2>2
    <2>4. QED
      BY <2>3 DEF NumberOf, recv, decoded, raw
  <1>5. QED
    BY <1>1, <1>3, <1>4

(* Nothing is selected of a chunked body that was cut short. *)
LEMMA CutShort ==
    ASSUME response \in Responses, response.chunked,
           response.arrived < Len(response.head \o Framed(Doc, response.cuts)) - 2
    PROVE  FieldOf(response) = None /\ NumberOf(response) = None
  <1>1. ~extract_response_body(Received(response), response.chunked).ok
    BY ArrivedChunked DEF Doc
  <1>2. QED
    BY <1>1, NothingFound DEF FieldOf, NumberOf

-----------------------------------------------------------------------------
(* The scans of a response depend on nothing but the response.             *)

Scanned ==
    /\ response \in Responses
    /\ field \in {Pending, FieldOf(response)}
    /\ number \in {Pending, NumberOf(response)}

LEMMA InitScanned == Init => Scanned
  BY DEF Init, Scanned

LEMMA NextScanned == Scanned /\ [Next]_vars => Scanned'
  <1> SUFFICES ASSUME Scanned, [Next]_vars
               PROVE  Scanned'
    OBVIOUS
  <1>1. CASE in_response
    BY <1>1 DEF in_response, Scanned, FieldOf
  <1>2. CASE compute_id_snippet_range
    BY <1>2 DEF compute_id_snippet_range, Scanned, NumberOf
  <1>3. CASE Returned
    BY <1>3 DEF Returned, Scanned, vars
  <1>4. CASE UNCHANGED vars
    BY <1>4 DEF Scanned, vars
  <1>5. QED
    BY <1>1, <1>2, <1>3, <1>4 DEF Next

LEMMA AlwaysScanned == Spec => []Scanned
  BY InitScanned, NextScanned, PTL DEF Spec

(* For every response a server can send, whatever chunks it is cut into and however
   much of it arrived: a range that JsonMember::in_response or
   compute_id_snippet_range returns is that of a whole member of the document, in one
   chunk (ranges.rs 204-229, 272-287). *)
THEOREM RangesWhole == Spec => []RangesAreWholeMembers
  <1>1. Scanned => RangesAreWholeMembers
    <2> SUFFICES ASSUME Scanned
                 PROVE  RangesAreWholeMembers
      OBVIOUS
    <2>1. ASSUME field \notin {Pending, None}
          PROVE  \E se \in Members(IsStringMember) :
                     /\ Unsplit(se[1], se[2])
                     /\ field = [start |-> Place(se[1]), end |-> Place(se[2]) + 1]
      <3>1. response \in Responses /\ field = FieldOf(response) /\ FieldOf(response) # None
        BY <2>1 DEF Scanned
      <3>2. QED
        BY <3>1, FieldIsWhole
    <2>2. ASSUME number \notin {Pending, None}
          PROVE  \E se \in Members(IsNumberMember) :
                     /\ Unsplit(se[1], se[2])
                     /\ number = [start |-> Place(se[1]), end |-> Place(se[2]) + 1]
      <3>1. response \in Responses /\ number = NumberOf(response)
            /\ NumberOf(response) # None
        BY <2>2 DEF Scanned
      <3>2. QED
        BY <3>1, NumberIsWhole
    <2>3. QED
      BY <2>1, <2>2 DEF RangesAreWholeMembers
  <1>2. QED
    BY <1>1, AlwaysScanned, PTL

(* For every response that arrived: the refusal of a member split between chunks
   refuses no member that is not, so the first string and the first number can be
   revealed however the server cuts the rest (ranges.rs 204-229). *)
THEOREM UnsplitFound == Spec => []UnsplitMemberIsFound
  <1>1. Scanned => UnsplitMemberIsFound
    <2> SUFFICES ASSUME Scanned
                 PROVE  UnsplitMemberIsFound
      OBVIOUS
    <2>1. Pending # None
      <3>1. Pending.start = 1 /\ None.start = 0
        BY DEF Pending, None
      <3>2. QED
        BY <3>1
    <2>2. Complete <=> Arrives(response)
      BY DEF Complete, Arrives, Doc
    <2>3. ASSUME field = None, Complete, NEW se \in Members(IsStringMember),
                 \A other \in Members(IsStringMember) : se[1] <= other[1],
                 Unsplit(se[1], se[2])
          PROVE  FALSE
      <3>1. Members(IsStringMember)
                = {m \in (1..Len(Doc)) \X (1..Len(Doc)) : IsStringMember(Text(m[1], m[2]))}
        BY DEF Members
      <3>2. /\ se[1] \in 1..Len(Doc) /\ se[2] \in 1..Len(Doc)
            /\ IsStringMember(SubSeq(Doc, se[1], se[2]))
        BY <2>3, <3>1 DEF Text
      <3>3. NoStringAhead(Doc, se[1])
        <4> SUFFICES ASSUME NEW z \in 1..Len(Doc), NEW y \in 1..Len(Doc),
                            IsStringMember(SubSeq(Doc, z, y))
                     PROVE  se[1] <= z
          BY DEF NoStringAhead
        <4>1. <<z, y>> \in Members(IsStringMember)
          BY <3>1 DEF Text
        <4>2. QED
          BY <2>3, <4>1
      <3>4. field = FieldOf(response)
        BY <2>1, <2>3 DEF Scanned
      <3>5. FieldOf(response) # None
        BY <2>2, <2>3, <3>2, <3>3, FieldIsFound DEF Scanned
      <3>6. QED
        BY <2>3, <3>4, <3>5
    <2>4. ASSUME number = None, Complete, NEW se \in Members(IsNumberMember),
                 \A s \in 1..(se[1] - 1) : Text(s, s + 2) # Key,
                 Unsplit(se[1], se[2])
          PROVE  FALSE
      <3>1. Members(IsNumberMember)
                = {m \in (1..Len(Doc)) \X (1..Len(Doc)) : IsNumberMember(Text(m[1], m[2]))}
        BY DEF Members
      <3>2. /\ se[1] \in 1..Len(Doc) /\ se[2] \in 1..Len(Doc)
            /\ IsNumberMember(SubSeq(Doc, se[1], se[2]))
        BY <2>4, <3>1 DEF Text
      <3>3. NoKeyAhead(Doc, se[1])
        BY <2>4 DEF NoKeyAhead, Text
      <3>4. number = NumberOf(response)
        BY <2>1, <2>4 DEF Scanned
      <3>5. NumberOf(response) # None
        BY <2>2, <2>4, <3>2, <3>3, NumberIsFound DEF Scanned
      <3>6. QED
        BY <2>4, <3>4, <3>5
    <2>5. QED
      BY <2>3, <2>4 DEF UnsplitMemberIsFound
  <1>2. QED
    BY <1>1, AlwaysScanned, PTL

(* For every response: decode_chunked_body takes a body cut short for an error, and
   no scan selects anything of it (ranges.rs 78-81). *)
THEOREM TruncatedYieldsNothing == Spec => []TruncatedBodyYieldsNothing
  <1>1. Scanned => TruncatedBodyYieldsNothing
    BY CutShort DEF Scanned, TruncatedBodyYieldsNothing
  <1>2. QED
    BY <1>1, AlwaysScanned, PTL
=============================================================================
