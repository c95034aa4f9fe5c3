----------------------------- MODULE WireProofs -----------------------------
(***************************************************************************)
(* Proofs about Wire, for every size of a message and of a prefix, any     *)
(* number of messages, and a stream cut or a write dropped anywhere.       *)
(***************************************************************************)
EXTENDS Wire, TLAPS

Bound == PrefixLen + MaxPrefix

Byte == [msg : Nat, byte : Nat]

\* The bytes handed to the stream, and the place before the first of them.
Handed == {b \in [msg : 1..Len(at), byte : 1..Bound] : b.byte <= at[b.msg]}
Origin == [msg |-> 0, byte |-> 0]
Places == Handed \cup {Origin}

\* A message has a prefix's and its own bytes at most, and none at all when its
\* length fits no prefix.
WriterInv ==
    /\ size \in Seq(Nat \ {0}) /\ at \in Seq(Nat) /\ Len(at) = Len(size)
    /\ result \in Seq({"ok", "err", "dropped"})
    /\ Len(result) \in {Len(size), Len(size) - 1}
    /\ Writing => size[Last] <= MaxPrefix
    /\ \A m \in 1..Len(at) : at[m] <= PrefixLen + size[m] /\ at[m] <= Bound

ReaderInv ==
    /\ stream \in Seq(Byte) /\ buf \in Seq(Byte)
    /\ \A k \in 1..Len(stream) : stream[k] \in Handed
    /\ \A k \in 1..Len(buf) : buf[k] \in Handed
    /\ want \in 0..MAX_MSG_SIZE /\ Len(buf) <= Need
    /\ got \in Seq(Nat) /\ \A k \in 1..Len(got) : got[k] <= Len(at)

\* In what follows w counts the bytes handed over of each message, as at does;
\* b and s are what read_exact has and what is on its way.

\* No byte of the messages after m, up to n, was handed over.
Unwritten(w, m, n) == \A j \in (m + 1)..n : w[j] = 0

\* y is the byte handed over right after x.
Follows(w, x, y) ==
    \/ y.msg = x.msg /\ y.byte = x.byte + 1
    \/ x.msg < y.msg /\ y.byte = 1 /\ Unwritten(w, x.msg, y.msg - 1)

\* x is the last byte handed over.
Frontier(w, x) == (x.msg # 0 => x.byte = w[x.msg]) /\ Unwritten(w, x.msg, Len(w))

\* The bytes not yet taken, after c, which came before them.
Nth(b, s, c, k) ==
    IF k = 0 THEN c ELSE IF k <= Len(b) THEN b[k] ELSE s[k - Len(b)]

\* They come in the order in which they were handed over, none left out.
Chain(w, b, s, c) ==
    /\ \A k \in 1..(Len(b) + Len(s)) : Follows(w, Nth(b, s, c, k - 1), Nth(b, s, c, k))
    /\ Frontier(w, Nth(b, s, c, Len(b) + Len(s)))

LastGot == IF got = <<>> THEN 0 ELSE got[Len(got)]

\* The first bytes of one message, or, once torn, behind their place in the prefix.
Prefixes(b, k) ==
    \/ \A j \in 1..k : b[j] = [msg |-> b[1].msg, byte |-> j]
    \/ b[k].byte < k

\* A prefix is read from a message's first byte on; a body after its message's
\* whole prefix, or after a torn one, short of where any body begins.
InStep(c) ==
    IF want = 0
    THEN /\ c.msg = LastGot
         /\ c.msg # 0 => c.byte = PrefixLen + size[c.msg]
         /\ \A k \in 1..Len(buf) : Prefixes(buf, k)
    ELSE \/ c.byte < PrefixLen
         \/ /\ c.byte = PrefixLen /\ want = size[c.msg]
            /\ LastGot < c.msg /\ Unwritten(at, LastGot, c.msg - 1)

Reading == ~Failed => \E c \in Places : Chain(at, buf, stream, c) /\ InStep(c)

WireInv == WriterInv /\ ReaderInv /\ Reading /\ ReadsAreWritesInOrder

-----------------------------------------------------------------------------
(* Types.                                                                  *)

(* What a byte written changes: the count of its message, by one. *)
LEMMA ByteHanded ==
    ASSUME WriterInv, WriteByte
    PROVE  /\ at' \in Seq(Nat) /\ Len(at') = Len(at) /\ at'[Last] = at[Last] + 1
           /\ at[Last] < PrefixLen + size[Last] /\ Last = Len(at) /\ Last \in 1..Len(at)
           /\ \A m \in 1..Len(at) : m # Last => at'[m] = at[m]
  <1>1. Len(size) \in Nat /\ Len(result) \in Nat /\ Len(size) > Len(result)
    BY DEF WriteByte, Writing, WriterInv
  <1>2. Last = Len(at) /\ Last \in 1..Len(at)
    BY <1>1 DEF Last, WriterInv
  <1>3. at \in Seq(Nat) /\ at[Last] \in Nat /\ at' = [at EXCEPT ![Last] = at[Last] + 1]
    BY <1>2 DEF WriteByte, WriterInv
  <1>4. QED
    BY <1>2, <1>3 DEF WriteByte

(* The writer's bookkeeping: one message is written at a time, and the stream
   is handed at most a prefix and the message, or nothing (wire.rs 57-69). *)
LEMMA WriterStep == WriterInv /\ [Next]_vars => WriterInv'
  <1> USE WireAssumption
  <1> SUFFICES ASSUME WriterInv, [Next]_vars PROVE WriterInv'
    OBVIOUS
  <1>1. ASSUME NEW n \in Sizes, BeginWrite(n) PROVE WriterInv'
    <2>1. n \in Nat \ {0} /\ Len(result) = Len(size)
      BY <1>1 DEF BeginWrite, Writing, WriterInv
    <2>2. /\ size' \in Seq(Nat \ {0}) /\ Len(size') = Len(size) + 1
          /\ size'[Len(size) + 1] = n
          /\ \A m \in 1..Len(size) : size'[m] = size[m]
      BY <1>1, <2>1 DEF BeginWrite, WriterInv
    <2>3. /\ at' \in Seq(Nat) /\ Len(at') = Len(size) + 1 /\ at'[Len(size) + 1] = 0
          /\ \A m \in 1..Len(size) : at'[m] = at[m]
      BY <1>1 DEF BeginWrite, WriterInv
    <2>4. ASSUME NEW m \in 1..Len(at')
          PROVE  at'[m] <= PrefixLen + size'[m] /\ at'[m] <= Bound
      <3>1. CASE m = Len(size) + 1
        BY <2>1, <2>2, <2>3, <3>1 DEF Bound
      <3>2. CASE m # Len(size) + 1
        <4>1. m \in 1..Len(size) /\ Len(at) = Len(size)
          BY <2>3, <3>2 DEF WriterInv
        <4>2. QED
          BY <2>2, <2>3, <4>1 DEF WriterInv
      <3>3. QED
        BY <3>1, <3>2
    <2>5. /\ result' \in Seq({"ok", "err", "dropped"})
          /\ Len(result') = IF n > MaxPrefix THEN Len(size') ELSE Len(size') - 1
      BY <1>1, <2>1, <2>2 DEF BeginWrite, WriterInv
    <2>6. Len(result') \in {Len(size'), Len(size') - 1}
      BY <2>2, <2>5
    <2>7. Writing' => size'[Last'] <= MaxPrefix
      BY <2>1, <2>2, <2>5 DEF Writing, Last
    <2>8. QED
      BY <2>2, <2>3, <2>4, <2>5, <2>6, <2>7 DEF WriterInv
  <1>2. ASSUME WriteByte PROVE WriterInv'
    <2>1. size[Last] \in Nat /\ size[Last] <= MaxPrefix /\ Last \in 1..Len(size)
      BY <1>2, SMTT(30) DEF WriteByte, Writing, Last, WriterInv
    <2>2. /\ at' \in Seq(Nat) /\ Len(at') = Len(at) /\ at'[Last] = at[Last] + 1
          /\ at[Last] < PrefixLen + size[Last]
          /\ \A m \in 1..Len(at) : m # Last => at'[m] = at[m]
      BY <1>2, ByteHanded
    <2>3. at[Last] \in Nat /\ Len(at) = Len(size)
      BY <2>1, SMTT(30) DEF WriterInv
    <2>4. at'[Last] <= PrefixLen + size[Last] /\ at'[Last] <= Bound
      BY <2>1, <2>2, <2>3 DEF Bound
    <2>5. \A m \in 1..Len(at) : at'[m] <= PrefixLen + size[m] /\ at'[m] <= Bound
      BY <2>2, <2>4 DEF WriterInv
    <2>6. QED
      BY <1>2, <2>2, <2>3, <2>5 DEF WriteByte, WriterInv, Writing, Last
  <1>3. CASE Flush \/ WriteFails \/ DropWrite
    <2>1. /\ UNCHANGED <<size, at>> /\ Writing
          /\ \E r \in {"ok", "err", "dropped"} : result' = Append(result, r)
      BY <1>3 DEF Flush, WriteFails, DropWrite
    <2>2. Len(result) = Len(size) - 1 /\ Len(size) \in Nat
      BY <2>1 DEF Writing, WriterInv
    <2>3. result' \in Seq({"ok", "err", "dropped"}) /\ Len(result') = Len(size)
      BY <2>1, <2>2 DEF WriterInv
    <2>4. QED
      BY <2>1, <2>2, <2>3 DEF WriterInv, Writing, Last
  <1>4. CASE UNCHANGED writer
    BY <1>4 DEF writer, WriterInv, Writing, Last
  <1>5. QED
    BY <1>1, <1>2, <1>3, <1>4
       DEF Next, StreamEnds, ReadByte, ReadPrefix, ReadBody, ReadEof, Done, vars

(* A byte that was handed over stays handed over, whatever is written next. *)
LEMMA HandedStays == WriterInv /\ [Next]_vars => Handed \subseteq Handed' /\ Len(at) <= Len(at')
  <1> SUFFICES ASSUME WriterInv, [Next]_vars
               PROVE  Handed \subseteq Handed' /\ Len(at) <= Len(at')
    OBVIOUS
  <1>1. CASE at' = at
    BY <1>1 DEF Handed, WriterInv
  <1>2. ASSUME NEW n \in Sizes, BeginWrite(n)
        PROVE  Handed \subseteq Handed' /\ Len(at) <= Len(at')
    <2>1. /\ Len(at) \in Nat /\ Len(at') = Len(at) + 1
          /\ \A m \in 1..Len(at) : at'[m] = at[m]
      BY <1>2 DEF BeginWrite, WriterInv
    <2>2. QED
      BY <2>1 DEF Handed
  <1>3. ASSUME WriteByte PROVE Handed \subseteq Handed' /\ Len(at) <= Len(at')
    <2>1. /\ Len(at) \in Nat /\ Len(at') = Len(at)
          /\ \A m \in 1..Len(at) : at'[m] \in Nat /\ at[m] \in Nat /\ at[m] <= at'[m]
      <3>1. /\ at' \in Seq(Nat) /\ at \in Seq(Nat) /\ Len(at') = Len(at)
            /\ at'[Last] = at[Last] + 1
            /\ \A m \in 1..Len(at) : m # Last => at'[m] = at[m]
        BY <1>3, ByteHanded DEF WriterInv
      <3>2. \A m \in 1..Len(at) : at'[m] \in Nat /\ at[m] \in Nat
        BY <3>1
      <3>3. QED
        BY <3>1, <3>2
    <2>2. Bound \in Nat
      BY WireAssumption DEF Bound
    <2>3. ASSUME NEW b \in Handed PROVE b \in Handed'
      BY <2>1, <2>2 DEF Handed
    <2>4. QED
      BY <2>1, <2>3
  <1>4. QED
    BY <1>1, <1>2, <1>3
       DEF Next, Flush, WriteFails, DropWrite, StreamEnds, ReadByte, ReadPrefix, ReadBody,
           ReadEof, Done, vars, writer

(* The lengths a prefix may spell are numbers. *)
LEMMA PrefixSpells ==
    ASSUME WriterInv, ReaderInv, want = 0, Len(buf) = PrefixLen
    PROVE  from_be_bytes(buf) \subseteq Nat
  <1>1. 1 \in 1..Len(buf)
    BY WireAssumption
  <1>2. buf[1] \in Handed
    BY <1>1 DEF ReaderInv
  <1>3. size[buf[1].msg] \in Nat
    BY <1>2, SMTT(30) DEF Handed, WriterInv
  <1>4. 0..MaxPrefix \subseteq Nat
    BY WireAssumption
  <1>5. QED
    BY <1>3, <1>4 DEF from_be_bytes

(* What a body parses as is an error or a message that was written. *)
LEMMA BodyParses ==
    ASSUME WriterInv, ReaderInv, Len(buf) = want
    PROVE  from_slice(buf) \in Nat /\ from_slice(buf) <= Len(at)
  <1>1. Len(at) \in Nat /\ Len(buf) \in Nat
    BY DEF WriterInv, ReaderInv
  <1>2. CASE from_slice(buf) = 0
    BY <1>1, <1>2
  <1>3. CASE from_slice(buf) # 0
    <2>1. from_slice(buf) = buf[1].msg /\ buf # <<>>
      BY <1>3 DEF from_slice
    <2>2. buf[1] \in Handed
      BY <1>1, <2>1 DEF ReaderInv
    <2>3. QED
      BY <1>1, <2>1, <2>2 DEF Handed
  <1>4. QED
    BY <1>2, <1>3

(* The reader holds and meets only bytes that were handed over, never asks for
   more than its limit, and returns only messages that were written
   (wire.rs 76-89). *)
LEMMA ReaderStep == WriterInv /\ ReaderInv /\ [Next]_vars => ReaderInv'
  <1> SUFFICES ASSUME WriterInv, ReaderInv, [Next]_vars PROVE ReaderInv'
    OBVIOUS
  <1>1. WriterInv' /\ Handed \subseteq Handed' /\ Len(at) <= Len(at')
    BY WriterStep, HandedStays
  <1>2. Len(at) \in Nat /\ Len(at') \in Nat /\ \A k \in 1..Len(got) : got[k] \in Nat
    <2>1. at \in Seq(Nat) /\ at' \in Seq(Nat) /\ got \in Seq(Nat)
      BY <1>1 DEF WriterInv, ReaderInv
    <2>2. QED
      BY <2>1
  <1>3. \A k \in 1..Len(got) : got[k] <= Len(at')
    BY <1>1, <1>2 DEF ReaderInv
  <1>4. PrefixLen \in Nat \ {0} /\ MAX_MSG_SIZE \in Nat
    BY WireAssumption
  <1>5. CASE UNCHANGED reader /\ stream' = stream
    BY <1>1, <1>3, <1>5 DEF ReaderInv, reader, Need
  <1>6. ASSUME WriteByte PROVE ReaderInv'
    <2>1. DEFINE b == [msg |-> Last, byte |-> at[Last] + 1]
    <2>2. /\ Len(at') = Len(at) /\ at'[Last] = at[Last] + 1
          /\ Last \in 1..Len(at) /\ at[Last] \in Nat
      BY <1>6, ByteHanded, SMTT(30) DEF WriterInv
    <2>3. at'[Last] <= Bound /\ at[Last] + 1 \in 1..Bound
      <3>1. at'[Last] <= Bound
        BY <1>1, <2>2 DEF WriterInv
      <3>2. QED
        BY <2>2, <3>1, WireAssumption DEF Bound
    <2>4. b \in Handed' /\ b \in Byte
      BY <2>2, <2>3 DEF Handed, Byte
    <2>5. stream' = Append(stream, b)
      BY <1>6 DEF WriteByte
    <2> HIDE DEF b
    <2>6. stream' \in Seq(Byte) /\ \A k \in 1..Len(stream') : stream'[k] \in Handed'
      BY <1>1, <2>4, <2>5 DEF ReaderInv
    <2>7. UNCHANGED reader
      BY <1>6 DEF WriteByte
    <2>8. QED
      BY <1>1, <1>3, <2>6, <2>7 DEF ReaderInv, reader, Need
  <1>7. ASSUME ReadByte PROVE ReaderInv'
    <2>1. /\ stream # <<>> /\ buf' = Append(buf, Head(stream)) /\ stream' = Tail(stream)
          /\ UNCHANGED <<at, want, got>> /\ Len(buf) < Need
      BY <1>7 DEF ReadByte, writer
    <2>2. Head(stream) = stream[1] /\ 1 \in 1..Len(stream)
      BY <2>1 DEF ReaderInv
    <2>3. Head(stream) \in Handed /\ Head(stream) \in Byte
      BY <2>2 DEF ReaderInv
    <2>4. /\ buf' \in Seq(Byte) /\ Len(buf') = Len(buf) + 1
          /\ \A k \in 1..Len(buf') : buf'[k] \in Handed
      BY <2>1, <2>3 DEF ReaderInv
    <2>5. /\ stream' \in Seq(Byte) /\ Len(stream') = Len(stream) - 1
          /\ \A k \in 1..Len(stream') : stream'[k] = stream[k + 1]
      BY <2>1 DEF ReaderInv
    <2>6. \A k \in 1..Len(stream') : stream'[k] \in Handed
      <3>1. Len(stream) \in Nat /\ \A k \in 1..Len(stream) : stream[k] \in Handed
        BY DEF ReaderInv
      <3>2. QED
        BY <2>5, <3>1
    <2>7. Need' = Need /\ Need \in Nat /\ Len(buf) \in Nat
      BY <1>4, <2>1 DEF Need, ReaderInv
    <2>8. Len(buf') <= Need'
      BY <2>1, <2>4, <2>7
    <2>9. QED
      BY <1>1, <1>3, <2>1, <2>4, <2>5, <2>6, <2>8 DEF ReaderInv
  <1>8. ASSUME UNCHANGED <<at, stream>>, NEW r \in Nat, r <= Len(at), Finish(r)
        PROVE  ReaderInv'
    <2>1. /\ got' \in Seq(Nat) /\ \A k \in 1..Len(got') : got'[k] <= Len(at')
      BY <1>3, <1>8 DEF Finish, ReaderInv
    <2>2. buf' = <<>> /\ want' = 0 /\ Need' = PrefixLen
      BY <1>8 DEF Finish, Need
    <2>3. buf' \in Seq(Byte) /\ Len(buf') = 0
      BY <2>2
    <2>4. QED
      BY <1>1, <1>4, <1>8, <2>1, <2>2, <2>3 DEF ReaderInv
  <1>9. ASSUME ReadPrefix PROVE ReaderInv'
    <2>1. PICK len \in from_be_bytes(buf) :
             IF len > MAX_MSG_SIZE \/ len = 0 THEN Finish(0)
             ELSE want' = len /\ buf' = <<>> /\ UNCHANGED got
      BY <1>9 DEF ReadPrefix
    <2>2. len \in Nat /\ UNCHANGED <<at, stream>>
      BY <1>9, <2>1, PrefixSpells DEF ReadPrefix, writer
    <2>3. CASE len > MAX_MSG_SIZE \/ len = 0
      BY <1>2, <1>8, <2>1, <2>2, <2>3
    <2>4. CASE ~(len > MAX_MSG_SIZE \/ len = 0)
      <3>1. want' = len /\ buf' = <<>> /\ UNCHANGED got /\ len \in 0..MAX_MSG_SIZE
        BY <1>4, <2>1, <2>2, <2>4
      <3>2. buf' \in Seq(Byte) /\ Len(buf') = 0 /\ Len(buf') <= Need'
        BY <1>4, <3>1 DEF Need
      <3>3. QED
        BY <1>1, <1>3, <2>2, <3>1, <3>2 DEF ReaderInv
    <2>5. QED
      BY <2>3, <2>4
  <1>10. ASSUME ReadBody PROVE ReaderInv'
    <2>1. Len(buf) = want /\ Finish(from_slice(buf)) /\ UNCHANGED <<at, stream>>
      BY <1>10 DEF ReadBody, writer
    <2>2. from_slice(buf) \in Nat /\ from_slice(buf) <= Len(at)
      BY <2>1, BodyParses
    <2>3. QED
      BY <1>8, <2>1, <2>2
  <1>11. ASSUME ReadEof PROVE ReaderInv'
    BY <1>2, <1>8, <1>11 DEF ReadEof, writer
  <1>12. QED
    BY <1>5, <1>6, <1>7, <1>9, <1>10, <1>11
       DEF Next, BeginWrite, Flush, WriteFails, DropWrite, StreamEnds, Done, vars

-----------------------------------------------------------------------------
(* The order of the bytes.                                                 *)

(* Writing more leaves what was handed over in its order: only the last message
   still gets bytes, and it is behind every one the reader will meet. *)
LEMMA FollowsStands ==
    ASSUME NEW w \in Seq(Nat), NEW v \in Seq(Nat), NEW x \in Byte, NEW y \in Byte,
           y.msg \in 1..Len(w), \A m \in 1..(Len(w) - 1) : v[m] = w[m],
           Follows(w, x, y)
    PROVE  Follows(v, x, y)
  <1>1. Len(w) \in Nat /\ x.msg \in Nat /\ y.msg \in Nat
    BY DEF Byte
  <1>2. CASE Unwritten(w, x.msg, y.msg - 1)
    <2>1. \A m \in (x.msg + 1)..(y.msg - 1) : m \in 1..(Len(w) - 1)
      BY <1>1
    <2>2. Unwritten(v, x.msg, y.msg - 1)
      BY <1>2, <2>1 DEF Unwritten
    <2>3. QED
      BY <2>2 DEF Follows
  <1>3. QED
    BY <1>2 DEF Follows

\* The places of a stream of handed-over bytes.
OfMessages(w, b) == \A k \in 1..Len(b) : b[k].msg \in 1..Len(w)

(* The bytes not yet taken are bytes of the writer's messages. *)
LEMMA NthIsByte ==
    ASSUME NEW w \in Seq(Nat), NEW b \in Seq(Byte), NEW s \in Seq(Byte), NEW c \in Byte,
           c.msg \in 0..Len(w), OfMessages(w, b), OfMessages(w, s),
           NEW k \in 0..(Len(b) + Len(s))
    PROVE  /\ Nth(b, s, c, k) \in Byte /\ Nth(b, s, c, k).msg \in 0..Len(w)
           /\ k # 0 => Nth(b, s, c, k).msg \in 1..Len(w)
  <1>1. Len(w) \in Nat /\ Len(b) \in Nat /\ Len(s) \in Nat
    OBVIOUS
  <1>2. CASE k = 0
    BY <1>2 DEF Nth
  <1>3. CASE k # 0 /\ k <= Len(b)
    BY <1>1, <1>3 DEF Nth, OfMessages
  <1>4. CASE k # 0 /\ ~(k <= Len(b))
    <2>1. k - Len(b) \in 1..Len(s)
      BY <1>1, <1>4
    <2>2. QED
      BY <1>1, <1>4, <2>1 DEF Nth, OfMessages
  <1>5. QED
    BY <1>2, <1>3, <1>4

(* Beginning a message hands nothing over, so the order stands (wire.rs 57-62). *)
LEMMA ChainBegun ==
    ASSUME NEW w \in Seq(Nat), NEW b \in Seq(Byte), NEW s \in Seq(Byte), NEW c \in Byte,
           c.msg \in 0..Len(w), OfMessages(w, b), OfMessages(w, s),
           Chain(w, b, s, c), NEW v, v = Append(w, 0)
    PROVE  Chain(v, b, s, c)
  <1>1. /\ v \in Seq(Nat) /\ Len(v) = Len(w) + 1 /\ v[Len(w) + 1] = 0
        /\ \A m \in 1..Len(w) : v[m] = w[m]
    OBVIOUS
  <1>2. Len(w) \in Nat /\ Len(b) \in Nat /\ Len(s) \in Nat
    OBVIOUS
  <1>3. ASSUME NEW k \in 1..(Len(b) + Len(s))
        PROVE  Follows(v, Nth(b, s, c, k - 1), Nth(b, s, c, k))
    <2>1. k \in 0..(Len(b) + Len(s)) /\ k - 1 \in 0..(Len(b) + Len(s)) /\ k # 0
      BY <1>2
    <2>2. /\ Nth(b, s, c, k - 1) \in Byte /\ Nth(b, s, c, k) \in Byte
          /\ Nth(b, s, c, k).msg \in 1..Len(w)
      BY <2>1, NthIsByte
    <2>3. Follows(w, Nth(b, s, c, k - 1), Nth(b, s, c, k))
      BY DEF Chain
    <2>4. \A m \in 1..(Len(w) - 1) : v[m] = w[m]
      BY <1>1, <1>2
    <2>5. QED
      BY <1>1, <2>2, <2>3, <2>4, FollowsStands
  <1>4. DEFINE z == Nth(b, s, c, Len(b) + Len(s))
  <1>5. z \in Byte /\ z.msg \in 0..Len(w) /\ Frontier(w, z)
    <2>1. Len(b) + Len(s) \in 0..(Len(b) + Len(s))
      BY <1>2
    <2>2. QED
      BY <2>1, NthIsByte DEF Chain
  <1> HIDE DEF z
  <1>6. Frontier(v, z)
    <2>1. z.msg # 0 => z.byte = v[z.msg]
      BY <1>1, <1>2, <1>5 DEF Frontier
    <2>2. ASSUME NEW m \in (z.msg + 1)..Len(v) PROVE v[m] = 0
      <3>1. CASE m = Len(w) + 1
        BY <1>1, <3>1
      <3>2. CASE m # Len(w) + 1
        <4>1. m \in (z.msg + 1)..Len(w) /\ m \in 1..Len(w)
          BY <1>1, <1>2, <1>5, <3>2, SMTT(30)
        <4>2. QED
          BY <1>1, <1>5, <4>1 DEF Frontier, Unwritten
      <3>3. QED
        BY <3>1, <3>2
    <2>3. QED
      BY <2>1, <2>2 DEF Frontier, Unwritten
  <1>7. QED
    BY <1>3, <1>6 DEF Chain, z

(* A byte written is the next one in order: the last message's next, or its
   first one if none was written before (wire.rs 63-68). *)
LEMMA ChainWritten ==
    ASSUME NEW w \in Seq(Nat), NEW b \in Seq(Byte), NEW s \in Seq(Byte), NEW c \in Byte,
           c.msg \in 0..Len(w), OfMessages(w, b), OfMessages(w, s), Chain(w, b, s, c),
           NEW v \in Seq(Nat), Len(v) = Len(w), Len(w) # 0,
           v[Len(w)] = w[Len(w)] + 1, \A m \in 1..(Len(w) - 1) : v[m] = w[m],
           NEW e, e = [msg |-> Len(w), byte |-> w[Len(w)] + 1],
           NEW t, t = Append(s, e)
    PROVE  Chain(v, b, t, c)
  <1>1. /\ Len(w) \in Nat \ {0} /\ Len(b) \in Nat /\ Len(s) \in Nat
        /\ w[Len(w)] \in Nat /\ v[Len(w)] \in Nat
    BY SMTT(30)
  <1>2. e \in Byte /\ e.msg = Len(w) /\ e.byte = w[Len(w)] + 1
    BY <1>1 DEF Byte
  <1>3. /\ t \in Seq(Byte) /\ Len(t) = Len(s) + 1 /\ t[Len(s) + 1] = e
        /\ \A k \in 1..Len(s) : t[k] = s[k]
    BY <1>2
  <1>4. DEFINE n == Len(b) + Len(s)
  <1>5. n \in Nat /\ Len(b) + Len(t) = n + 1 /\ n \in 0..n
    BY <1>1, <1>3
  <1>6. ASSUME NEW k \in 0..n PROVE Nth(b, t, c, k) = Nth(b, s, c, k)
    <2>1. CASE k <= Len(b)
      BY <2>1 DEF Nth
    <2>2. CASE ~(k <= Len(b))
      <3>1. k - Len(b) \in 1..Len(s)
        BY <1>1, <2>2
      <3>2. QED
        BY <1>3, <3>1 DEF Nth
    <2>3. QED
      BY <2>1, <2>2
  <1>7. Nth(b, t, c, n + 1) = e
    <2>1. n + 1 - Len(b) = Len(s) + 1 /\ n + 1 # 0 /\ ~(n + 1 <= Len(b))
      BY <1>1, SMTT(30)
    <2>2. QED
      BY <1>3, <2>1 DEF Nth
  <1>8. Frontier(w, Nth(b, s, c, n)) /\ \A k \in 1..n : Follows(w, Nth(b, s, c, k - 1), Nth(b, s, c, k))
    BY DEF Chain
  <1>9. \A k \in 0..n : /\ Nth(b, s, c, k) \in Byte /\ Nth(b, s, c, k).msg \in 0..Len(w)
                        /\ k # 0 => Nth(b, s, c, k).msg \in 1..Len(w)
    BY NthIsByte
  <1> HIDE DEF n
  <1>10. ASSUME NEW k \in 1..n PROVE Follows(v, Nth(b, t, c, k - 1), Nth(b, t, c, k))
    <2>1. k \in 0..n /\ k - 1 \in 0..n /\ k # 0
      BY <1>5
    <2>2. Nth(b, t, c, k - 1) = Nth(b, s, c, k - 1) /\ Nth(b, t, c, k) = Nth(b, s, c, k)
      BY <1>6, <2>1
    <2>3. Follows(v, Nth(b, s, c, k - 1), Nth(b, s, c, k))
      BY <1>8, <1>9, <2>1, FollowsStands
    <2>4. QED
      BY <2>2, <2>3
  <1>11. Follows(v, Nth(b, t, c, n), e)
    <2>1. DEFINE z == Nth(b, s, c, n)
    <2>2. z \in Byte /\ z.msg \in 0..Len(w) /\ z.msg \in Nat /\ Frontier(w, z)
      BY <1>5, <1>8, <1>9 DEF Byte
    <2> SUFFICES Follows(v, z, e)
      BY <1>5, <1>6
    <2> HIDE DEF z
    <2>3. CASE z.msg = Len(w)
      BY <1>1, <1>2, <2>2, <2>3 DEF Follows, Frontier
    <2>4. CASE z.msg # Len(w)
      <3>1. z.msg < Len(w) /\ Len(w) \in (z.msg + 1)..Len(w)
        BY <1>1, <2>2, <2>4, SMTT(30)
      <3>2. e.byte = 1
        BY <1>2, <2>2, <3>1 DEF Frontier, Unwritten
      <3>3. ASSUME NEW m \in (z.msg + 1)..(e.msg - 1) PROVE v[m] = 0
        <4>1. m \in 1..(Len(w) - 1) /\ m \in (z.msg + 1)..Len(w)
          BY <1>1, <1>2, <2>2, SMTT(30)
        <4>2. QED
          BY <2>2, <4>1 DEF Frontier, Unwritten
      <3>4. QED
        BY <1>2, <3>1, <3>2, <3>3 DEF Follows, Unwritten
    <2>5. QED
      BY <2>3, <2>4
  <1>12. ASSUME NEW k \in 1..(n + 1) PROVE Follows(v, Nth(b, t, c, k - 1), Nth(b, t, c, k))
    <2>1. CASE k = n + 1
      <3>1. k - 1 = n
        BY <1>5, <2>1
      <3>2. QED
        BY <1>7, <1>11, <2>1, <3>1
    <2>2. CASE k # n + 1
      <3>1. k \in 1..n
        BY <1>5, <2>2
      <3>2. QED
        BY <1>10, <3>1
    <2>3. QED
      BY <2>1, <2>2
  <1>13. Frontier(v, e)
    <2>1. \A m \in (e.msg + 1)..Len(v) : FALSE
      BY <1>1, <1>2
    <2>2. QED
      BY <1>2, <2>1 DEF Frontier, Unwritten
  <1>14. QED
    BY <1>5, <1>7, <1>12, <1>13 DEF Chain

(* A byte that read_exact takes keeps its place (wire.rs 77, 85). *)
LEMMA ChainTaken ==
    ASSUME NEW w, NEW b \in Seq(Byte), NEW s \in Seq(Byte), NEW c, s # <<>>,
           Chain(w, b, s, c),
           NEW d, d = Append(b, Head(s)), NEW t, t = Tail(s)
    PROVE  Chain(w, d, t, c)
  <1>1. Len(b) \in Nat /\ Len(s) \in Nat \ {0}
    OBVIOUS
  <1>2. /\ d \in Seq(Byte) /\ Len(d) = Len(b) + 1 /\ d[Len(b) + 1] = s[1]
        /\ \A k \in 1..Len(b) : d[k] = b[k]
    OBVIOUS
  <1>3. Len(t) = Len(s) - 1 /\ \A k \in 1..(Len(s) - 1) : t[k] = s[k + 1]
    OBVIOUS
  <1>4. Len(d) + Len(t) = Len(b) + Len(s)
    BY <1>1, <1>2, <1>3
  <1>5. ASSUME NEW k \in 0..(Len(b) + Len(s)) PROVE Nth(d, t, c, k) = Nth(b, s, c, k)
    <2>1. CASE k = 0
      BY <2>1 DEF Nth
    <2>2. CASE k # 0 /\ k <= Len(b)
      BY <1>1, <1>2, <2>2 DEF Nth
    <2>3. CASE k = Len(b) + 1
      <3>1. k - Len(b) = 1 /\ k # 0 /\ ~(k <= Len(b)) /\ k <= Len(d)
        BY <1>1, <1>2, <2>3
      <3>2. QED
        BY <1>2, <2>3, <3>1 DEF Nth
    <2>4. CASE k > Len(b) + 1
      <3>1. /\ k - Len(d) \in 1..(Len(s) - 1) /\ k - Len(d) + 1 = k - Len(b)
            /\ k # 0 /\ ~(k <= Len(b)) /\ ~(k <= Len(d))
        BY <1>1, <1>2, <2>4
      <3>2. QED
        BY <1>3, <3>1 DEF Nth
    <2>5. QED
      BY <1>1, <2>1, <2>2, <2>3, <2>4
  <1>6. ASSUME NEW k \in 1..(Len(b) + Len(s))
        PROVE  Follows(w, Nth(d, t, c, k - 1), Nth(d, t, c, k))
    <2>1. k \in 0..(Len(b) + Len(s)) /\ k - 1 \in 0..(Len(b) + Len(s))
      BY <1>1
    <2>2. QED
      BY <1>5, <2>1 DEF Chain
  <1>7. Nth(d, t, c, Len(b) + Len(s)) = Nth(b, s, c, Len(b) + Len(s))
    <2>1. Len(b) + Len(s) \in 0..(Len(b) + Len(s))
      BY <1>1
    <2>2. QED
      BY <1>5, <2>1
  <1>8. QED
    BY <1>4, <1>6, <1>7 DEF Chain

(* Once what read_exact has is used, its last byte comes before what follows. *)
LEMMA ChainUsed ==
    ASSUME NEW w, NEW b \in Seq(Byte), NEW s \in Seq(Byte), NEW c, b # <<>>,
           Chain(w, b, s, c)
    PROVE  Chain(w, <<>>, s, b[Len(b)])
  <1>1. Len(b) \in Nat \ {0} /\ Len(s) \in Nat
    OBVIOUS
  <1>2. Len(<<>>) = 0
    OBVIOUS
  <1>3. DEFINE e == <<>>
  <1>4. Len(e) = 0 /\ Len(e) + Len(s) = Len(s)
    BY <1>1, <1>2
  <1> HIDE DEF e
  <1>5. ASSUME NEW k \in 0..Len(s) PROVE Nth(e, s, b[Len(b)], k) = Nth(b, s, c, k + Len(b))
    <2>1. CASE k = 0
      BY <1>1, <2>1 DEF Nth
    <2>2. CASE k # 0
      <3>1. ~(k <= Len(e)) /\ ~(k + Len(b) <= Len(b)) /\ k + Len(b) # 0
            /\ k - Len(e) = k /\ k + Len(b) - Len(b) = k
        BY <1>1, <1>4, <2>2
      <3>2. QED
        BY <2>2, <3>1 DEF Nth
    <2>3. QED
      BY <2>1, <2>2
  <1>6. ASSUME NEW k \in 1..Len(s)
        PROVE  Follows(w, Nth(e, s, b[Len(b)], k - 1), Nth(e, s, b[Len(b)], k))
    <2>1. /\ k \in 0..Len(s) /\ k - 1 \in 0..Len(s)
          /\ k + Len(b) \in 1..(Len(b) + Len(s)) /\ k + Len(b) - 1 = k - 1 + Len(b)
      BY <1>1
    <2>2. Follows(w, Nth(b, s, c, k + Len(b) - 1), Nth(b, s, c, k + Len(b)))
      BY <2>1 DEF Chain
    <2>3. QED
      BY <1>5, <2>1, <2>2
  <1>7. Frontier(w, Nth(e, s, b[Len(b)], Len(s)))
    <2>1. Len(s) \in 0..Len(s) /\ Len(s) + Len(b) = Len(b) + Len(s)
      BY <1>1
    <2>2. QED
      BY <1>5, <2>1 DEF Chain
  <1>8. Chain(w, e, s, b[Len(b)])
    BY <1>4, <1>6, <1>7 DEF Chain
  <1>9. QED
    BY <1>8 DEF e

(* The bytes read_exact has follow each other, the first of them what came before. *)
LEMMA ChainFollows ==
    ASSUME NEW w, NEW b \in Seq(Byte), NEW s \in Seq(Byte), NEW c, Chain(w, b, s, c)
    PROVE  /\ b # <<>> => Follows(w, c, b[1])
           /\ \A k \in 2..Len(b) : Follows(w, b[k - 1], b[k])
           /\ b = <<>> /\ s # <<>> => Follows(w, c, s[1])
           /\ b # <<>> /\ s # <<>> => Follows(w, b[Len(b)], s[1])
  <1>1. Len(b) \in Nat /\ Len(s) \in Nat
    OBVIOUS
  <1>2. ASSUME NEW k \in 1..(Len(b) + Len(s))
        PROVE  Follows(w, Nth(b, s, c, k - 1), Nth(b, s, c, k))
    BY DEF Chain
  <1>3. b # <<>> => Follows(w, c, b[1])
    <2> SUFFICES ASSUME b # <<>> PROVE Follows(w, c, b[1])
      OBVIOUS
    <2>1. 1 \in 1..(Len(b) + Len(s)) /\ 1 - 1 = 0 /\ 1 <= Len(b) /\ 1 # 0
      BY <1>1
    <2>2. Nth(b, s, c, 0) = c /\ Nth(b, s, c, 1) = b[1]
      BY <2>1 DEF Nth
    <2>3. QED
      BY <1>2, <2>1, <2>2
  <1>4. ASSUME NEW k \in 2..Len(b) PROVE Follows(w, b[k - 1], b[k])
    <2>1. /\ k \in 1..(Len(b) + Len(s))
          /\ k # 0 /\ k <= Len(b) /\ k - 1 # 0 /\ k - 1 <= Len(b)
      BY <1>1
    <2>2. Nth(b, s, c, k - 1) = b[k - 1] /\ Nth(b, s, c, k) = b[k]
      BY <2>1 DEF Nth
    <2>3. QED
      BY <1>2, <2>1, <2>2
  <1>5. s # <<>> => Follows(w, Nth(b, s, c, Len(b)), s[1])
    <2> SUFFICES ASSUME s # <<>> PROVE Follows(w, Nth(b, s, c, Len(b)), s[1])
      OBVIOUS
    <2>1. /\ Len(b) + 1 \in 1..(Len(b) + Len(s)) /\ Len(b) + 1 - 1 = Len(b)
          /\ Len(b) + 1 # 0 /\ ~(Len(b) + 1 <= Len(b)) /\ Len(b) + 1 - Len(b) = 1
      BY <1>1
    <2>2. Nth(b, s, c, Len(b) + 1) = s[1]
      BY <2>1 DEF Nth
    <2>3. QED
      BY <1>2, <2>1, <2>2
  <1>6. /\ b = <<>> => Nth(b, s, c, Len(b)) = c
        /\ b # <<>> => Nth(b, s, c, Len(b)) = b[Len(b)]
    BY <1>1 DEF Nth
  <1>7. QED
    BY <1>3, <1>4, <1>5, <1>6

-----------------------------------------------------------------------------
(* What was read.                                                          *)

(* The messages already returned stay whole and in order, whatever is written:
   only a message not yet complete gets another byte. *)
LEMMA OrderStands ==
    ASSUME ReaderInv, Len(at) \in Nat, ReadsAreWritesInOrder, got' = got,
           \A m \in 1..Len(at) : size'[m] = size[m],
           \A m \in 1..Len(at) :
               at'[m] = at[m] \/ (m = Len(at) /\ at[m] # PrefixLen + size[m])
    PROVE  ReadsAreWritesInOrder'
  <1> SUFFICES ASSUME NEW k \in DOMAIN got, got[k] # 0
               PROVE  /\ size'[got[k]] <= MAX_MSG_SIZE
                      /\ at'[got[k]] = PrefixLen + size'[got[k]]
                      /\ \A j \in 1..(k - 1) : got[j] # 0 /\ got[j] < got[k]
                      /\ \A m \in 1..(got[k] - 1) :
                             m \notin {got[j] : j \in 1..(k - 1)} => at'[m] = 0
    BY DEF ReadsAreWritesInOrder
  <1>1. k \in 1..Len(got) /\ got[k] \in Nat /\ got[k] <= Len(at)
    BY DEF ReaderInv
  <1>2. got[k] \in 1..Len(at)
    BY <1>1
  <1>3. /\ size[got[k]] <= MAX_MSG_SIZE /\ at[got[k]] = PrefixLen + size[got[k]]
        /\ \A j \in 1..(k - 1) : got[j] # 0 /\ got[j] < got[k]
        /\ \A m \in 1..(got[k] - 1) :
               m \notin {got[j] : j \in 1..(k - 1)} => at[m] = 0
    BY DEF ReadsAreWritesInOrder
  <1>4. at'[got[k]] = at[got[k]] /\ size'[got[k]] = size[got[k]]
    BY <1>2, <1>3
  <1>5. \A m \in 1..(got[k] - 1) : at'[m] = at[m]
    <2>1. \A m \in 1..(got[k] - 1) : m \in 1..Len(at) /\ m # Len(at)
      BY <1>1
    <2>2. QED
      BY <2>1
  <1>6. QED
    BY <1>3, <1>4, <1>5

(* An error, or a whole message with nothing handed over between it and the last
   one returned, keeps what was returned in order. *)
LEMMA OrderGrows ==
    ASSUME ReaderInv, Len(at) \in Nat, ReadsAreWritesInOrder, ~Failed,
           UNCHANGED <<size, at>>, NEW r \in Nat, got' = Append(got, r),
           r # 0 => /\ size[r] <= MAX_MSG_SIZE /\ at[r] = PrefixLen + size[r]
                    /\ LastGot < r /\ Unwritten(at, LastGot, r - 1)
    PROVE  ReadsAreWritesInOrder'
  <1>1. /\ Len(got) \in Nat /\ DOMAIN got' = 1..(Len(got) + 1) /\ DOMAIN got = 1..Len(got)
        /\ got'[Len(got) + 1] = r /\ \A k \in 1..Len(got) : got'[k] = got[k] /\ got[k] \in Nat
    BY DEF ReaderInv
  <1> SUFFICES ASSUME NEW k \in 1..(Len(got) + 1), got'[k] # 0
               PROVE  /\ size[got'[k]] <= MAX_MSG_SIZE
                      /\ at[got'[k]] = PrefixLen + size[got'[k]]
                      /\ \A j \in 1..(k - 1) : got'[j] # 0 /\ got'[j] < got'[k]
                      /\ \A m \in 1..(got'[k] - 1) :
                             m \notin {got'[j] : j \in 1..(k - 1)} => at[m] = 0
    BY <1>1 DEF ReadsAreWritesInOrder
  <1>2. \A j \in 1..(k - 1) : got'[j] = got[j] /\ j \in 1..Len(got)
    BY <1>1
  <1>3. CASE k \in 1..Len(got)
    <2>1. /\ size[got[k]] <= MAX_MSG_SIZE /\ at[got[k]] = PrefixLen + size[got[k]]
          /\ \A j \in 1..(k - 1) : got[j] # 0 /\ got[j] < got[k]
          /\ \A m \in 1..(got[k] - 1) :
                 m \notin {got[j] : j \in 1..(k - 1)} => at[m] = 0
      BY <1>1, <1>3 DEF ReadsAreWritesInOrder
    <2>2. got'[k] = got[k] /\ {got'[j] : j \in 1..(k - 1)} = {got[j] : j \in 1..(k - 1)}
      BY <1>1, <1>2, <1>3
    <2>3. QED
      BY <1>2, <2>1, <2>2
  <1>4. CASE k = Len(got) + 1 /\ got = <<>>
    <2>1. got'[k] = r /\ LastGot = 0 /\ k = 1
      BY <1>1, <1>4 DEF LastGot
    <2>2. \A j \in 1..(k - 1) : FALSE
      BY <2>1
    <2>3. \A m \in 1..(r - 1) : at[m] = 0
      BY <2>1 DEF Unwritten
    <2>4. QED
      BY <2>1, <2>2, <2>3
  <1>5. CASE k = Len(got) + 1 /\ got # <<>>
    <2>1. DEFINE n == Len(got)
    <2>2. n \in 1..Len(got) /\ got'[k] = r /\ LastGot = got[n] /\ got[n] # 0 /\ k - 1 = n
      BY <1>1, <1>5 DEF LastGot, Failed
    <2>3. /\ \A j \in 1..(n - 1) : got[j] # 0 /\ got[j] < got[n]
          /\ \A m \in 1..(got[n] - 1) :
                 m \notin {got[j] : j \in 1..(n - 1)} => at[m] = 0
      BY <1>1, <2>2 DEF ReadsAreWritesInOrder
    <2>4. got[n] \in Nat /\ got[n] < r
      BY <1>1, <2>2
    <2> HIDE DEF n
    <2>5. ASSUME NEW j \in 1..(k - 1) PROVE got'[j] # 0 /\ got'[j] < got'[k]
      <3>1. got'[j] = got[j] /\ got[j] \in Nat /\ (j = n \/ j \in 1..(n - 1))
        BY <1>1, <1>2, <2>2
      <3>2. QED
        BY <2>2, <2>3, <2>4, <3>1
    <2>6. ASSUME NEW m \in 1..(r - 1), m \notin {got'[j] : j \in 1..(k - 1)}
          PROVE  at[m] = 0
      <3>1. n \in 1..(k - 1) /\ got'[n] = got[n]
        BY <1>2, <2>2
      <3>2. m # got[n]
        BY <2>6, <3>1
      <3>3. CASE m > got[n]
        <4>1. m \in (got[n] + 1)..(r - 1)
          BY <2>4, <3>3
        <4>2. QED
          BY <2>2, <4>1 DEF Unwritten
      <3>4. CASE m < got[n]
        <4>1. m \in 1..(got[n] - 1)
          BY <2>4, <3>4
        <4>2. ASSUME NEW j \in 1..(n - 1) PROVE m # got[j]
          <5>1. j \in 1..(k - 1) /\ got'[j] = got[j]
            BY <1>2, <2>2
          <5>2. QED
            BY <2>6, <5>1
        <4>3. QED
          BY <2>3, <4>1, <4>2
      <3>5. QED
        BY <2>4, <3>2, <3>3, <3>4
    <2>7. QED
      BY <2>2, <2>5, <2>6
  <1>6. QED
    BY <1>1, <1>3, <1>4, <1>5

(* A place is the origin or a byte of a message that was begun. *)
LEMMA PlaceType ==
    ASSUME WriterInv, ReaderInv, NEW c \in Places
    PROVE  /\ c \in Byte /\ c.msg \in 0..Len(at) /\ Len(at) \in Nat
           /\ c.msg # 0 => c \in Handed /\ c.byte >= 1 /\ c.byte <= at[c.msg]
           /\ c.msg = 0 => c.byte = 0
           /\ OfMessages(at, buf) /\ OfMessages(at, stream)
  <1>1. at \in Seq(Nat) /\ Len(at) \in Nat
    BY DEF WriterInv
  <1>2. OfMessages(at, buf) /\ OfMessages(at, stream)
    BY DEF ReaderInv, OfMessages, Handed
  <1>3. CASE c = Origin
    BY <1>1, <1>2, <1>3 DEF Origin, Byte
  <1>4. CASE c \in Handed
    <2>1. Bound \in Nat
      BY WireAssumption DEF Bound
    <2>2. QED
      BY <1>1, <1>2, <1>4, <2>1 DEF Handed, Byte
  <1>5. QED
    BY <1>3, <1>4 DEF Places

(* The place of the reader among the messages is not moved by what is written. *)
LEMMA InStepStands ==
    ASSUME WriterInv, ReaderInv, NEW c \in Places, InStep(c), UNCHANGED reader,
           \A m \in 1..Len(at) : size'[m] = size[m],
           \A m \in 1..(Len(at) - 1) : at'[m] = at[m]
    PROVE  InStep(c)'
  <1>1. /\ c \in Byte /\ c.msg \in 0..Len(at) /\ Len(at) \in Nat
        /\ c.msg # 0 => c.byte >= 1 /\ c.msg \in 1..Len(at)
        /\ c.msg = 0 => c.byte = 0
    BY PlaceType
  <1>2. LastGot' = LastGot /\ want' = want /\ buf' = buf
    BY DEF reader, LastGot
  <1>3. LastGot \in Nat
    <2>1. got \in Seq(Nat)
      BY DEF ReaderInv
    <2>2. QED
      BY <2>1 DEF LastGot
  <1>4. Unwritten(at, LastGot, c.msg - 1) => Unwritten(at', LastGot, c.msg - 1)
    <2>1. \A m \in (LastGot + 1)..(c.msg - 1) : m \in 1..(Len(at) - 1)
      BY <1>1, <1>3
    <2>2. QED
      BY <2>1 DEF Unwritten
  <1>5. c.msg # 0 => size'[c.msg] = size[c.msg]
    BY <1>1
  <1>6. CASE want = 0
    <2>1. \A k \in 1..Len(buf) : Prefixes(buf, k) => Prefixes(buf', k)
      BY <1>2 DEF Prefixes
    <2>2. QED
      BY <1>2, <1>5, <1>6, <2>1 DEF InStep
  <1>7. CASE want # 0
    <2>1. CASE c.byte < PrefixLen
      BY <1>2, <1>7, <2>1 DEF InStep
    <2>2. CASE ~(c.byte < PrefixLen)
      <3>1. /\ c.byte = PrefixLen /\ want = size[c.msg]
            /\ LastGot < c.msg /\ Unwritten(at, LastGot, c.msg - 1)
        BY <1>7, <2>2 DEF InStep
      <3>2. c.msg # 0
        BY <1>3, <3>1
      <3>3. QED
        BY <1>2, <1>4, <1>5, <1>7, <3>1, <3>2 DEF InStep
    <2>3. QED
      BY <2>1, <2>2
  <1>8. QED
    BY <1>6, <1>7

\* What remains to be shown of a step, once the types are.
Steps == WireInv /\ [Next]_vars /\ WriterInv' /\ ReaderInv'
Stands == Reading' /\ ReadsAreWritesInOrder'

(* The steps of the writer and of the connection (wire.rs 57-69). *)
LEMMA WriterStands ==
    ASSUME Steps, UNCHANGED reader,
           \/ UNCHANGED <<size, at, stream>> \/ WriteByte
           \/ \E n \in Sizes : BeginWrite(n)
    PROVE  Stands
  <1>1. /\ WriterInv /\ ReaderInv /\ Reading /\ ReadsAreWritesInOrder /\ WriterInv'
        /\ Handed \subseteq Handed' /\ Len(at) \in Nat
    <2>1. WriterInv /\ ReaderInv /\ Reading /\ ReadsAreWritesInOrder /\ WriterInv'
      BY DEF Steps, WireInv
    <2>2. Handed \subseteq Handed'
      BY HandedStays DEF Steps, WireInv
    <2>3. QED
      BY <2>1, <2>2 DEF WriterInv
  <1>2. got' = got /\ buf' = buf /\ Failed' = Failed /\ Places \subseteq Places'
    BY <1>1 DEF reader, Failed, Places
  <1>3. /\ \A m \in 1..Len(at) : size'[m] = size[m]
        /\ \A m \in 1..Len(at) :
               at'[m] = at[m] \/ (m = Len(at) /\ at[m] # PrefixLen + size[m])
        /\ \A c \in Places : Chain(at, buf, stream, c) => Chain(at', buf, stream', c)
    <2>1. CASE UNCHANGED <<size, at, stream>>
      BY <2>1
    <2>2. ASSUME NEW n \in Sizes, BeginWrite(n)
          PROVE  /\ \A m \in 1..Len(at) : size'[m] = size[m] /\ at'[m] = at[m]
                 /\ \A c \in Places : Chain(at, buf, stream, c) => Chain(at', buf, stream', c)
      <3>1. size' = Append(size, n) /\ at' = Append(at, 0) /\ stream' = stream /\ n \in Nat \ {0}
        BY <2>2, WireAssumption DEF BeginWrite
      <3>2. at \in Seq(Nat) /\ size \in Seq(Nat \ {0}) /\ Len(size) = Len(at)
        BY <1>1 DEF WriterInv
      <3>3. \A m \in 1..Len(at) : size'[m] = size[m] /\ at'[m] = at[m]
        BY <3>1, <3>2
      <3>4. ASSUME NEW c \in Places, Chain(at, buf, stream, c)
            PROVE  Chain(at', buf, stream', c)
        <4>1. /\ c \in Byte /\ c.msg \in 0..Len(at)
              /\ OfMessages(at, buf) /\ OfMessages(at, stream)
          BY <1>1, PlaceType
        <4>2. buf \in Seq(Byte) /\ stream \in Seq(Byte)
          BY <1>1 DEF ReaderInv
        <4>3. QED
          BY <3>1, <3>2, <3>4, <4>1, <4>2, ChainBegun
      <3>5. QED
        BY <3>3, <3>4
    <2>3. ASSUME WriteByte
          PROVE  /\ \A m \in 1..Len(at) : size'[m] = size[m]
                 /\ \A m \in 1..Len(at) :
                        at'[m] = at[m] \/ (m = Len(at) /\ at[m] # PrefixLen + size[m])
                 /\ \A c \in Places : Chain(at, buf, stream, c) => Chain(at', buf, stream', c)
      <3>1. /\ at' \in Seq(Nat) /\ Len(at') = Len(at) /\ at'[Last] = at[Last] + 1
            /\ at[Last] < PrefixLen + size[Last] /\ Last = Len(at) /\ Last \in 1..Len(at)
            /\ \A m \in 1..Len(at) : m # Last => at'[m] = at[m]
        BY <1>1, <2>3, ByteHanded
      <3>2. at \in Seq(Nat) /\ at[Last] \in Nat
        BY <1>1, <3>1, SMTT(30) DEF WriterInv
      <3>3. at[Last] # PrefixLen + size[Last]
        <4>1. size \in Seq(Nat \ {0}) /\ Len(size) = Len(at)
          BY <1>1 DEF WriterInv
        <4>2. size[Last] \in Nat
          BY <3>1, <4>1
        <4>3. QED
          BY <3>1, <3>2, <4>2, WireAssumption
      <3>4. size' = size /\ stream' = Append(stream, [msg |-> Last, byte |-> at[Last] + 1])
        BY <2>3 DEF WriteByte
      <3>5. \A m \in 1..(Len(at) - 1) : at'[m] = at[m]
        BY <1>1, <3>1
      <3>6. ASSUME NEW c \in Places, Chain(at, buf, stream, c)
            PROVE  Chain(at', buf, stream', c)
        <4>1. /\ c \in Byte /\ c.msg \in 0..Len(at)
              /\ OfMessages(at, buf) /\ OfMessages(at, stream)
          BY <1>1, PlaceType
        <4>2. buf \in Seq(Byte) /\ stream \in Seq(Byte)
          BY <1>1 DEF ReaderInv
        <4>3. Len(at) # 0 /\ at'[Len(at)] = at[Len(at)] + 1
          BY <1>1, <3>1
        <4>4. stream' = Append(stream, [msg |-> Len(at), byte |-> at[Len(at)] + 1])
          BY <3>1, <3>4
        <4>5. QED
          BY <3>1, <3>2, <3>5, <3>6, <4>1, <4>2, <4>3, <4>4, ChainWritten
      <3>7. QED
        BY <3>1, <3>3, <3>4, <3>6
    <2>4. QED
      BY <2>1, <2>2, <2>3
  <1>4. ReadsAreWritesInOrder'
    BY <1>1, <1>2, <1>3, OrderStands
  <1>5. ASSUME ~Failed PROVE \E c \in Places' : Chain(at', buf', stream', c) /\ InStep(c)'
    <2>1. PICK c \in Places : Chain(at, buf, stream, c) /\ InStep(c)
      BY <1>1, <1>5 DEF Reading
    <2>2. \A m \in 1..(Len(at) - 1) : at'[m] = at[m]
      BY <1>1, <1>3
    <2>3. InStep(c)'
      BY <1>1, <1>3, <2>1, <2>2, InStepStands
    <2>4. Chain(at', buf', stream', c) /\ c \in Places'
      BY <1>2, <1>3, <2>1
    <2>5. QED
      BY <2>3, <2>4
  <1>6. QED
    BY <1>2, <1>4, <1>5 DEF Stands, Reading

(* A read that ends in an error (wire.rs 77-89). *)
LEMMA ErrorStands ==
    ASSUME Steps, ~Failed, UNCHANGED <<size, at, stream>>, Finish(0)
    PROVE  Stands
  <1>1. ReaderInv /\ ReadsAreWritesInOrder /\ Len(at) \in Nat /\ got \in Seq(Nat)
    <2>1. WriterInv /\ ReaderInv /\ ReadsAreWritesInOrder
      BY DEF Steps, WireInv
    <2>2. at \in Seq(Nat) /\ got \in Seq(Nat)
      BY <2>1 DEF WriterInv, ReaderInv
    <2>3. QED
      BY <2>1, <2>2
  <1>2. ReadsAreWritesInOrder'
    BY <1>1, OrderGrows DEF Finish
  <1>3. Failed'
    BY <1>1 DEF Finish, Failed
  <1>4. QED
    BY <1>2, <1>3 DEF Stands, Reading

(* A byte taken: within a prefix it is its message's next, or it is the first of
   another message and the prefix is torn (wire.rs 77, 85). *)
LEMMA TakenStands ==
    ASSUME Steps, ReadByte
    PROVE  Stands
  <1>1. /\ WriterInv /\ ReaderInv /\ Reading /\ ReadsAreWritesInOrder
        /\ UNCHANGED <<size, at, want, got>> /\ ~Failed /\ stream # <<>>
        /\ buf' = Append(buf, Head(stream)) /\ stream' = Tail(stream)
    BY DEF Steps, WireInv, ReadByte, writer
  <1>2. /\ buf \in Seq(Byte) /\ stream \in Seq(Byte) /\ Len(at) \in Nat /\ Len(buf) \in Nat
        /\ \A k \in 1..Len(stream) : stream[k] \in Handed
        /\ \A k \in 1..Len(buf) : buf[k] \in Byte
    <2>1. buf \in Seq(Byte) /\ stream \in Seq(Byte) /\ at \in Seq(Nat)
      BY <1>1 DEF WriterInv, ReaderInv
    <2>2. QED
      BY <1>1, <2>1 DEF ReaderInv
  <1>3. PICK c \in Places : Chain(at, buf, stream, c) /\ InStep(c)
    BY <1>1 DEF Reading
  <1>4. /\ c \in Byte /\ (c.msg # 0 => c.byte >= 1 /\ c.byte <= at[c.msg] /\ c.msg \in 1..Len(at))
        /\ (c.msg = 0 => c.byte = 0)
    BY <1>1, PlaceType
  <1>5. Chain(at', buf', stream', c)
    BY <1>1, <1>2, <1>3, ChainTaken
  <1>6. DEFINE e == stream[1]
               n == Len(buf)
  <1>7. /\ e \in Handed /\ e \in Byte /\ Head(stream) = e
        /\ e.msg \in 1..Len(at) /\ e.byte \in Nat /\ e.byte <= at[e.msg] /\ e.msg \in Nat
        /\ e = [msg |-> e.msg, byte |-> e.byte]
    <2>1. 1 \in 1..Len(stream) /\ Head(stream) = stream[1]
      BY <1>1, <1>2
    <2>2. stream[1] \in Handed /\ stream[1] \in Byte
      BY <1>2, <2>1
    <2>3. QED
      BY <2>1, <2>2 DEF Handed, Byte
  <1>8. /\ n = 0 => Follows(at, c, e)
        /\ n # 0 => Follows(at, buf[n], e)
    <2>1. n = 0 <=> buf = <<>>
      BY <1>2
    <2>2. QED
      BY <1>1, <1>2, <1>3, <2>1, ChainFollows
  <1>9. /\ n \in Nat /\ Len(buf') = n + 1 /\ buf'[n + 1] = e
        /\ \A k \in 1..n : buf'[k] = buf[k]
    BY <1>1, <1>2, <1>7
  <1> HIDE DEF e, n
  <1>10. ASSUME want = 0 PROVE Prefixes(buf', n + 1)
    <2>1. /\ c.msg = LastGot /\ (c.msg # 0 => c.byte = PrefixLen + size[c.msg])
          /\ \A k \in 1..n : Prefixes(buf, k)
      BY <1>3, <1>10 DEF InStep, n
    <2>2. CASE n = 0
      <3>1. ~(e.msg = c.msg /\ e.byte = c.byte + 1)
        <4>1. ASSUME e.msg = c.msg, e.byte = c.byte + 1 PROVE FALSE
          <5>1. at[e.msg] <= PrefixLen + size[e.msg] /\ at[e.msg] \in Nat /\ size[e.msg] \in Nat
            BY <1>1, <1>7, SMTT(30) DEF WriterInv
          <5>2. c.byte = PrefixLen + size[e.msg] /\ PrefixLen \in Nat
            BY <1>7, <2>1, <4>1, WireAssumption
          <5>3. QED
            BY <1>7, <4>1, <5>1, <5>2
        <4>2. QED
          BY <4>1
      <3>2. e.byte = 1
        BY <1>8, <2>2, <3>1 DEF Follows
      <3>3. buf'[1] = e /\ e = [msg |-> e.msg, byte |-> 1]
        BY <1>7, <1>9, <2>2, <3>2
      <3>4. \A j \in 1..(n + 1) : buf'[j] = [msg |-> buf'[1].msg, byte |-> j]
        <4>1. \A j \in 1..(n + 1) : j = 1
          BY <2>2
        <4>2. QED
          BY <3>3, <4>1
      <3>5. QED
        BY <3>4 DEF Prefixes
    <2>3. CASE n # 0
      <3>1. n \in 1..n /\ buf[n] \in Byte /\ buf[n].byte \in Nat /\ buf[n].msg \in Nat
        BY <1>2, <1>9, <2>3 DEF n, Byte
      <3>2. Prefixes(buf, n) /\ Follows(at, buf[n], e)
        BY <1>8, <2>1, <2>3, <3>1
      <3>3. CASE e.byte = 1
        <4>1. buf'[n + 1].byte < n + 1
          BY <1>9, <2>3, <3>3
        <4>2. QED
          BY <4>1 DEF Prefixes
      <3>4. CASE e.msg = buf[n].msg /\ e.byte = buf[n].byte + 1 /\ buf[n].byte < n
        <4>1. buf'[n + 1].byte < n + 1
          BY <1>9, <3>1, <3>4
        <4>2. QED
          BY <4>1 DEF Prefixes
      <3>5. CASE /\ e.msg = buf[n].msg /\ e.byte = buf[n].byte + 1
                 /\ \A j \in 1..n : buf[j] = [msg |-> buf[1].msg, byte |-> j]
        <4>1. buf[n] = [msg |-> buf[1].msg, byte |-> n]
          BY <3>1, <3>5
        <4>2. e = [msg |-> buf[1].msg, byte |-> n + 1]
          BY <1>7, <3>5, <4>1
        <4>3. buf'[1] = buf[1]
          BY <1>9, <2>3
        <4>4. ASSUME NEW j \in 1..(n + 1) PROVE buf'[j] = [msg |-> buf'[1].msg, byte |-> j]
          <5>1. j = n + 1 \/ j \in 1..n
            BY <1>9
          <5>2. QED
            BY <1>9, <3>5, <4>2, <4>3, <5>1
        <4>5. QED
          BY <4>4 DEF Prefixes
      <3>6. QED
        BY <3>2, <3>3, <3>4, <3>5 DEF Follows, Prefixes
    <2>4. QED
      BY <2>2, <2>3
  <1>11. ASSUME want = 0, NEW k \in 1..n PROVE Prefixes(buf', k)
    <2>1. Prefixes(buf, k)
      BY <1>3, <1>11 DEF InStep, n
    <2>2. buf'[k] = buf[k] /\ buf'[1] = buf[1] /\ \A j \in 1..k : buf'[j] = buf[j]
      BY <1>9
    <2>3. QED
      BY <2>1, <2>2 DEF Prefixes
  <1>12. InStep(c)'
    <2>1. CASE want = 0
      <3>1. \A k \in 1..Len(buf') : k = n + 1 \/ k \in 1..n
        BY <1>9
      <3>2. \A k \in 1..Len(buf') : Prefixes(buf', k)
        BY <1>10, <1>11, <2>1, <3>1
      <3>3. QED
        BY <1>1, <1>3, <2>1, <3>2 DEF InStep, LastGot
    <2>2. CASE want # 0
      BY <1>1, <1>3, <2>2 DEF InStep, LastGot
    <2>3. QED
      BY <2>1, <2>2
  <1>13. Places' = Places
    BY <1>1 DEF Places, Handed
  <1>14. ReadsAreWritesInOrder'
    BY <1>1, <1>2, OrderStands
  <1>15. QED
    BY <1>3, <1>5, <1>12, <1>13, <1>14 DEF Stands, Reading

(* A length taken: after one message's own prefix it is that message's, and
   otherwise the place it was read at is before any body (wire.rs 76-83). *)
LEMMA PrefixStands ==
    ASSUME Steps, ReadPrefix
    PROVE  Stands
  <1>1. /\ WriterInv /\ ReaderInv /\ Reading /\ ReadsAreWritesInOrder
        /\ UNCHANGED <<size, at, stream>> /\ ~Failed /\ want = 0 /\ Len(buf) = PrefixLen
    BY DEF Steps, WireInv, ReadPrefix, writer
  <1>2. /\ buf \in Seq(Byte) /\ stream \in Seq(Byte) /\ Len(at) \in Nat
        /\ PrefixLen \in Nat \ {0} /\ PrefixLen \in 1..Len(buf) /\ 1 \in 1..Len(buf)
        /\ buf # <<>>
    <2>1. buf \in Seq(Byte) /\ stream \in Seq(Byte) /\ at \in Seq(Nat)
      BY <1>1 DEF WriterInv, ReaderInv
    <2>2. QED
      BY <1>1, <2>1, WireAssumption
  <1>3. PICK len \in from_be_bytes(buf) :
           IF len > MAX_MSG_SIZE \/ len = 0 THEN Finish(0)
           ELSE want' = len /\ buf' = <<>> /\ UNCHANGED got
    BY DEF ReadPrefix
  <1>4. CASE len > MAX_MSG_SIZE \/ len = 0
    BY <1>1, <1>3, <1>4, ErrorStands
  <1>5. CASE ~(len > MAX_MSG_SIZE \/ len = 0)
    <2>1. want' = len /\ want' # 0 /\ buf' = <<>> /\ got' = got
      BY <1>3, <1>5
    <2>2. PICK c \in Places : Chain(at, buf, stream, c) /\ InStep(c)
      BY <1>1 DEF Reading
    <2>3. c \in Byte /\ (c.msg # 0 => c.byte >= 1) /\ c.byte \in Nat
      <3>1. c \in Byte /\ (c.msg # 0 => c.byte >= 1)
        BY <1>1, PlaceType
      <3>2. QED
        BY <3>1 DEF Byte
    <2>4. DEFINE d == buf[PrefixLen]
    <2>5. d \in Handed /\ d \in Places
      BY <1>1, <1>2 DEF ReaderInv, Places
    <2>6. Chain(at, <<>>, stream, d)
      BY <1>1, <1>2, <2>2, ChainUsed
    <2>7. /\ c.msg = LastGot /\ (c.msg # 0 => c.byte = PrefixLen + size[c.msg])
          /\ Prefixes(buf, PrefixLen)
      BY <1>1, <1>2, <2>2 DEF InStep
    <2>8. \/ d.byte < PrefixLen
          \/ /\ d.byte = PrefixLen /\ len = size[d.msg]
             /\ LastGot < d.msg /\ Unwritten(at, LastGot, d.msg - 1)
      <3>1. CASE buf[PrefixLen].byte < PrefixLen
        BY <3>1
      <3>2. CASE \A j \in 1..PrefixLen : buf[j] = [msg |-> buf[1].msg, byte |-> j]
        <4>1. len = size[buf[1].msg]
          BY <1>3, <3>2 DEF from_be_bytes
        <4>2. 1 \in 1..PrefixLen /\ PrefixLen \in 1..PrefixLen
          BY <1>2
        <4>3. /\ buf[1] = [msg |-> buf[1].msg, byte |-> 1]
              /\ buf[PrefixLen] = [msg |-> buf[1].msg, byte |-> PrefixLen]
          BY <3>2, <4>2
        <4>4. buf[1].byte = 1 /\ d.msg = buf[1].msg /\ d.byte = PrefixLen
          BY <4>3
        <4>5. Follows(at, c, buf[1])
          BY <1>2, <2>2, ChainFollows
        <4>6. buf[1] \in Handed /\ buf[1].msg \in 1..Len(at)
          BY <1>1, <1>2 DEF ReaderInv, Handed
        <4>7. ~(buf[1].msg = c.msg /\ buf[1].byte = c.byte + 1)
          <5>1. ASSUME buf[1].msg = c.msg, buf[1].byte = c.byte + 1 PROVE FALSE
            <6>1. c.msg # 0 /\ c.byte >= 1
              BY <1>2, <2>3, <4>6, <5>1
            <6>2. QED
              BY <2>3, <4>4, <5>1, <6>1
          <5>2. QED
            BY <5>1
        <4>8. c.msg < buf[1].msg /\ Unwritten(at, c.msg, buf[1].msg - 1)
          BY <4>5, <4>7 DEF Follows
        <4>9. QED
          BY <2>7, <4>1, <4>4, <4>8
      <3>3. QED
        BY <2>7, <3>1, <3>2 DEF Prefixes
    <2> HIDE DEF d
    <2>9. \E x \in Places : Chain(at, <<>>, stream, x)
                            /\ \/ x.byte < PrefixLen
                               \/ /\ x.byte = PrefixLen /\ want' = size[x.msg]
                                  /\ LastGot < x.msg /\ Unwritten(at, LastGot, x.msg - 1)
      BY <2>1, <2>5, <2>6, <2>8
    <2>10. Places' = Places /\ LastGot' = LastGot
      BY <1>1, <2>1 DEF Places, Handed, LastGot
    <2>11. Reading'
      BY <1>1, <2>1, <2>9, <2>10 DEF Reading, InStep
    <2>12. ReadsAreWritesInOrder'
      BY <1>1, <1>2, <2>1, OrderStands
    <2>13. QED
      BY <2>11, <2>12 DEF Stands
  <1>6. QED
    BY <1>4, <1>5

(* A body taken: what parses is a message whose prefix was the last one read, all
   of it, and whole (wire.rs 84-89). *)
LEMMA BodyStands ==
    ASSUME Steps, ReadBody
    PROVE  Stands
  <1>1. /\ WriterInv /\ ReaderInv /\ Reading /\ ReadsAreWritesInOrder
        /\ UNCHANGED <<size, at, stream>> /\ ~Failed
        /\ want > 0 /\ Len(buf) = want /\ Finish(from_slice(buf))
    BY DEF Steps, WireInv, ReadBody, writer
  <1>2. CASE from_slice(buf) = 0
    BY <1>1, <1>2, ErrorStands
  <1>3. CASE from_slice(buf) # 0
    <2>1. DEFINE m == buf[1].msg
    <2>2. /\ from_slice(buf) = m /\ buf # <<>> /\ Len(buf) = size[m]
          /\ \A k \in DOMAIN buf : buf[k] = [msg |-> m, byte |-> PrefixLen + k]
      BY <1>3 DEF from_slice
    <2> HIDE DEF m
    <2>3. /\ buf \in Seq(Byte) /\ stream \in Seq(Byte) /\ got \in Seq(Nat)
          /\ Len(at) \in Nat /\ Len(buf) \in Nat \ {0} /\ PrefixLen \in Nat \ {0}
      <3>1. buf \in Seq(Byte) /\ stream \in Seq(Byte) /\ at \in Seq(Nat) /\ got \in Seq(Nat)
        BY <1>1 DEF WriterInv, ReaderInv
      <3>2. QED
        BY <2>2, <3>1, WireAssumption
    <2>4. 1 \in 1..Len(buf) /\ Len(buf) \in 1..Len(buf) /\ DOMAIN buf = 1..Len(buf)
      BY <2>3
    <2>5. /\ buf[1] = [msg |-> m, byte |-> PrefixLen + 1]
          /\ buf[Len(buf)] = [msg |-> m, byte |-> PrefixLen + size[m]]
      BY <2>2, <2>4
    <2>6. PICK c \in Places : Chain(at, buf, stream, c) /\ InStep(c)
      BY <1>1 DEF Reading
    <2>7. Follows(at, c, buf[1])
      BY <2>2, <2>3, <2>6, ChainFollows
    <2>8. c \in Byte /\ c.byte \in Nat /\ buf[1].byte = PrefixLen + 1 /\ buf[1].msg = m
      <3>1. c \in Byte
        BY <1>1, PlaceType
      <3>2. QED
        BY <2>5, <3>1 DEF Byte
    <2>9. c.msg = m /\ c.byte = PrefixLen
      <3>1. buf[1].byte # 1
        BY <2>3, <2>8
      <3>2. buf[1].msg = c.msg /\ buf[1].byte = c.byte + 1
        BY <2>7, <3>1 DEF Follows
      <3>3. QED
        BY <2>3, <2>8, <3>2
    <2>10. LastGot < m /\ Unwritten(at, LastGot, m - 1)
      BY <1>1, <2>3, <2>6, <2>9 DEF InStep
    <2>11. buf[Len(buf)] \in Handed /\ m \in 1..Len(at) /\ PrefixLen + size[m] <= at[m]
      <3>1. buf[Len(buf)] \in Handed
        BY <1>1, <2>4 DEF ReaderInv
      <3>2. QED
        BY <2>5, <3>1 DEF Handed
    <2>12. at[m] = PrefixLen + size[m] /\ m \in Nat
      <3>1. at \in Seq(Nat) /\ size \in Seq(Nat \ {0}) /\ Len(size) = Len(at)
            /\ at[m] <= PrefixLen + size[m]
        BY <1>1, <2>11 DEF WriterInv
      <3>2. at[m] \in Nat /\ size[m] \in Nat /\ m \in Nat
        BY <2>11, <3>1
      <3>3. QED
        <4>1. PrefixLen + size[m] \in Nat
          BY <2>3, <3>2
        <4>2. QED
          BY <2>11, <3>1, <3>2, <4>1
    <2>13. size[m] <= MAX_MSG_SIZE
      BY <1>1, <2>2 DEF ReaderInv
    <2>14. got' = Append(got, m) /\ buf' = <<>> /\ want' = 0
      BY <1>1, <2>2 DEF Finish
    <2>15. ReadsAreWritesInOrder'
      BY <1>1, <2>3, <2>10, <2>12, <2>13, <2>14, OrderGrows
    <2>16. /\ buf[Len(buf)] \in Places /\ Chain(at, <<>>, stream, buf[Len(buf)])
           /\ buf[Len(buf)].msg = m /\ buf[Len(buf)].byte = PrefixLen + size[m]
      BY <2>2, <2>3, <2>5, <2>6, <2>11, ChainUsed DEF Places
    <2>17. LastGot' = m /\ Places' = Places
      <3>1. got' # <<>> /\ got'[Len(got')] = m
        <4>1. Len(got') = Len(got) + 1 /\ got'[Len(got) + 1] = m /\ Len(got) \in Nat
          BY <2>3, <2>12, <2>14
        <4>2. Len(got') # 0
          BY <4>1
        <4>3. QED
          BY <4>1, <4>2
      <3>2. QED
        BY <1>1, <3>1 DEF LastGot, Places, Handed
    <2>18. \A k \in 1..Len(buf') : FALSE
      <3>1. Len(buf') = 0
        BY <2>14
      <3>2. QED
        BY <3>1
    <2>19. \E x \in Places : /\ Chain(at, <<>>, stream, x)
                             /\ x.msg = m /\ (x.msg # 0 => x.byte = PrefixLen + size[x.msg])
      BY <2>16
    <2>20. Reading'
      BY <1>1, <2>14, <2>17, <2>18, <2>19 DEF Reading, InStep
    <2>21. QED
      BY <2>15, <2>20 DEF Stands
  <1>4. QED
    BY <1>2, <1>3

(* Every step of either end keeps the two ends in step. *)
LEMMA WireStep == WireInv /\ [Next]_vars => WireInv'
  <1> SUFFICES ASSUME WireInv, [Next]_vars PROVE WireInv'
    OBVIOUS
  <1>1. Steps
    BY WriterStep, ReaderStep DEF Steps, WireInv
  <1>2. Stands
    <2>1. CASE ReadByte
      BY <1>1, <2>1, TakenStands
    <2>2. CASE ReadPrefix
      BY <1>1, <2>2, PrefixStands
    <2>3. CASE ReadBody
      BY <1>1, <2>3, BodyStands
    <2>4. CASE ReadEof
      BY <1>1, <2>4, ErrorStands DEF ReadEof, writer
    <2>5. CASE (\E n \in Sizes : BeginWrite(n)) \/ WriteByte
      BY <1>1, <2>5, WriterStands DEF BeginWrite, WriteByte
    <2>6. CASE Flush \/ WriteFails \/ DropWrite \/ StreamEnds \/ Done \/ UNCHANGED vars
      <3>1. UNCHANGED reader /\ UNCHANGED <<size, at, stream>>
        BY <2>6 DEF Flush, WriteFails, DropWrite, StreamEnds, Done, vars, writer
      <3>2. QED
        BY <1>1, <3>1, WriterStands
    <2>7. QED
      BY <2>1, <2>2, <2>3, <2>4, <2>5, <2>6 DEF Next
  <1>3. QED
    BY <1>1, <1>2 DEF Steps, Stands, WireInv

(* At the start neither end has done anything. *)
LEMMA WireInit == Init => WireInv
  <1> SUFFICES ASSUME Init PROVE WireInv
    OBVIOUS
  <1>1. /\ size = <<>> /\ result = <<>> /\ at = <<>> /\ stream = <<>>
        /\ buf = <<>> /\ want = 0 /\ got = <<>>
    BY DEF Init
  <1>2. WriterInv
    BY <1>1 DEF WriterInv, Writing
  <1>3. ReaderInv
    BY <1>1, WireAssumption DEF ReaderInv, Need
  <1>4. ReadsAreWritesInOrder
    BY <1>1 DEF ReadsAreWritesInOrder
  <1>5. Origin \in Places /\ Origin.msg = 0 /\ LastGot = 0
    BY <1>1 DEF Places, Origin, LastGot
  <1>6. Len(buf) = 0 /\ Len(stream) = 0 /\ Len(at) = 0
    BY <1>1
  <1>7. InStep(Origin)
    BY <1>1, <1>5, <1>6 DEF InStep
  <1>8. Chain(at, buf, stream, Origin)
    BY <1>5, <1>6 DEF Chain, Frontier, Unwritten, Nth
  <1>9. QED
    BY <1>2, <1>3, <1>4, <1>5, <1>7, <1>8 DEF WireInv, Reading

(* For every size of message, prefix and limit, any number of messages, dropped
   and refused writes and an end of the stream anywhere: until its first error
   the reader returns whole messages of the writer in order, and leaves out none
   that had a byte on the stream (wire.rs 57-89). *)
THEOREM ReadInOrder == Spec => []ReadsAreWritesInOrder
  <1>1. WireInv => ReadsAreWritesInOrder
    BY DEF WireInv
  <1>2. QED
    BY <1>1, WireInit, WireStep, PTL DEF Spec
=============================================================================
