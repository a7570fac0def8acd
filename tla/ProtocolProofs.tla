--------------------------- MODULE ProtocolProofs ----------------------------
(***************************************************************************)
(* The properties of Protocol, for any pipes and any number of packets.    *)
(***************************************************************************)
EXTENDS ProtocolInv, SequenceTheorems, CommonProofs

Bits == Seq({0, 1})

------------------------------------------------------------------------------
(***************************************************************************)
(* Reading what was written.                                               *)
(***************************************************************************)

\* The bits s are in "bits" from position "at" on.
Holds(bits, at, s) ==
  /\ at \in Nat \ {0}
  /\ at + Len(s) <= Len(bits) + 1
  /\ \A i \in 1 .. Len(s) : bits[at + i - 1] = s[i]

\* A concatenation, place by place.
LEMMA Concat ==
  ASSUME NEW a \in Bits, NEW b \in Bits
  PROVE  /\ a \o b \in Bits
         /\ Len(a \o b) = Len(a) + Len(b)
         /\ \A i \in 1 .. Len(a) : (a \o b)[i] = a[i]
         /\ \A i \in 1 .. Len(b) : (a \o b)[Len(a) + i] = b[i]
BY DEF Bits

\* Where the parts of a concatenation are.
LEMMA HoldsParts ==
  ASSUME NEW bits \in Bits, NEW a \in Bits, NEW b \in Bits, NEW at, Holds(bits, at, a \o b)
  PROVE  Holds(bits, at, a) /\ Holds(bits, at + Len(a), b)
<1>1. PICK c \in Bits : c = a \o b
  BY Concat
<1>2. /\ Len(c) = Len(a) + Len(b)
      /\ \A i \in 1 .. Len(a) : c[i] = a[i]
      /\ \A i \in 1 .. Len(b) : c[Len(a) + i] = b[i]
  BY <1>1, Concat
<1>3. Len(a) \in Nat /\ Len(b) \in Nat /\ Len(bits) \in Nat
  BY DEF Bits
<1>4. at \in Nat \ {0} /\ at + Len(c) <= Len(bits) + 1 /\ \A i \in 1 .. Len(c) : bits[at + i - 1] = c[i]
  BY <1>1 DEF Holds
<1>5. Holds(bits, at, a)
  <2>1. \A i \in 1 .. Len(a) : i \in 1 .. Len(c)
    BY <1>2, <1>3
  <2> QED
    BY <1>2, <1>3, <1>4, <2>1 DEF Holds
<1>6. Holds(bits, at + Len(a), b)
  <2>1. \A i \in 1 .. Len(b) : Len(a) + i \in 1 .. Len(c) /\ (at + Len(a)) + i - 1 = at + (Len(a) + i) - 1
    BY <1>2, <1>3, <1>4
  <2> QED
    BY <1>2, <1>3, <1>4, <2>1 DEF Holds
<1> QED
  BY <1>5, <1>6

\* A field is read as it was written.
LEMMA FieldRead ==
  ASSUME NEW bits \in Bits, NEW n \in 0 .. 32, NEW v \in 0 .. 2 ^ n - 1, NEW at,
         Holds(bits, at, BitsOf(v, n))
  PROVE  FieldAt(bits, at, n) = v /\ ~PastEnd(bits, at + n)
<1>1. 2 ^ n \in Nat
  <2>1. CASE n = 0
    BY <2>1
  <2>2. CASE n # 0
    BY <2>2, PowerOfTwo
  <2> QED
    BY <2>1, <2>2
<1>2. v \in Nat
  BY <1>1
<1>3. PICK s \in [1 .. n -> {0, 1}] : s = BitsOf(v, n) /\ Len(s) = n
  BY <1>2, BitsType
<1>4. at \in Nat \ {0} /\ at + n <= Len(bits) + 1 /\ \A i \in 1 .. n : bits[at + i - 1] = s[i]
  BY <1>3 DEF Holds
<1>5. SubSeq(bits, at, at + n - 1) = s
  <2>1. Len(bits) \in Nat /\ DOMAIN bits = 1 .. Len(bits)
    BY DEF Bits
  <2>2. PICK t : t = SubSeq(bits, at, at + n - 1)
    OBVIOUS
  <2>3. t = [i \in 1 .. n |-> bits[at + i - 1]]
    <3>1. (at + n - 1) - at + 1 = n
      BY <1>4
    <3>2. t = [i \in 1 .. (at + n - 1) - at + 1 |-> bits[i + at - 1]]
      BY <1>4, <2>1, <2>2 DEF Bits
    <3>3. \A i \in 1 .. n : i + at - 1 = at + i - 1
      BY <1>4
    <3> QED
      BY <3>1, <3>2, <3>3
  <2>4. s = [i \in 1 .. n |-> s[i]]
    OBVIOUS
  <2> QED
    BY <1>4, <2>2, <2>3, <2>4
<1>6. ReadsBackAt(n)
  BY AllReadable
<1>7. \A u \in 0 .. 2 ^ n - 1 : BitsOf(u, n) = s <=> u = v
  BY <1>3, <1>6 DEF ReadsBackAt
<1>8. FieldAt(bits, at, n) = v
  BY <1>5, <1>7 DEF FieldAt
<1>9. ~PastEnd(bits, at + n)
  <2>1. Len(bits) \in Nat
    BY DEF Bits
  <2> QED
    BY <1>4, <2>1 DEF PastEnd
<1> QED
  BY <1>8, <1>9

\* A field holds a number, whoever wrote it.
LEMMA FieldType ==
  ASSUME NEW bits \in Bits, NEW n \in 0 .. 32, NEW at \in Nat \ {0}, ~PastEnd(bits, at + n)
  PROVE  FieldAt(bits, at, n) \in 0 .. 2 ^ n - 1
<1>1. Len(bits) \in Nat /\ DOMAIN bits = 1 .. Len(bits) /\ at + n <= Len(bits) + 1
  BY DEF Bits, PastEnd
<1>2. PICK s : s = SubSeq(bits, at, at + n - 1)
  OBVIOUS
<1>3. s \in [1 .. n -> {0, 1}]
  <2>1. (at + n - 1) - at + 1 = n
    OBVIOUS
  <2>2. s = [i \in 1 .. (at + n - 1) - at + 1 |-> bits[i + at - 1]]
    BY <1>1, <1>2 DEF Bits
  <2>3. \A i \in 1 .. n : i + at - 1 \in 1 .. Len(bits)
    BY <1>1
  <2>4. \A i \in 1 .. n : bits[i + at - 1] \in {0, 1}
    BY <1>1, <2>3 DEF Bits
  <2> QED
    BY <2>1, <2>2, <2>4
<1>4. \E v \in 0 .. 2 ^ n - 1 : BitsOf(v, n) = s
  BY <1>3, AllReadable DEF ReadsBackAt
<1> QED
  BY <1>2, <1>4 DEF FieldAt

\* The widths of the fields, and that what is written fits in them.
LEMMA Widths ==
  ASSUME NEW max \in Nat, max < 2 ^ 32
  PROVE  /\ GetRequiredBits(max) \in 1 .. 32
         /\ \A x \in 0 .. max : x \in 0 .. 2 ^ GetRequiredBits(max) - 1
<1>1. PICK b \in 1 .. 32 : b = GetRequiredBits(max)
  BY RequiredBitsRange
<1>2. max < 2 ^ b
  BY <1>1, WidthFits
<1>3. 2 ^ b \in Nat
  BY PowerOfTwo
<1> QED
  BY <1>1, <1>2, <1>3

\* What is known of the pipes.
LEMMA PipeFacts ==
  ASSUME NEW e \in Ends, NEW c \in Channels(e)
  PROVE  /\ Other(e) \in Ends /\ Other(Other(e)) = e
         /\ PipeOf(e, c) \in Pipe /\ PipeOf(e, c).types \in Nat \ {0}
         /\ PipeOf(e, c).kind \in {"message", "variant"} \/ PipeOf(e, c).types = 1
         /\ c \in Nat /\ c \in 0 .. 2 ^ ChannelBits(e) - 1
         /\ ChannelBits(e) \in 1 .. 32 /\ TypeBits(PipeOf(e, c)) \in 1 .. 32
         /\ \A class \in 0 .. PipeOf(e, c).types - 1 :
              class \in Nat /\ class \in 0 .. 2 ^ TypeBits(PipeOf(e, c)) - 1
<1>1. Other(e) \in Ends /\ Other(Other(e)) = e
  BY DEF Ends, Other
<1>2. Pipes[e] \in Seq(Pipe) /\ Len(Pipes[e]) \in Nat
  BY PipesAssumption
<1>3. c \in 0 .. Len(Pipes[e]) - 1 /\ c + 1 \in DOMAIN Pipes[e]
  BY <1>2 DEF Channels
<1>4. PipeOf(e, c) \in Pipe
  BY <1>2, <1>3 DEF PipeOf
<1>5. PICK t \in Nat \ {0} : t = PipeOf(e, c).types
  BY <1>4 DEF Pipe
<1>6. t <= 2 ^ 30 /\ Len(Pipes[e]) <= 2 ^ 30
  BY <1>3, <1>5, CountAssumption DEF PipeOf
<1>7. PICK l \in Nat : l = Len(Pipes[e]) - 1 /\ l < 2 ^ 32 /\ c \in 0 .. l
  BY <1>2, <1>3, <1>6
<1>8. ChannelBits(e) \in 1 .. 32 /\ c \in 0 .. 2 ^ ChannelBits(e) - 1
  BY <1>7, Widths DEF ChannelBits
<1>9. PICK u \in Nat : u = t - 1 /\ u < 2 ^ 32
  BY <1>6
<1>10. TypeBits(PipeOf(e, c)) = GetRequiredBits(u)
  BY <1>5, <1>9 DEF TypeBits
<1>11. TypeBits(PipeOf(e, c)) \in 1 .. 32 /\ \A class \in 0 .. u : class \in 0 .. 2 ^ TypeBits(PipeOf(e, c)) - 1
  BY <1>9, <1>10, Widths
<1>12. PipeOf(e, c).kind \in {"message", "variant"} \/ PipeOf(e, c).types = 1
  BY <1>3, PipesAssumption DEF PipeOf
<1> QED
  BY <1>1, <1>3, <1>4, <1>5, <1>8, <1>9, <1>11, <1>12

\* The widths of slots and references.
LEMMA SlotFacts ==
  /\ SlotBits \in 1 .. 32 /\ RefReadBits \in 1 .. 32
  /\ \A s \in 0 .. DataStoreSize - 1 : s \in Nat /\ s \in 0 .. 2 ^ SlotBits - 1
  /\ \A s \in 0 .. DataStoreSize : s \in Nat /\ s \in 0 .. 2 ^ RefReadBits - 1
<1>1. PICK l \in Nat : l = DataStoreSize - 1 /\ l < 2 ^ 32
  BY WidthAssumption, CountAssumption
<1>2. DataStoreSize \in Nat /\ DataStoreSize < 2 ^ 32
  BY WidthAssumption, CountAssumption
<1>3. SlotBits \in 1 .. 32 /\ \A s \in 0 .. l : s \in 0 .. 2 ^ SlotBits - 1
  BY <1>1, Widths DEF SlotBits
<1>4. RefReadBits \in 1 .. 32 /\ \A s \in 0 .. DataStoreSize : s \in 0 .. 2 ^ RefReadBits - 1
  BY <1>2, Widths DEF RefReadBits
<1> QED
  BY <1>1, <1>2, <1>3, <1>4

\* The bits of a number.
LEMMA BitsAre ==
  ASSUME NEW v \in Nat, NEW n \in 0 .. 32
  PROVE  BitsOf(v, n) \in Bits /\ Len(BitsOf(v, n)) = n
BY BitsType DEF Bits

\* A packet holds what was written, and has been read when that has.
LEMMA PaddedHolds ==
  ASSUME NEW s \in Bits
  PROVE  Padded(s) \in Bits /\ Holds(Padded(s), 1, s) /\ IsEmpty(Padded(s), Len(s) + 1)
<1>1. Len(s) \in Nat
  BY DEF Bits
<1>2. ByteBits \in Nat \ {0} /\ ByteBits \in 1 .. 32
  BY WidthAssumption
<1>3. PICK l \in Nat : l = Len(s)
  BY <1>1
<1>4. PICK pad : pad = (ByteBits - (l % ByteBits)) % ByteBits
  OBVIOUS
<1>5. pad \in 0 .. ByteBits - 1 /\ (l + pad) \div ByteBits - l \div ByteBits <= 1
  BY <1>2, <1>4, PadsLittle
<1>6. pad \in 0 .. 32
  BY <1>2, <1>5
<1>7. PICK z \in Bits : z = BitsOf(0, pad) /\ Len(z) = pad
  BY <1>6, BitsAre
<1>8. PICK w \in Bits : w = s \o z
  BY Concat
<1>9. Padded(s) = w
  BY <1>3, <1>4, <1>7, <1>8 DEF Padded
<1>10. Len(w) = l + pad /\ \A i \in 1 .. l : w[i] = s[i]
  <2>1. Len(w) = Len(s) + Len(z) /\ \A i \in 1 .. Len(s) : w[i] = s[i]
    BY <1>8, Concat
  <2> QED
    BY <1>3, <1>7, <2>1
<1>11. Holds(w, 1, s)
  BY <1>3, <1>6, <1>10 DEF Holds
<1>12. IsEmpty(w, l + 1)
  <2>1. (l + 1) - 1 = l
    OBVIOUS
  <2> QED
    BY <1>5, <1>10, <2>1 DEF IsEmpty
<1> QED
  BY <1>3, <1>9, <1>11, <1>12

\* The number v fits in n bits.
Fits(v, n) == n \in 1 .. 32 /\ v \in 0 .. 2 ^ n - 1

\* The bits w are a header, and then s.
Headed(w, ack, c, n, s) ==
  /\ ack \in {0, 1} /\ Fits(c, n) /\ s \in Bits
  /\ w = (BitsOf(ack, 1) \o BitsOf(c, n)) \o s

\* The header of a packet is read as it was written.
LEMMA HeaderRead ==
  ASSUME NEW w, NEW ack, NEW c, NEW n, NEW s, Headed(w, ack, c, n, s), NEW bits \in Bits,
         Holds(bits, 1, w)
  PROVE  /\ bits[1] = ack /\ FieldAt(bits, 2, n) = c /\ ~PastEnd(bits, 2 + n)
         /\ Holds(bits, 2 + n, s) /\ w \in Bits /\ Len(w) = 1 + n + Len(s)
<1> USE DEF Headed
<1>1. /\ 2 ^ n \in Nat /\ c \in Nat /\ ack \in Nat /\ n \in 0 .. 32 /\ 1 \in 0 .. 32
      /\ ack \in {0, 1} /\ n \in 1 .. 32 /\ c \in 0 .. 2 ^ n - 1 /\ s \in Bits
      /\ w = (BitsOf(ack, 1) \o BitsOf(c, n)) \o s
  BY PowerOfTwo DEF Fits
<1> HIDE DEF Headed
<1>2. PICK a \in Bits : a = BitsOf(ack, 1) /\ Len(a) = 1
  BY <1>1, BitsAre
<1>3. a[1] = ack
  <2>1. a[1] = (ack \div 2 ^ (1 - 1)) % 2
    BY <1>2 DEF BitsOf
  <2> QED
    BY <1>1, <2>1
<1>4. PICK b \in Bits : b = BitsOf(c, n) /\ Len(b) = n
  BY <1>1, BitsAre
<1>5. PICK h \in Bits : h = a \o b /\ Len(h) = 1 + n
  <2>1. a \o b \in Bits /\ Len(a \o b) = Len(a) + Len(b)
    BY Concat
  <2> QED
    BY <1>2, <1>4, <2>1
<1>6. w = h \o s /\ w \in Bits /\ Len(w) = 1 + n + Len(s)
  <2>1. w = h \o s
    BY <1>1, <1>2, <1>4, <1>5
  <2>2. h \o s \in Bits /\ Len(h \o s) = Len(h) + Len(s)
    BY <1>1, Concat
  <2> QED
    BY <1>5, <2>1, <2>2
<1>7. Holds(bits, 1, h) /\ Holds(bits, 1 + Len(h), s)
  BY <1>1, <1>6, HoldsParts
<1>8. Holds(bits, 1, a) /\ Holds(bits, 1 + Len(a), b)
  BY <1>5, <1>7, HoldsParts
<1>9. bits[1] = ack
  BY <1>2, <1>3, <1>8 DEF Holds
<1>10. 1 + Len(h) = 2 + n /\ 1 + Len(a) = 2
  <2>1. 1 + (1 + n) = 2 + n /\ 1 + 1 = 2
    BY <1>1
  <2> QED
    BY <1>2, <1>5, <2>1
<1>11. Holds(bits, 2, BitsOf(c, n)) /\ n \in 0 .. 32
  BY <1>1, <1>4, <1>8, <1>10
<1>12. FieldAt(bits, 2, n) = c /\ ~PastEnd(bits, 2 + n)
  BY <1>1, <1>11, FieldRead
<1> QED
  BY <1>6, <1>7, <1>9, <1>10, <1>12

------------------------------------------------------------------------------
(***************************************************************************)
(* The handlers.                                                           *)
(***************************************************************************)

\* A handler begins after the header, and calls back with what was written or
\* passes over it.  A third outcome is a crash.
Start(ack, c, a) ==
  [result |-> "none", ack |-> ack, channel |-> c, class |-> 0, val |-> 0, at |-> a]
Called(ack, c, class, val, a) ==
  [result |-> "callback", ack |-> ack, channel |-> c, class |-> class, val |-> val, at |-> a]
Outcome(r, result, ack, c) == r.result = result /\ r.ack = ack /\ r.channel = c

\* What GotMessage begins with.
LEMMA StartOf ==
  ASSUME NEW ack, NEW c, NEW a, NEW got, got = [Nobody EXCEPT !.ack = ack, !.channel = c, !.at = a]
  PROVE  got = Start(ack, c, a)
BY DEF Nobody, Start

\* The bits f are those of a number in n bits, and then s.
Begins(f, v, n, s) == Fits(v, n) /\ s \in Bits /\ f = BitsOf(v, n) \o s

\* The field of a number, and what follows it.
LEMMA TwoFields ==
  ASSUME NEW v, NEW n, NEW s, NEW f, Begins(f, v, n, s), NEW bits \in Bits, NEW a,
         Holds(bits, a, f)
  PROVE  /\ a \in Nat \ {0} /\ n \in Nat
         /\ FieldAt(bits, a, n) = v /\ ~PastEnd(bits, a + n) /\ Holds(bits, a + n, s)
         /\ f \in Bits /\ Len(f) = n + Len(s)
<1>1. /\ 2 ^ n \in Nat /\ v \in Nat /\ n \in 0 .. 32 /\ v \in 0 .. 2 ^ n - 1
      /\ s \in Bits /\ f = BitsOf(v, n) \o s
  BY PowerOfTwo DEF Fits, Begins
<1>2. PICK b \in Bits : b = BitsOf(v, n) /\ Len(b) = n
  BY <1>1, BitsAre
<1>3. Holds(bits, a, b) /\ Holds(bits, a + Len(b), s)
  BY <1>1, <1>2, HoldsParts
<1>4. FieldAt(bits, a, n) = v /\ ~PastEnd(bits, a + n)
  BY <1>1, <1>2, <1>3, FieldRead
<1>5. a \in Nat \ {0}
  BY <1>3 DEF Holds
<1>6. b \o s \in Bits /\ Len(b \o s) = Len(b) + Len(s)
  BY <1>1, Concat
<1> QED
  BY <1>1, <1>2, <1>3, <1>4, <1>5, <1>6

\* A payload is read as it was written.
LEMMA PayloadRead ==
  ASSUME NEW val, Fits(val, ValueBits), NEW bits \in Bits, NEW a,
         Holds(bits, a, BitsOf(val, ValueBits))
  PROVE  FieldAt(bits, a, ValueBits) = val /\ ~PastEnd(bits, a + ValueBits)
<1>1. ValueBits \in 0 .. 32 /\ val \in 0 .. 2 ^ ValueBits - 1
  BY DEF Fits
<1> QED
  BY <1>1, FieldRead

\* The bits of a payload.
LEMMA PayloadBits ==
  ASSUME NEW val, Fits(val, ValueBits)
  PROVE  /\ ValueBits \in 1 .. 32 /\ val \in Nat
         /\ BitsOf(val, ValueBits) \in Bits /\ Len(BitsOf(val, ValueBits)) = ValueBits
<1>1. ValueBits \in 0 .. 32 /\ ValueBits \in 1 .. 32 /\ val \in 0 .. 2 ^ ValueBits - 1
  BY DEF Fits
<1>2. 2 ^ ValueBits \in Nat /\ val \in Nat
  BY <1>1, PowerOfTwo
<1> QED
  BY <1>1, <1>2, BitsAre

\* A message or variant of a type, with a payload, in the bits f.
Typed(pipe, class, val, f) ==
  /\ Fits(class, TypeBits(pipe)) /\ Fits(val, ValueBits)
  /\ f = BitsOf(class, TypeBits(pipe)) \o BitsOf(val, ValueBits)

\* What a type and a payload are read as.
LEMMA TypedRead ==
  ASSUME NEW pipe, NEW class, NEW val, NEW f, Typed(pipe, class, val, f), NEW bits \in Bits,
         NEW a, NEW c, Holds(bits, a, f)
  PROVE  \E read :
           /\ read = WithType(pipe, Start(0, c, a), bits)
           /\ ~PastEnd(bits, read.at) /\ read.class = class
           /\ CallWith(read, bits, read.class, read.at) = Called(0, c, class, val, a + Len(f))
           /\ Outcome(Ignored(read), "ignored", 0, c)
           /\ Outcome([read EXCEPT !.result = "crash"], "crash", 0, c)
           /\ f \in Bits
<1>1. PICK n : n = TypeBits(pipe)
  OBVIOUS
<1>2. Fits(val, ValueBits)
  BY DEF Typed
<1>3. PICK s \in Bits : s = BitsOf(val, ValueBits) /\ Len(s) = ValueBits
  BY <1>2, PayloadBits
<1>4. Begins(f, class, n, s)
  BY <1>1, <1>3 DEF Begins, Typed
<1>5. /\ a \in Nat \ {0} /\ n \in Nat
      /\ FieldAt(bits, a, n) = class /\ ~PastEnd(bits, a + n) /\ Holds(bits, a + n, s)
      /\ f \in Bits /\ Len(f) = n + Len(s)
  BY <1>4, TwoFields
<1>6. PICK read : read = WithType(pipe, Start(0, c, a), bits)
  OBVIOUS
<1>7. read = [result |-> "none", ack |-> 0, channel |-> c, class |-> class, val |-> 0, at |-> a + n]
  BY <1>1, <1>5, <1>6 DEF WithType, TypeAt, Start
<1>8. PICK b : b = a + n
  OBVIOUS
<1>9. Holds(bits, b, BitsOf(val, ValueBits))
  BY <1>3, <1>5, <1>8
<1>10. CallWith(read, bits, class, b) =
         [read EXCEPT !.result = "callback", !.class = class, !.val = val, !.at = b + ValueBits]
  <2>1. FieldAt(bits, b, ValueBits) = val /\ ~PastEnd(bits, b + ValueBits)
    BY <1>2, <1>9, PayloadRead
  <2> QED
    BY <2>1 DEF CallWith
<1>11. b + ValueBits = a + Len(f)
  BY <1>2, <1>3, <1>5, <1>8, PayloadBits
<1>12. CallWith(read, bits, class, b) = Called(0, c, class, val, a + Len(f))
  BY <1>7, <1>10, <1>11 DEF Called
<1> QED
  BY <1>5, <1>6, <1>7, <1>8, <1>12 DEF Outcome, Ignored

\* A message pipe calls back with the type and payload, if anybody wants them.
LEMMA TypedRight ==
  ASSUME NEW pipe, NEW class, NEW val, NEW f, Typed(pipe, class, val, f), NEW bits \in Bits,
         NEW a, NEW c, Holds(bits, a, f)
  PROVE  /\ f \in Bits
         /\ \/ GotTypedMessage(pipe, Start(0, c, a), bits) = Called(0, c, class, val, a + Len(f))
            \/ Outcome(GotTypedMessage(pipe, Start(0, c, a), bits), "ignored", 0, c)
<1>1. PICK read :
        /\ read = WithType(pipe, Start(0, c, a), bits)
        /\ ~PastEnd(bits, read.at) /\ read.class = class
        /\ CallWith(read, bits, read.class, read.at) = Called(0, c, class, val, a + Len(f))
        /\ Outcome(Ignored(read), "ignored", 0, c)
        /\ Outcome([read EXCEPT !.result = "crash"], "crash", 0, c)
        /\ f \in Bits
  BY TypedRead
<1>2. PICK r : r = GotTypedMessage(pipe, Start(0, c, a), bits)
  OBVIOUS
<1>3. r = CallWith(read, bits, read.class, read.at) \/ r = Ignored(read)
  BY <1>1, <1>2 DEF GotTypedMessage
<1> QED
  BY <1>1, <1>2, <1>3

\* So does a variant pipe, unless it misses the default of the type.
LEMMA VariantRight ==
  ASSUME NEW pipe, NEW class, NEW val, NEW f, Typed(pipe, class, val, f), NEW bits \in Bits,
         NEW a, NEW c, Holds(bits, a, f), ~(class >= pipe.types)
  PROVE  /\ f \in Bits
         /\ \/ GotVariant(pipe, Start(0, c, a), bits) = Called(0, c, class, val, a + Len(f))
            \/ Outcome(GotVariant(pipe, Start(0, c, a), bits), "ignored", 0, c)
            \/ /\ Outcome(GotVariant(pipe, Start(0, c, a), bits), "crash", 0, c)
               /\ class \in pipe.typed \ pipe.defaults
<1>1. PICK read :
        /\ read = WithType(pipe, Start(0, c, a), bits)
        /\ ~PastEnd(bits, read.at) /\ read.class = class
        /\ CallWith(read, bits, read.class, read.at) = Called(0, c, class, val, a + Len(f))
        /\ Outcome(Ignored(read), "ignored", 0, c)
        /\ Outcome([read EXCEPT !.result = "crash"], "crash", 0, c)
        /\ f \in Bits
  BY TypedRead
<1>2. PICK r : r = GotVariant(pipe, Start(0, c, a), bits)
  OBVIOUS
<1>3. ~(read.class >= pipe.types)
  BY <1>1
<1>4. \/ r = CallWith(read, bits, read.class, read.at)
      \/ r = Ignored(read)
      \/ r = [read EXCEPT !.result = "crash"] /\ class \in pipe.typed \ pipe.defaults
  BY <1>1, <1>2, <1>3 DEF GotVariant
<1> QED
  BY <1>1, <1>2, <1>4

\* A full-state pipe calls back with the state, if there is a default.
LEMMA StateRight ==
  ASSUME NEW pipe, NEW val, Fits(val, ValueBits), NEW bits \in Bits,
         NEW a, NEW c, Holds(bits, a, StateFields(val))
  PROVE  /\ StateFields(val) \in Bits
         /\ \/ GotState(pipe, Start(0, c, a), bits) = Called(0, c, 0, val, a + Len(StateFields(val)))
            \/ Outcome(GotState(pipe, Start(0, c, a), bits), "ignored", 0, c)
<1>1. PICK f \in Bits : f = StateFields(val) /\ f = BitsOf(val, ValueBits) /\ Len(f) = ValueBits
  BY PayloadBits DEF StateFields
<1>2. FieldAt(bits, a, ValueBits) = val /\ ~PastEnd(bits, a + ValueBits)
  BY <1>1, PayloadRead
<1>3. PICK r : r = GotState(pipe, Start(0, c, a), bits)
  OBVIOUS
<1>4. r = Called(0, c, 0, val, a + ValueBits) \/ Outcome(r, "ignored", 0, c)
  BY <1>2, <1>3 DEF GotState, CallWith, Start, Called, Outcome, Ignored
<1> QED
  BY <1>1, <1>3, <1>4

\* A buffer pipe calls back with as many bytes as were sent.
LEMMA BufferRight ==
  ASSUME NEW size, Fits(size, SizeBits), NEW bits \in Bits, NEW a, NEW c,
         Holds(bits, a, BufferFields(size))
  PROVE  /\ BufferFields(size) \in Bits
         /\ GotBuffer(Start(0, c, a), bits) = Called(0, c, 0, size, a + Len(BufferFields(size)))
<1>1. SizeBits \in 1 .. 32 /\ 2 ^ SizeBits \in Nat /\ size \in Nat
  BY PowerOfTwo DEF Fits
<1>2. ByteBits \in 1 .. 32
  BY WidthAssumption
<1>3. PICK n \in Nat : n = size * ByteBits
  BY <1>1, <1>2
<1>4. PICK s : s = [i \in 1 .. n |-> 1]
  OBVIOUS
<1>5. s \in Bits /\ Len(s) = n
  BY <1>4 DEF Bits
<1>6. PICK f : f = BufferFields(size) /\ f = BitsOf(size, SizeBits) \o s
  BY <1>3, <1>4 DEF BufferFields
<1>7. Begins(f, size, SizeBits, s)
  BY <1>5, <1>6 DEF Begins
<1>8. Holds(bits, a, f)
  BY <1>6
<1>9. /\ a \in Nat \ {0}
      /\ FieldAt(bits, a, SizeBits) = size /\ ~PastEnd(bits, a + SizeBits) /\ Holds(bits, a + SizeBits, s)
      /\ f \in Bits /\ Len(f) = SizeBits + Len(s)
  BY <1>7, <1>8, TwoFields
<1>10. ~PastEnd(bits, a + SizeBits + n)
  <2>1. Len(bits) \in Nat
    BY DEF Bits
  <2> QED
    BY <1>1, <1>5, <1>9, <2>1 DEF Holds, PastEnd
<1>11. a + SizeBits + n = a + Len(f)
  BY <1>1, <1>5, <1>9
<1>12. PICK got : got = Start(0, c, a)
  OBVIOUS
<1>13. got.at = a
  BY <1>12 DEF Start
<1>14. GotBuffer(got, bits) = [got EXCEPT !.result = "callback", !.val = size, !.at = a + Len(f)]
  BY <1>3, <1>9, <1>10, <1>11, <1>13 DEF GotBuffer
<1>15. GotBuffer(got, bits) = Called(0, c, 0, size, a + Len(f))
  BY <1>12, <1>14 DEF Start, Called
<1> QED
  BY <1>6, <1>9, <1>12, <1>15

\* The fields of a delta to "e" on channel c, in the bits f.
DeltaIn(e, c, slot, ref, val, f) ==
  /\ ref \in filled[e][c] \cup {DataStoreSize}
  /\ slot \in 0 .. DataStoreSize - 1 /\ ref \in 0 .. DataStoreSize /\ Fits(val, ValueBits)
  /\ f = BitsOf(slot, SlotBits) \o BitsOf(ref, SlotBits) \o BitsOf(val, ValueBits)

\* A delta pipe calls back with the slot and the state, when sender and
\* receiver have the same width for the reference.
LEMMA DeltaRight ==
  ASSUME WidthsAgree, NEW e, NEW c, NEW slot, NEW ref, NEW val, NEW f,
         DeltaIn(e, c, slot, ref, val, f), NEW bits \in Bits, NEW a, Holds(bits, a, f)
  PROVE  f \in Bits /\ GotDelta(e, Start(0, c, a), bits) = Called(0, c, slot, val, a + Len(f))
<1>1. PICK n \in 1 .. 32 : n = SlotBits /\ n = RefReadBits
  BY SlotFacts DEF WidthsAgree
<1>2. /\ Fits(slot, n) /\ Fits(ref, n) /\ Fits(val, ValueBits)
      /\ slot \in Nat /\ ref \in Nat /\ n \in 0 .. 32 /\ ValueBits \in Nat
  BY <1>1, SlotFacts DEF DeltaIn, Fits
<1>3. PICK u \in Bits : u = BitsOf(slot, n) /\ Len(u) = n
  BY <1>2, BitsAre
<1>4. PICK v \in Bits : v = BitsOf(ref, n) /\ Len(v) = n
  BY <1>2, BitsAre
<1>5. PICK w \in Bits : w = BitsOf(val, ValueBits) /\ Len(w) = ValueBits
  BY <1>2, PayloadBits
<1>6. PICK g \in Bits : g = u \o v /\ Len(g) = n + n
  <2>1. u \o v \in Bits /\ Len(u \o v) = Len(u) + Len(v)
    BY Concat
  <2> QED
    BY <1>3, <1>4, <2>1
<1>7. f = g \o w
  BY <1>1, <1>3, <1>4, <1>5, <1>6 DEF DeltaIn
<1>8. f \in Bits /\ Len(f) = (n + n) + ValueBits
  <2>1. g \o w \in Bits /\ Len(g \o w) = Len(g) + Len(w)
    BY Concat
  <2> QED
    BY <1>5, <1>6, <1>7, <2>1
<1>9. Holds(bits, a, g) /\ Holds(bits, a + Len(g), w)
  BY <1>7, HoldsParts
<1>10. Begins(g, slot, n, v)
  BY <1>2, <1>3, <1>4, <1>6 DEF Begins
<1>11. a \in Nat \ {0} /\ FieldAt(bits, a, n) = slot /\ Holds(bits, a + n, v)
  BY <1>9, <1>10, TwoFields
<1>12. PICK b \in Nat \ {0} : b = a + n
  BY <1>11
<1>13. FieldAt(bits, b, n) = ref /\ ~PastEnd(bits, b + n)
  <2>1. Holds(bits, b, BitsOf(ref, n)) /\ ref \in 0 .. 2 ^ n - 1 /\ n \in 0 .. 32
    BY <1>2, <1>4, <1>11, <1>12 DEF Fits
  <2> QED
    BY <2>1, FieldRead
<1>14. PICK d \in Nat : d = b + n /\ d = a + Len(g)
  BY <1>6, <1>11, <1>12
<1>15. FieldAt(bits, d, ValueBits) = val /\ ~PastEnd(bits, d + ValueBits)
  <2>1. Holds(bits, d, BitsOf(val, ValueBits))
    BY <1>5, <1>9, <1>14
  <2> QED
    BY <1>2, <2>1, PayloadRead
<1>16. ~(slot >= DataStoreSize)
  BY WidthAssumption DEF DeltaIn
<1>17. d + ValueBits = a + Len(f)
  BY <1>2, <1>6, <1>8, <1>11, <1>14
<1>18. PICK got : got = Start(0, c, a)
  OBVIOUS
<1>19. got.at = a /\ got.channel = c
  BY <1>18 DEF Start
<1>20. GotDelta(e, got, bits) = CallWith(got, bits, slot, d)
  <2>1. ref = DataStoreSize \/ ref \in filled[e][c]
    BY DEF DeltaIn
  <2> QED
    BY <1>1, <1>11, <1>12, <1>13, <1>14, <1>15, <1>16, <1>19, <2>1 DEF GotDelta
<1>21. CallWith(got, bits, slot, d) =
         [got EXCEPT !.result = "callback", !.class = slot, !.val = val, !.at = a + Len(f)]
  BY <1>15, <1>17 DEF CallWith
<1>22. GotDelta(e, got, bits) = Called(0, c, slot, val, a + Len(f))
  BY <1>18, <1>20, <1>21 DEF Start, Called
<1> QED
  BY <1>8, <1>18, <1>22

\* An acknowledgement is read as the slot that was acknowledged.
LEMMA AckRight ==
  ASSUME NEW e, NEW c \in Channels(e), PipeOf(e, c).kind = "delta", NEW slot \in 0 .. DataStoreSize - 1,
         NEW bits \in Bits, NEW a, Holds(bits, a, BitsOf(slot, SlotBits))
  PROVE  /\ BitsOf(slot, SlotBits) \in Bits
         /\ ProcessAck(e, Start(1, c, a), bits) = Called(1, c, 0, slot, a + Len(BitsOf(slot, SlotBits)))
<1>1. PICK n \in 0 .. 32 : n = SlotBits
  BY SlotFacts
<1>2. slot \in Nat /\ slot \in 0 .. 2 ^ n - 1
  BY <1>1, SlotFacts
<1>3. PICK f \in Bits : f = BitsOf(slot, n) /\ Len(f) = n
  BY <1>1, <1>2, BitsAre
<1>4. FieldAt(bits, a, n) = slot /\ ~PastEnd(bits, a + n)
  <2>1. Holds(bits, a, BitsOf(slot, n))
    BY <1>1
  <2> QED
    BY <1>2, <2>1, FieldRead
<1>5. PICK got : got = Start(1, c, a)
  OBVIOUS
<1>6. got.at = a /\ got.channel = c
  BY <1>5 DEF Start
<1>7. ProcessAck(e, got, bits) = [got EXCEPT !.result = "callback", !.val = slot, !.at = a + n]
  BY <1>1, <1>4, <1>6 DEF ProcessAck
<1>8. ProcessAck(e, got, bits) = Called(1, c, 0, slot, a + n)
  BY <1>5, <1>7 DEF Start, Called
<1> QED
  BY <1>1, <1>3, <1>5, <1>8

------------------------------------------------------------------------------
(***************************************************************************)
(* Packets.                                                                *)
(***************************************************************************)

\* What a message says fits in its fields.
LEMMA MessageFits ==
  ASSUME NEW slots, NEW w \in Ends, NEW by, NEW ref, MessageBy(slots, w, by, ref)
  PROVE  /\ by.channel \in Channels(w) /\ by.ack = 0
         /\ by = Message(by.channel, by.class, by.val)
         /\ PipeOf(w, by.channel).kind \in {"message", "variant"} =>
              /\ Fits(by.class, TypeBits(PipeOf(w, by.channel))) /\ by.class \in Nat
              /\ ~(by.class >= PipeOf(w, by.channel).types)
         /\ PipeOf(w, by.channel).kind \in {"state", "buffer"} => by.class = 0
         /\ PipeOf(w, by.channel).kind = "buffer" => Fits(by.val, SizeBits) /\ by.val \in Nat
         /\ PipeOf(w, by.channel).kind # "buffer" => Fits(by.val, ValueBits) /\ by.val \in Nat
         /\ PipeOf(w, by.channel).kind = "delta" => by.class \in 0 .. DataStoreSize - 1
         /\ PipeOf(w, by.channel).kind \in Kinds
<1>1. PICK c : c = by.channel
  OBVIOUS
<1>2. PICK pipe : pipe = PipeOf(w, c)
  OBVIOUS
<1>3. /\ c \in Channels(w)
      /\ by.class \in 0 .. (IF pipe.kind = "delta" THEN DataStoreSize ELSE pipe.types) - 1
      /\ by.val \in Values(pipe)
      /\ by = Message(c, by.class, by.val)
  BY <1>1, <1>2 DEF MessageBy
<1>4. /\ pipe \in Pipe /\ pipe.types \in Nat \ {0} /\ TypeBits(pipe) \in 1 .. 32
      /\ pipe.kind \in {"message", "variant"} \/ pipe.types = 1
      /\ \A class \in 0 .. pipe.types - 1 : class \in Nat /\ class \in 0 .. 2 ^ TypeBits(pipe) - 1
  BY <1>2, <1>3, PipeFacts
<1>5. pipe.kind \in Kinds
  BY <1>4 DEF Pipe
<1>6. by.ack = 0
  <2>1. Message(c, by.class, by.val).ack = 0
    BY DEF Message, Nobody
  <2> QED
    BY <1>3, <2>1
<1>7. pipe.kind \in {"message", "variant"} =>
        Fits(by.class, TypeBits(pipe)) /\ by.class \in Nat /\ ~(by.class >= pipe.types)
  <2>1. ASSUME pipe.kind \in {"message", "variant"}
        PROVE  by.class \in 0 .. pipe.types - 1
    BY <1>3, <2>1
  <2> QED
    BY <1>4, <2>1 DEF Fits
<1>8. pipe.kind \in {"state", "buffer"} => by.class = 0
  BY <1>3, <1>4
<1>9. pipe.kind = "buffer" => Fits(by.val, SizeBits) /\ by.val \in Nat
  <2>1. SizeBits \in 1 .. 32 /\ MaxBuffer \in 0 .. 2 ^ SizeBits - 1
    BY WidthAssumption
  <2>2. PICK p \in Nat : p = 2 ^ SizeBits
    BY <2>1, PowerOfTwo
  <2>3. pipe.kind = "buffer" => by.val \in 0 .. MaxBuffer
    BY <1>3 DEF Values
  <2>4. MaxBuffer \in 0 .. p - 1
    BY <2>1, <2>2
  <2>5. pipe.kind = "buffer" => by.val \in 0 .. p - 1 /\ by.val \in Nat
    BY <2>3, <2>4
  <2> QED
    BY <2>1, <2>2, <2>5 DEF Fits
<1>10. pipe.kind # "buffer" => Fits(by.val, ValueBits) /\ by.val \in Nat
  <2>1. ValueBits \in 1 .. 32 /\ Value \subseteq 0 .. 2 ^ ValueBits - 1
    BY WidthAssumption
  <2>2. PICK p \in Nat : p = 2 ^ ValueBits
    BY <2>1, PowerOfTwo
  <2>3. pipe.kind # "buffer" => by.val \in Value
    BY <1>3 DEF Values
  <2>4. pipe.kind # "buffer" => by.val \in 0 .. p - 1
    BY <2>1, <2>2, <2>3
  <2> QED
    BY <2>1, <2>2, <2>4 DEF Fits
<1>11. pipe.kind = "delta" => by.class \in 0 .. DataStoreSize - 1
  BY <1>3
<1> QED
  BY <1>1, <1>2, <1>3, <1>5, <1>6, <1>7, <1>8, <1>9, <1>10, <1>11

\* The bits of a number that fits.
LEMMA FitBits ==
  ASSUME NEW v, NEW n, Fits(v, n)
  PROVE  BitsOf(v, n) \in Bits /\ v \in Nat
<1>1. n \in 0 .. 32 /\ 2 ^ n \in Nat /\ v \in Nat
  BY PowerOfTwo DEF Fits
<1> QED
  BY <1>1, BitsAre

\* Contents are bits.
LEMMA ContentsBits ==
  ASSUME NEW slots, NEW w \in Ends, NEW by, NEW ref \in 0 .. DataStoreSize,
         MessageBy(slots, w, by, ref) \/ (by.ack = 1 /\ by.val \in 0 .. DataStoreSize - 1)
  PROVE  Contents(w, by, ref) \in Bits
<1>1. SlotBits \in 0 .. 32 /\ \A s \in 0 .. DataStoreSize : s \in Nat
  BY SlotFacts
<1>2. CASE by.ack = 1 /\ by.val \in 0 .. DataStoreSize - 1
  <2>1. by.val \in Nat
    BY <1>2, SlotFacts
  <2> QED
    BY <1>1, <1>2, <2>1, BitsAre DEF Contents
<1>3. CASE MessageBy(slots, w, by, ref)
  <2>1. PICK pipe : pipe = PipeOf(w, by.channel)
    OBVIOUS
  <2>2. /\ by.ack = 0 /\ pipe.kind \in Kinds
        /\ pipe.kind \in {"message", "variant"} => Fits(by.class, TypeBits(pipe))
        /\ pipe.kind = "buffer" => Fits(by.val, SizeBits) /\ by.val \in Nat
        /\ pipe.kind # "buffer" => Fits(by.val, ValueBits)
        /\ pipe.kind = "delta" => by.class \in 0 .. DataStoreSize - 1
    BY <1>3, <2>1, MessageFits
  <2>3. CASE pipe.kind = "delta"
    <3>1. by.class \in Nat /\ ref \in Nat
      BY <2>2, <2>3, SlotFacts
    <3>2. /\ BitsOf(by.class, SlotBits) \in Bits /\ BitsOf(ref, SlotBits) \in Bits
          /\ BitsOf(by.val, ValueBits) \in Bits
      BY <1>1, <2>2, <2>3, <3>1, BitsAre, FitBits
    <3> QED
      BY <2>1, <2>2, <2>3, <3>2, Concat DEF Contents
  <2>4. CASE pipe.kind \in {"message", "variant"}
    <3>1. BitsOf(by.class, TypeBits(pipe)) \in Bits /\ BitsOf(by.val, ValueBits) \in Bits
      BY <2>2, <2>4, FitBits
    <3> QED
      BY <2>1, <2>2, <2>4, <3>1, Concat DEF Contents, Fields, MessageFields, VariantFields
  <2>5. CASE pipe.kind = "state"
    <3>1. BitsOf(by.val, ValueBits) \in Bits
      BY <2>2, <2>5, FitBits
    <3> QED
      BY <2>1, <2>2, <2>5, <3>1 DEF Contents, Fields, StateFields
  <2>6. CASE pipe.kind = "buffer"
    <3>1. BitsOf(by.val, SizeBits) \in Bits
      BY <2>2, <2>6, FitBits
    <3>2. PICK n \in Nat : n = by.val * ByteBits
      BY <2>2, <2>6, WidthAssumption
    <3>3. PICK s : s = [i \in 1 .. n |-> 1]
      OBVIOUS
    <3>4. s \in Bits
      BY <3>3 DEF Bits
    <3>5. Contents(w, by, ref) = BitsOf(by.val, SizeBits) \o s
      BY <2>1, <2>2, <2>6, <3>2, <3>3 DEF Contents, Fields, BufferFields
    <3> QED
      BY <3>1, <3>4, <3>5, Concat
  <2> QED
    BY <2>2, <2>3, <2>4, <2>5, <2>6 DEF Kinds
<1> QED
  BY <1>2, <1>3

\* What is known of a packet's bits from what was written.
LEMMA WholeRead ==
  ASSUME NEW w \in Ends, NEW by, NEW ref, NEW bits, bits = Padded(Whole(w, by, ref)),
         Contents(w, by, ref) \in Bits, by.ack \in {0, 1},
         NEW x \in Ends, x = (IF by.ack = 1 THEN Other(w) ELSE w), by.channel \in Channels(x)
  PROVE  \E a \in Nat :
           /\ a = 2 + ChannelBits(x)
           /\ bits \in Bits /\ bits # << >> /\ bits[1] = by.ack
           /\ FieldAt(bits, 2, ChannelBits(x)) = by.channel /\ ~PastEnd(bits, a)
           /\ Holds(bits, a, Contents(w, by, ref))
           /\ IsEmpty(bits, a + Len(Contents(w, by, ref)))
<1>1. PICK s \in Bits : s = Contents(w, by, ref)
  OBVIOUS
<1>2. PICK n \in 1 .. 32 : n = ChannelBits(x)
  BY PipeFacts
<1>3. PICK c : c = by.channel /\ c \in 0 .. 2 ^ n - 1
  BY <1>2, PipeFacts
<1>4. PICK ack \in {0, 1} : ack = by.ack
  OBVIOUS
<1>5. PICK f : f = Whole(w, by, ref) /\ f = (BitsOf(ack, 1) \o BitsOf(c, n)) \o s
  BY <1>1, <1>2, <1>3, <1>4 DEF Whole
<1>6. n \in 0 .. 32 /\ 1 \in 0 .. 32 /\ 2 ^ n \in Nat /\ c \in Nat /\ ack \in Nat
  BY <1>2, <1>3, PowerOfTwo
<1>7. f \in Bits
  <2>1. BitsOf(ack, 1) \in Bits /\ BitsOf(c, n) \in Bits
    BY <1>6, BitsAre
  <2> QED
    BY <1>5, <2>1, Concat
<1>8. bits = Padded(f)
  BY <1>5
<1>9. bits \in Bits /\ Holds(bits, 1, f) /\ IsEmpty(bits, Len(f) + 1)
  BY <1>7, <1>8, PaddedHolds
<1>10. /\ bits[1] = ack /\ FieldAt(bits, 2, n) = c /\ ~PastEnd(bits, 2 + n)
       /\ Holds(bits, 2 + n, s) /\ Len(f) = 1 + n + Len(s)
  <2>1. Headed(f, ack, c, n, s)
    BY <1>3, <1>5 DEF Headed, Fits
  <2> QED
    BY <1>9, <2>1, HeaderRead
<1>11. bits # << >>
  BY <1>9, <1>10 DEF PastEnd, Bits
<1>12. PICK a \in Nat : a = 2 + n
  OBVIOUS
<1>13. Len(s) \in Nat
  BY DEF Bits
<1>14. Len(f) + 1 = a + Len(s)
  BY <1>10, <1>12, <1>13
<1> QED
  BY <1>1, <1>2, <1>3, <1>4, <1>9, <1>10, <1>11, <1>12, <1>14

\* The other end.
LEMMA OtherEnd ==
  ASSUME NEW e \in Ends
  PROVE  Other(e) \in Ends /\ Other(Other(e)) = e
BY DEF Ends, Other

\* An acknowledgement is read as it was written, whatever the widths of deltas.
LEMMA AckRead ==
  ASSUME TypeInv, NEW e \in Ends, NEW by, NEW ref \in 0 .. DataStoreSize, AckBy(filled, Other(e), by),
         NEW bits, bits = Padded(Whole(Other(e), by, ref))
  PROVE  /\ bits \in Bits /\ bits # << >> /\ bits[1] = 1
         /\ by.channel \in Channels(e) /\ by.val \in filled[Other(e)][by.channel]
         /\ by.val \in 0 .. DataStoreSize - 1
         /\ \E a \in Nat : /\ GotMessage(e, bits) = Called(1, by.channel, 0, by.val, a)
                           /\ IsEmpty(bits, a)
         /\ by = Called(1, by.channel, 0, by.val, 1)
<1>1. PICK w \in Ends : w = Other(e) /\ Other(w) = e
  BY OtherEnd
<1>2. /\ by.channel \in Channels(e) /\ PipeOf(e, by.channel).kind = "delta"
      /\ by.val \in filled[w][by.channel]
      /\ by = [Message(by.channel, 0, by.val) EXCEPT !.ack = 1]
  BY <1>1 DEF AckBy
<1>3. by = Called(1, by.channel, 0, by.val, 1)
  BY <1>2 DEF Message, Nobody, Called
<1>4. by.ack = 1
  <2>1. Called(1, by.channel, 0, by.val, 1).ack = 1
    BY DEF Called
  <2> QED
    BY <1>3, <2>1
<1>5. by.val \in 0 .. DataStoreSize - 1
  BY <1>1, <1>2 DEF TypeInv, TypeOK
<1>6. PICK s : s = Contents(w, by, ref) /\ s = BitsOf(by.val, SlotBits)
  BY <1>4 DEF Contents
<1>7. s \in Bits
  BY <1>4, <1>5, <1>6, ContentsBits
<1>8. PICK a \in Nat :
        /\ a = 2 + ChannelBits(e)
        /\ bits \in Bits /\ bits # << >> /\ bits[1] = by.ack
        /\ FieldAt(bits, 2, ChannelBits(e)) = by.channel /\ ~PastEnd(bits, a)
        /\ Holds(bits, a, s) /\ IsEmpty(bits, a + Len(s))
  <2>1. by.ack \in {0, 1} /\ e = (IF by.ack = 1 THEN Other(w) ELSE w)
    BY <1>1, <1>4
  <2>2. bits = Padded(Whole(w, by, ref)) /\ Contents(w, by, ref) \in Bits
    BY <1>1, <1>6, <1>7
  <2>3. \E a \in Nat :
          /\ a = 2 + ChannelBits(e)
          /\ bits \in Bits /\ bits # << >> /\ bits[1] = by.ack
          /\ FieldAt(bits, 2, ChannelBits(e)) = by.channel /\ ~PastEnd(bits, a)
          /\ Holds(bits, a, Contents(w, by, ref))
          /\ IsEmpty(bits, a + Len(Contents(w, by, ref)))
    BY <1>2, <2>1, <2>2, WholeRead
  <2> QED
    BY <1>6, <2>3
<1>9. PICK c \in Channels(e) : c = by.channel
  BY <1>2
<1>10. GotMessage(e, bits) = ProcessAck(e, Start(1, c, a), bits)
  <2>1. PICK got : got = [Nobody EXCEPT !.ack = 1, !.channel = c, !.at = a]
    OBVIOUS
  <2>2. got = Start(1, c, a)
    BY <2>1 DEF Nobody, Start
  <2>3. GotMessage(e, bits) = ProcessAck(e, got, bits)
    BY <1>4, <1>8, <1>9, <2>1 DEF GotMessage
  <2> QED
    BY <2>2, <2>3
<1>11. ProcessAck(e, Start(1, c, a), bits) = Called(1, c, 0, by.val, a + Len(s))
  <2>1. PICK slot \in 0 .. DataStoreSize - 1 : slot = by.val
    BY <1>5
  <2>2. Holds(bits, a, BitsOf(slot, SlotBits)) /\ PipeOf(e, c).kind = "delta"
    BY <1>2, <1>6, <1>8, <1>9, <2>1
  <2>3. ProcessAck(e, Start(1, c, a), bits) = Called(1, c, 0, slot, a + Len(BitsOf(slot, SlotBits)))
    BY <1>8, <2>2, AckRight
  <2> QED
    BY <1>6, <2>1, <2>3
<1>12. a + Len(s) \in Nat
  BY <1>7 DEF Bits
<1> QED
  BY <1>1, <1>2, <1>3, <1>4, <1>5, <1>8, <1>9, <1>10, <1>11, <1>12

\* A message is read as it was written or passed over, when both ends have the
\* same width for references.
LEMMA MessageRead ==
  ASSUME WidthsAgree, NEW e \in Ends, NEW by, NEW ref \in 0 .. DataStoreSize,
         MessageBy(filled, Other(e), by, ref), NEW bits, bits = Padded(Whole(Other(e), by, ref))
  PROVE  /\ \/ \E a \in Nat : /\ GotMessage(e, bits) = Called(0, by.channel, by.class, by.val, a)
                              /\ IsEmpty(bits, a)
            \/ Outcome(GotMessage(e, bits), "ignored", 0, by.channel)
            \/ Outcome(GotMessage(e, bits), "crash", 0, by.channel) /\ ~DefaultsKnown
         /\ by = Called(0, by.channel, by.class, by.val, 1)
<1>1. PICK w \in Ends : w = Other(e) /\ Other(w) = e
  BY OtherEnd
<1>2. MessageBy(filled, w, by, ref)
  BY <1>1
<1>3. PICK c : c = by.channel
  OBVIOUS
<1>4. PICK pipe : pipe = PipeOf(w, c)
  OBVIOUS
<1>5. /\ c \in Channels(w) /\ by.ack = 0
      /\ by = Message(c, by.class, by.val)
      /\ pipe.kind \in {"message", "variant"} =>
           Fits(by.class, TypeBits(pipe)) /\ ~(by.class >= pipe.types)
      /\ pipe.kind \in {"state", "buffer"} => by.class = 0
      /\ pipe.kind = "buffer" => Fits(by.val, SizeBits)
      /\ pipe.kind # "buffer" => Fits(by.val, ValueBits)
      /\ pipe.kind = "delta" => by.class \in 0 .. DataStoreSize - 1
      /\ pipe.kind \in Kinds
  BY <1>2, <1>3, <1>4, MessageFits
<1>6. by = Called(0, by.channel, by.class, by.val, 1)
  BY <1>3, <1>5 DEF Message, Nobody, Called
<1>7. PICK s \in Bits : s = Contents(w, by, ref)
  BY <1>2, ContentsBits
<1>8. PICK a \in Nat :
        /\ a = 2 + ChannelBits(w)
        /\ bits \in Bits /\ bits # << >> /\ bits[1] = by.ack
        /\ FieldAt(bits, 2, ChannelBits(w)) = by.channel /\ ~PastEnd(bits, a)
        /\ Holds(bits, a, s) /\ IsEmpty(bits, a + Len(s))
  BY <1>1, <1>3, <1>5, <1>7, WholeRead
<1>9. PICK got : got = Start(0, c, a)
  OBVIOUS
<1>10. GotMessage(e, bits) = ProcessMessage(e, got, bits)
  <2>1. PICK ack : ack = 0
    OBVIOUS
  <2>2. PICK start : start = [Nobody EXCEPT !.ack = ack, !.channel = c, !.at = a]
    OBVIOUS
  <2>3. start = Start(ack, c, a)
    BY <2>2, StartOf
  <2>4. bits[1] = ack /\ ~(ack = 1)
    BY <1>5, <1>8, <2>1
  <2>5. GotMessage(e, bits) = ProcessMessage(e, start, bits)
    BY <1>1, <1>3, <1>8, <2>2, <2>4 DEF GotMessage
  <2> QED
    BY <1>9, <2>1, <2>3, <2>5
<1>11. got.channel = c
  BY <1>9 DEF Start
<1>12. PICK class : class = by.class
  OBVIOUS
<1>13. PICK val : val = by.val
  OBVIOUS
<1>14. PICK r : r = GotMessage(e, bits)
  OBVIOUS
<1>15. \/ r = Called(0, c, class, val, a + Len(s))
       \/ Outcome(r, "ignored", 0, c)
       \/ Outcome(r, "crash", 0, c) /\ ~DefaultsKnown
  <2>1. CASE pipe.kind = "message"
    <3>1. r = GotTypedMessage(pipe, Start(0, c, a), bits)
      BY <1>1, <1>4, <1>5, <1>9, <1>10, <1>11, <1>14, <2>1 DEF ProcessMessage
    <3>2. s = MessageFields(pipe, class, val)
      BY <1>3, <1>4, <1>5, <1>7, <1>12, <1>13, <2>1 DEF Contents, Fields
    <3>3. Typed(pipe, class, val, s)
      BY <1>5, <1>12, <1>13, <2>1, <3>2 DEF Typed, MessageFields
    <3>4. r = Called(0, c, class, val, a + Len(s)) \/ Outcome(r, "ignored", 0, c)
      BY <1>8, <3>1, <3>3, TypedRight
    <3> QED
      BY <3>4
  <2>2. CASE pipe.kind = "variant"
    <3>1. r = GotVariant(pipe, Start(0, c, a), bits)
      BY <1>1, <1>4, <1>5, <1>9, <1>10, <1>11, <1>14, <2>2 DEF ProcessMessage
    <3>2. s = VariantFields(pipe, class, val)
      BY <1>3, <1>4, <1>5, <1>7, <1>12, <1>13, <2>2 DEF Contents, Fields
    <3>3. Typed(pipe, class, val, s) /\ ~(class >= pipe.types)
      BY <1>5, <1>12, <1>13, <2>2, <3>2 DEF Typed, VariantFields
    <3>4. \/ r = Called(0, c, class, val, a + Len(s)) \/ Outcome(r, "ignored", 0, c)
          \/ Outcome(r, "crash", 0, c) /\ class \in pipe.typed \ pipe.defaults
      BY <1>8, <3>1, <3>3, VariantRight
    <3>5. class \in pipe.typed \ pipe.defaults => ~DefaultsKnown
      BY <1>4, <1>5, <2>2 DEF DefaultsKnown
    <3> QED
      BY <3>4, <3>5
  <2>3. CASE pipe.kind = "state"
    <3>1. r = GotState(pipe, Start(0, c, a), bits)
      BY <1>1, <1>4, <1>5, <1>9, <1>10, <1>11, <1>14, <2>3 DEF ProcessMessage
    <3>2. s = StateFields(val) /\ Fits(val, ValueBits) /\ class = 0
      BY <1>3, <1>4, <1>5, <1>7, <1>12, <1>13, <2>3 DEF Contents, Fields
    <3>3. r = Called(0, c, 0, val, a + Len(s)) \/ Outcome(r, "ignored", 0, c)
      BY <1>8, <3>1, <3>2, StateRight
    <3> QED
      BY <3>2, <3>3
  <2>4. CASE pipe.kind = "buffer"
    <3>1. r = GotBuffer(Start(0, c, a), bits)
      BY <1>1, <1>4, <1>5, <1>9, <1>10, <1>11, <1>14, <2>4 DEF ProcessMessage
    <3>2. s = BufferFields(val) /\ Fits(val, SizeBits) /\ class = 0
      BY <1>3, <1>4, <1>5, <1>7, <1>12, <1>13, <2>4 DEF Contents, Fields
    <3>3. r = Called(0, c, 0, val, a + Len(s))
      BY <1>8, <3>1, <3>2, BufferRight
    <3> QED
      BY <3>2, <3>3
  <2>5. CASE pipe.kind = "delta"
    <3>1. r = GotDelta(e, Start(0, c, a), bits)
      BY <1>1, <1>4, <1>5, <1>9, <1>10, <1>11, <1>14, <2>5 DEF ProcessMessage
    <3>2. ref \in filled[e][c] \cup {DataStoreSize}
      BY <1>1, <1>2, <1>3, <1>4, <2>5 DEF MessageBy
    <3>3. DeltaIn(e, c, class, ref, val, s)
      BY <1>3, <1>4, <1>5, <1>7, <1>12, <1>13, <2>5, <3>2 DEF Contents, DeltaIn
    <3>4. GotDelta(e, Start(0, c, a), bits) = Called(0, c, class, val, a + Len(s))
      <4>1. bits \in Bits /\ Holds(bits, a, s)
        BY <1>8
      <4> QED
        BY <3>3, <4>1, DeltaRight
    <3> QED
      BY <3>1, <3>4
  <2> QED
    BY <1>5, <2>1, <2>2, <2>3, <2>4, <2>5 DEF Kinds
<1>16. a + Len(s) \in Nat
  BY <1>7 DEF Bits
<1> QED
  BY <1>3, <1>6, <1>8, <1>12, <1>13, <1>14, <1>15, <1>16

\* A handler that has read the type.
Reading(ack, c, class, a) ==
  [result |-> "none", ack |-> ack, channel |-> c, class |-> class, val |-> 0, at |-> a]

\* The record after a type has been read.
LEMMA ReadOf ==
  ASSUME NEW ack, NEW c, NEW a, NEW got, got = Start(ack, c, a), NEW pipe, NEW bits
  PROVE  \E class, b : WithType(pipe, got, bits) = Reading(ack, c, class, b)
<1>1. PICK read : read = WithType(pipe, got, bits)
  OBVIOUS
<1>2. PICK class : class = TypeAt(pipe, got, bits)
  OBVIOUS
<1>3. PICK b : b = got.at + TypeBits(pipe)
  OBVIOUS
<1>4. read = [got EXCEPT !.class = class, !.at = b]
  BY <1>1, <1>2, <1>3 DEF WithType
<1>5. read = Reading(ack, c, class, b)
  BY <1>4 DEF Start, Reading
<1> QED
  BY <1>1, <1>5

\* A callback leaves the header's part of its record alone.
LEMMA CallKeeps ==
  ASSUME NEW got, NEW ack, NEW c, NEW class, NEW b, NEW bits, NEW k, NEW a,
         got = Reading(ack, c, class, b)
  PROVE  /\ CallWith(got, bits, k, a).ack = ack /\ CallWith(got, bits, k, a).channel = c
         /\ Threw(got).ack = ack /\ Threw(got).channel = c
         /\ Ignored(got).ack = ack /\ Ignored(got).channel = c
BY DEF CallWith, Threw, Ignored, Reading

\* So does a handler.
LEMMA HeaderKept ==
  ASSUME NEW e \in Ends, NEW bits, NEW c, NEW a, NEW ack, NEW got, got = Start(ack, c, a)
  PROVE  /\ ProcessAck(e, got, bits).ack = ack
         /\ ProcessMessage(e, got, bits).ack = ack /\ ProcessMessage(e, got, bits).channel = c
<1>1. got = [result |-> "none", ack |-> ack, channel |-> c, class |-> 0, val |-> 0, at |-> a]
  BY DEF Start
<1>2. ProcessAck(e, got, bits).ack = ack
  BY <1>1 DEF ProcessAck, Ignored, Threw
<1>3. PICK w \in Ends : w = Other(e)
  BY OtherEnd
<1>4. PICK r : r = ProcessMessage(e, got, bits)
  OBVIOUS
<1>5. CASE c \notin Channels(w)
  <2>1. r = Ignored(got)
    BY <1>1, <1>3, <1>4, <1>5 DEF ProcessMessage
  <2> QED
    BY <1>1, <1>2, <1>4, <2>1 DEF Ignored
<1>6. CASE c \in Channels(w)
  <2>1. PICK pipe \in Pipe : pipe = PipeOf(w, c)
    BY <1>6, PipeFacts
  <2>2. pipe.kind \in Kinds
    BY DEF Pipe
  <2>3. PICK read : read = WithType(pipe, got, bits)
    OBVIOUS
  <2>4. PICK class, b : read = Reading(ack, c, class, b)
    BY <2>3, ReadOf
  <2>5. Threw(got).ack = ack /\ Threw(got).channel = c
    BY <1>1 DEF Threw
  <2>6. r.ack = ack /\ r.channel = c
    <3>1. CASE pipe.kind = "message"
      <4>1. r = GotTypedMessage(pipe, got, bits)
        BY <1>1, <1>3, <1>4, <1>6, <2>1, <3>1 DEF ProcessMessage
      <4>2. r = Threw(got) \/ r = Ignored(read) \/ r = CallWith(read, bits, read.class, read.at)
        BY <2>3, <4>1 DEF GotTypedMessage
      <4> QED
        BY <2>4, <2>5, <4>2, CallKeeps
    <3>2. CASE pipe.kind = "variant"
      <4>1. r = GotVariant(pipe, got, bits)
        BY <1>1, <1>3, <1>4, <1>6, <2>1, <3>2 DEF ProcessMessage
      <4>2. \/ r = Threw(got) \/ r = Ignored(read) \/ r = CallWith(read, bits, read.class, read.at)
            \/ r = [read EXCEPT !.result = "crash"]
        BY <2>3, <4>1 DEF GotVariant
      <4>3. r = [read EXCEPT !.result = "crash"] => r.ack = ack /\ r.channel = c
        BY <2>4 DEF Reading
      <4>4. CASE r = Threw(got) \/ r = Ignored(read) \/ r = CallWith(read, bits, read.class, read.at)
        BY <2>4, <2>5, <4>4, CallKeeps
      <4> QED
        BY <4>2, <4>3, <4>4
    <3>3. CASE pipe.kind = "state"
      <4>1. r = GotState(pipe, got, bits)
        BY <1>1, <1>3, <1>4, <1>6, <2>1, <3>3 DEF ProcessMessage
      <4> QED
        BY <1>1, <4>1 DEF GotState, Threw, Ignored, CallWith
    <3>4. CASE pipe.kind = "buffer"
      <4>1. r = GotBuffer(got, bits)
        BY <1>1, <1>3, <1>4, <1>6, <2>1, <3>4 DEF ProcessMessage
      <4> QED
        BY <1>1, <4>1 DEF GotBuffer, Threw
    <3>5. CASE pipe.kind = "delta"
      <4>1. r = GotDelta(e, got, bits)
        BY <1>1, <1>3, <1>4, <1>6, <2>1, <3>5 DEF ProcessMessage
      <4> QED
        BY <1>1, <4>1 DEF GotDelta, Threw, CallWith
    <3> QED
      BY <2>2, <3>1, <3>2, <3>3, <3>4, <3>5 DEF Kinds
  <2> QED
    BY <1>2, <1>4, <2>6
<1> QED
  BY <1>5, <1>6

\* Whatever the bits are, the first one tells messages from acknowledgements,
\* and a delta that is decoded is for a pipe and a slot that exist.
LEMMA AnyRead ==
  ASSUME NEW e \in Ends, NEW bits \in Bits, NEW got, got = GotMessage(e, bits)
  PROVE  /\ got.ack = 1 => bits # << >> /\ bits[1] = 1
         /\ Decoded(e, got) => got.channel \in Channels(Other(e)) /\ got.class \in 0 .. DataStoreSize - 1
<1>1. PICK ack : ack = bits[1]
  OBVIOUS
<1>2. PICK x \in Ends : x = (IF ack = 1 THEN e ELSE Other(e))
  BY OtherEnd
<1>3. PICK n : n = ChannelBits(x)
  OBVIOUS
<1>4. n \in 1 .. 32
  <2>1. 0 \in Channels(x)
    BY PipesAssumption DEF Channels
  <2> QED
    BY <1>3, <2>1, PipeFacts
<1>5. PICK a : a = 2 + n
  OBVIOUS
<1>6. a \in Nat \ {0}
  BY <1>4, <1>5
<1>7. PICK c : c = FieldAt(bits, 2, n)
  OBVIOUS
<1>8. PICK start : start = [Nobody EXCEPT !.ack = ack, !.channel = c, !.at = a]
  OBVIOUS
<1>9. start = Start(ack, c, a)
  BY <1>8, StartOf
<1>10. CASE bits = << >>
  <2>1. got = Threw(Nobody)
    BY <1>10 DEF GotMessage
  <2>2. got.ack = 0 /\ got.result = "threw"
    BY <2>1 DEF Threw, Nobody
  <2> QED
    BY <2>2 DEF Decoded
<1>11. CASE bits # << >> /\ PastEnd(bits, a)
  <2>1. got = Threw([Nobody EXCEPT !.ack = ack])
    BY <1>1, <1>2, <1>3, <1>5, <1>11 DEF GotMessage
  <2>2. got.ack = ack /\ got.result = "threw"
    BY <2>1 DEF Threw, Nobody
  <2> QED
    BY <1>1, <1>11, <2>2 DEF Decoded
<1>12. CASE bits # << >> /\ ~PastEnd(bits, a)
  <2>1. got = IF ack = 1 THEN ProcessAck(e, start, bits) ELSE ProcessMessage(e, start, bits)
    BY <1>1, <1>2, <1>3, <1>5, <1>7, <1>8, <1>12 DEF GotMessage
  <2>2. /\ ProcessAck(e, start, bits).ack = ack
        /\ ProcessMessage(e, start, bits).ack = ack /\ ProcessMessage(e, start, bits).channel = c
    BY <1>9, HeaderKept
  <2>3. got.ack = ack
    BY <2>1, <2>2
  <2>4. ASSUME Decoded(e, got)
        PROVE  got.channel \in Channels(Other(e)) /\ got.class \in 0 .. DataStoreSize - 1
    <3>1. got.result = "callback" /\ got.ack = 0 /\ PipeOf(Other(e), got.channel).kind = "delta"
      BY <2>4 DEF Decoded
    <3>2. ack # 1
      BY <2>3, <3>1
    <3>3. got = ProcessMessage(e, start, bits) /\ got.channel = c
      BY <2>1, <2>2, <3>2
    <3>4. start.channel = c /\ start.at = a
      BY <1>9 DEF Start
    <3>5. c \in Channels(Other(e))
      <4>1. ASSUME c \notin Channels(Other(e))
            PROVE  FALSE
        <5>1. got = Ignored(start)
          BY <3>3, <3>4, <4>1 DEF ProcessMessage
        <5>2. got.result = "ignored"
          BY <1>9, <5>1 DEF Ignored, Start
        <5> QED
          BY <3>1, <5>2
      <4> QED
        BY <4>1
    <3>6. got = GotDelta(e, start, bits)
      BY <3>1, <3>3, <3>4, <3>5 DEF ProcessMessage
    <3>7. PICK slot : slot = FieldAt(bits, a, SlotBits)
      OBVIOUS
    <3>8. PICK d : d = a + SlotBits + RefReadBits
      OBVIOUS
    <3>9. start.result = "none"
      BY <1>9 DEF Start
    <3>10. ~PastEnd(bits, d) /\ ~(slot >= DataStoreSize) /\ got = CallWith(start, bits, slot, d)
      <4>1. Threw(start).result = "threw" /\ [start EXCEPT !.result = "crash"].result = "crash"
        BY <1>9 DEF Threw, Start
      <4> QED
        BY <3>1, <3>4, <3>6, <3>7, <3>8, <4>1 DEF GotDelta
    <3>11. got.class = slot
      <4>1. Threw(start).result = "threw"
        BY <1>9 DEF Threw, Start
      <4> QED
        BY <1>9, <3>1, <3>10, <4>1 DEF CallWith, Start
    <3>12. slot \in 0 .. 2 ^ SlotBits - 1
      <4>1. SlotBits \in 0 .. 32 /\ RefReadBits \in Nat
        BY SlotFacts
      <4>2. ~PastEnd(bits, a + SlotBits)
        <5>1. Len(bits) \in Nat
          BY DEF Bits
        <5> QED
          BY <1>6, <3>8, <3>10, <4>1, <5>1 DEF PastEnd
      <4> QED
        BY <1>6, <3>7, <4>1, <4>2, FieldType
    <3>13. 2 ^ SlotBits \in Nat
      BY SlotFacts, PowerOfTwo
    <3>14. slot \in 0 .. DataStoreSize - 1
      BY <3>10, <3>12, <3>13, WidthAssumption
    <3> QED
      BY <3>3, <3>5, <3>11, <3>14
  <2> QED
    BY <1>1, <1>12, <2>3, <2>4
<1> QED
  BY <1>11, <1>12, <1>10

------------------------------------------------------------------------------
(***************************************************************************)
(* The steps.                                                              *)
(***************************************************************************)

\* The slots in use only become more.
Grows(f, g) == \A e \in Ends : \A c \in Channels(Other(e)) : f[e][c] \subseteq g[e][c]

\* What was written stays right as slots are filled.
LEMMA WrittenGrows ==
  ASSUME NEW f, NEW g, Grows(f, g), NEW e \in Ends, NEW p, Written(f, e, p)
  PROVE  Written(g, e, p)
<1>1. CASE ~p.clean
  BY <1>1 DEF Written
<1>2. CASE p.clean
  <2>1. PICK ref \in 0 .. DataStoreSize :
          (MessageBy(f, e, p.by, ref) \/ AckBy(f, e, p.by)) /\ p.bits = Padded(Whole(e, p.by, ref))
    BY <1>2 DEF Written
  <2>2. Other(e) \in Ends /\ Other(Other(e)) = e
    BY OtherEnd
  <2>3. MessageBy(f, e, p.by, ref) => MessageBy(g, e, p.by, ref)
    BY <2>2 DEF MessageBy, Grows
  <2>4. AckBy(f, e, p.by) => AckBy(g, e, p.by)
    BY DEF AckBy, Grows
  <2> QED
    BY <1>2, <2>1, <2>3, <2>4 DEF Written
<1> QED
  BY <1>1, <1>2

\* malloc finds a buffer.
LEMMA FreshProps ==
  ASSUME TypeInv, HeapInv, NEW e \in Ends
  PROVE  FreshBuffer(e) \in Nat /\ FreshBuffer(e) \notin heap[e]
<1>1. IsFiniteSet(heap[e])
  BY DEF HeapInv
<1>2. PICK k \in Nat : k = Cardinality(heap[e])
  BY <1>1, FS_CardinalityType
<1>3. \E b \in 1 .. k + 1 : b \notin heap[e]
  <2>1. ASSUME \A b \in 1 .. k + 1 : b \in heap[e]
        PROVE  FALSE
    <3>1. 1 .. k + 1 \subseteq heap[e]
      BY <2>1
    <3>2. Cardinality(1 .. k + 1) <= Cardinality(heap[e])
      BY <1>1, <3>1, FS_Subset
    <3>3. Cardinality(1 .. k + 1) = k + 1
      <4>1. 1 \in Int /\ k + 1 \in Int /\ ~(1 > k + 1)
        OBVIOUS
      <4>2. Cardinality(1 .. k + 1) = (k + 1) - 1 + 1
        BY <4>1, FS_Interval
      <4> QED
        BY <4>2
    <3> QED
      BY <1>2, <3>2, <3>3
  <2> QED
    BY <2>1
<1>4. FreshBuffer(e) \in 1 .. k + 1 /\ FreshBuffer(e) \notin heap[e]
  BY <1>2, <1>3 DEF FreshBuffer
<1> QED
  BY <1>4

\* What RemoveAt leaves was there before.
LEMMA Removed ==
  ASSUME NEW S, NEW s \in Seq(S), NEW i \in DOMAIN s
  PROVE  /\ RemoveAt(s, i) \in Seq(S)
         /\ \A j \in DOMAIN RemoveAt(s, i) : \E k \in DOMAIN s : RemoveAt(s, i)[j] = s[k]
<1>1. Len(s) \in Nat /\ DOMAIN s = 1 .. Len(s) /\ i \in 1 .. Len(s)
  OBVIOUS
<1>2. PICK a : a = SubSeq(s, 1, i - 1)
  OBVIOUS
<1>3. PICK b : b = SubSeq(s, i + 1, Len(s))
  OBVIOUS
<1>4. a \in Seq(S) /\ Len(a) = i - 1 /\ \A j \in 1 .. i - 1 : a[j] = s[j]
  BY <1>1, <1>2
<1>5. b \in Seq(S) /\ Len(b) = Len(s) - i /\ \A j \in 1 .. Len(s) - i : b[j] = s[j + i]
  BY <1>1, <1>3
<1>6. PICK c : c = RemoveAt(s, i) /\ c = a \o b
  BY <1>2, <1>3 DEF RemoveAt
<1>7. /\ c \in Seq(S) /\ Len(c) = Len(a) + Len(b)
      /\ \A j \in 1 .. Len(a) + Len(b) : c[j] = IF j <= Len(a) THEN a[j] ELSE b[j - Len(a)]
  <2>1. a \in Seq(S) /\ b \in Seq(S)
    BY <1>4, <1>5
  <2>2. /\ a \o b \in Seq(S) /\ Len(a \o b) = Len(a) + Len(b)
        /\ \A j \in 1 .. Len(a) + Len(b) : (a \o b)[j] = IF j <= Len(a) THEN a[j] ELSE b[j - Len(a)]
    BY <2>1, ConcatProperties
  <2> QED
    BY <1>6, <2>2
<1>8. ASSUME NEW j \in DOMAIN c
      PROVE  \E k \in DOMAIN s : c[j] = s[k]
  <2>1. j \in 1 .. Len(a) + Len(b)
    BY <1>7
  <2>2. CASE j <= Len(a)
    <3>1. j \in 1 .. i - 1 /\ j \in DOMAIN s /\ c[j] = a[j]
      BY <1>1, <1>4, <1>7, <2>1, <2>2
    <3> QED
      BY <1>4, <3>1
  <2>3. CASE ~(j <= Len(a))
    <3>1. PICK m \in 1 .. Len(s) - i : m = j - Len(a)
      BY <1>1, <1>4, <1>5, <2>1, <2>3
    <3>2. c[j] = b[m] /\ b[m] = s[m + i] /\ m + i \in DOMAIN s
      BY <1>1, <1>5, <1>7, <2>1, <2>3, <3>1
    <3> QED
      BY <3>2
  <2> QED
    BY <2>2, <2>3
<1> QED
  BY <1>6, <1>7, <1>8

\* What Append adds.
LEMMA Appended ==
  ASSUME NEW S, NEW s \in Seq(S), NEW x \in S
  PROVE  \E n \in Nat :
           /\ n = Len(s) + 1 /\ n \notin DOMAIN s
           /\ Append(s, x) \in Seq(S) /\ DOMAIN Append(s, x) = DOMAIN s \cup {n}
           /\ Append(s, x)[n] = x /\ \A i \in DOMAIN s : Append(s, x)[i] = s[i]
<1>1. PICK n \in Nat : n = Len(s) + 1
  OBVIOUS
<1>2. DOMAIN s = 1 .. n - 1 /\ DOMAIN Append(s, x) = 1 .. n
  BY <1>1
<1>3. n \notin DOMAIN s /\ DOMAIN Append(s, x) = DOMAIN s \cup {n}
  BY <1>1, <1>2
<1>4. Append(s, x)[n] = x /\ \A i \in DOMAIN s : Append(s, x)[i] = s[i]
  BY <1>1, <1>2
<1> QED
  BY <1>1, <1>3, <1>4

\* The part of the invariant about packets, and the rest.
NetOK ==
  /\ writer \in [Ends -> Bits] /\ heap \in [Ends -> SUBSET Nat]
  /\ net \in [Ends -> Seq(PacketType)] /\ m_PendingPackets \in [Ends -> Seq(PendingType)]
  /\ PacketsInv /\ HeapInv /\ BuffersOwned

RestOK ==
  /\ transport \in Transports /\ m_Disconnected \in [Ends -> BOOLEAN]
  /\ DOMAIN m_LastAckedState = Ends /\ DOMAIN m_NextStateSlot = Ends /\ DOMAIN filled = Ends
  /\ \A e \in Ends :
       /\ m_LastAckedState[e] \in [Channels(e) -> -1 .. DataStoreSize - 1]
       /\ m_NextStateSlot[e] \in [Channels(e) -> -1 .. DataStoreSize - 1]
       /\ filled[e] \in [Channels(Other(e)) -> SUBSET (0 .. DataStoreSize - 1)]
  /\ fault \in BOOLEAN /\ doubleFree \in BOOLEAN
  /\ AckedInv

LEMMA TwoParts == ProtocolInv <=> NetOK /\ RestOK
<1>1. ProtocolInv => NetOK /\ RestOK
  BY DEF ProtocolInv, TypeInv, TypeOK, NetOK, RestOK, Bits
<1>2. NetOK /\ RestOK => ProtocolInv
  BY DEF ProtocolInv, TypeInv, TypeOK, NetOK, RestOK, Bits, PacketType
<1> QED
  BY <1>1, <1>2

LEMMA TwoPartsNext == NetOK' /\ RestOK' => ProtocolInv'
BY DEF ProtocolInv, TypeInv, TypeOK, NetOK, RestOK, Bits, PacketType

\* The packets on their way, when "f" are the slots in use.
WireOK(f, wire) ==
  /\ wire \in [Ends -> Seq(PacketType)]
  /\ \A x \in Ends : \A i \in DOMAIN wire[x] : Written(f, x, wire[x][i])
  /\ transport = "null" => \A x \in Ends : wire[x] = << >>

\* SendWriter keeps the packets as they should be.
LEMMA SendKeeps ==
  ASSUME NetOK, TypeInv, ~doubleFree, NEW e \in Ends, NEW packet \in PacketType, NEW wire,
         SendWriter(e, packet, wire), Grows(filled, filled'), WireOK(filled', wire),
         transport # "null" => Written(filled', e, packet), UNCHANGED <<transport, doubleFree>>
  PROVE  NetOK'
<1>1. writer' \in [Ends -> Bits] /\ \A x \in Ends : writer'[x] = << >> \/ writer'[x] = writer[x]
  <2>1. << >> \in Bits
    BY DEF Bits
  <2> QED
    BY <2>1 DEF SendWriter, NetOK
<1>2. \A x \in Ends : writer'[x] # << >> /\ transport # "null" => writer'[x][1] = 0
  BY <1>1 DEF NetOK, PacketsInv
<1>3. \A x \in Ends : \A i \in DOMAIN m_PendingPackets[x] : Written(filled', x, m_PendingPackets[x][i].packet)
  BY WrittenGrows DEF NetOK, PacketsInv
<1>4. CASE transport = "lagged"
  <2>1. PICK b \in Nat : b = FreshBuffer(e) /\ b \notin heap[e]
    BY FreshProps DEF NetOK
  <2>2. PICK entry : entry = [packet |-> packet, m_Data |-> b]
    OBVIOUS
  <2>3. entry \in PendingType /\ entry.packet = packet /\ entry.m_Data = b
    BY <2>2 DEF PendingType
  <2>4. PICK q \in Seq(PendingType) : q = m_PendingPackets[e]
    BY DEF NetOK
  <2>5. PICK r : r = Append(q, entry)
    OBVIOUS
  <2>6. PICK n \in Nat :
          /\ n \notin DOMAIN q /\ r \in Seq(PendingType) /\ DOMAIN r = DOMAIN q \cup {n}
          /\ r[n] = entry /\ \A i \in DOMAIN q : r[i] = q[i]
    BY <2>3, <2>5, Appended
  <2>7. /\ m_PendingPackets' = [m_PendingPackets EXCEPT ![e] = r]
        /\ heap' = [heap EXCEPT ![e] = heap[e] \cup {b}]
        /\ net' = wire
    BY <1>4, <2>1, <2>2, <2>4, <2>5 DEF SendWriter
  <2>8. /\ m_PendingPackets' \in [Ends -> Seq(PendingType)] /\ heap' \in [Ends -> SUBSET Nat]
        /\ m_PendingPackets'[e] = r /\ heap'[e] = heap[e] \cup {b}
        /\ \A x \in Ends : x # e => m_PendingPackets'[x] = m_PendingPackets[x] /\ heap'[x] = heap[x]
    BY <2>6, <2>7 DEF NetOK
  <2>9. net' \in [Ends -> Seq(PacketType)]
    BY <2>7 DEF WireOK
  <2>10. heap[e] = {q[i].m_Data : i \in DOMAIN q}
    BY <2>4 DEF NetOK, BuffersOwned
  <2>11. PacketsInv'
    <3>1. \A x \in Ends : \A i \in DOMAIN net'[x] : Written(filled', x, net'[x][i])
      BY <2>7 DEF WireOK
    <3>2. \A i \in DOMAIN r : Written(filled', e, r[i].packet)
      BY <1>3, <1>4, <2>3, <2>4, <2>6
    <3>3. \A x \in Ends : \A i \in DOMAIN m_PendingPackets'[x] :
            Written(filled', x, m_PendingPackets'[x][i].packet)
      BY <1>3, <2>8, <3>2
    <3> QED
      BY <1>2, <1>4, <3>1, <3>3 DEF PacketsInv
  <2>12. HeapInv'
    <3>1. \A x \in Ends : IsFiniteSet(heap'[x])
      <4>1. IsFiniteSet(heap[e] \cup {b})
        BY FS_AddElement DEF NetOK, HeapInv
      <4> QED
        BY <2>8, <4>1 DEF NetOK, HeapInv
    <3>2. \A i, j \in DOMAIN r : r[i].m_Data = r[j].m_Data => i = j
      <4>1. \A i, j \in DOMAIN q : q[i].m_Data = q[j].m_Data => i = j
        BY <2>4 DEF NetOK, HeapInv
      <4>2. \A i \in DOMAIN q : r[i].m_Data # b
        BY <2>1, <2>6, <2>10
      <4> QED
        BY <2>3, <2>6, <4>1, <4>2
    <3> QED
      BY <2>8, <3>1, <3>2 DEF NetOK, HeapInv
  <2>13. BuffersOwned'
    <3>1. heap[e] \cup {b} = {r[i].m_Data : i \in DOMAIN r}
      BY <2>3, <2>6, <2>10
    <3>2. \A x \in Ends :
            heap'[x] = {m_PendingPackets'[x][i].m_Data : i \in DOMAIN m_PendingPackets'[x]}
      <4>1. TAKE x \in Ends
      <4>2. CASE x = e
        BY <2>8, <3>1, <4>2
      <4>3. CASE x # e
        <5>1. heap[x] = {m_PendingPackets[x][i].m_Data : i \in DOMAIN m_PendingPackets[x]}
          BY DEF NetOK, BuffersOwned
        <5> QED
          BY <2>8, <4>3, <5>1
      <4> QED
        BY <4>2, <4>3
    <3> QED
      BY <3>2 DEF BuffersOwned
  <2> QED
    BY <1>1, <2>8, <2>9, <2>11, <2>12, <2>13 DEF NetOK
<1>5. CASE transport # "lagged"
  <2>1. UNCHANGED <<m_PendingPackets, heap>>
    BY <1>5 DEF SendWriter
  <2>2. /\ net' \in [Ends -> Seq(PacketType)]
        /\ \A x \in Ends : \A i \in DOMAIN net'[x] : Written(filled', x, net'[x][i])
        /\ transport = "null" => \A x \in Ends : net'[x] = << >>
    <3>1. CASE net' = wire
      BY <3>1 DEF WireOK
    <3>2. CASE transport # "null" /\ net' = [wire EXCEPT ![e] = Append(@, packet)]
      <4>1. PICK q \in Seq(PacketType) : q = wire[e]
        BY DEF WireOK
      <4>2. PICK r : r = Append(q, packet)
        OBVIOUS
      <4>3. PICK n \in Nat :
              /\ n \notin DOMAIN q /\ r \in Seq(PacketType) /\ DOMAIN r = DOMAIN q \cup {n}
              /\ r[n] = packet /\ \A i \in DOMAIN q : r[i] = q[i]
        BY <4>2, Appended
      <4>4. /\ net' \in [Ends -> Seq(PacketType)] /\ net'[e] = r
            /\ \A x \in Ends : x # e => net'[x] = wire[x]
        BY <3>2, <4>1, <4>2, <4>3 DEF WireOK
      <4>5. \A i \in DOMAIN r : Written(filled', e, r[i])
        BY <3>2, <4>1, <4>3 DEF WireOK
      <4> QED
        BY <3>2, <4>4, <4>5 DEF WireOK
    <3> QED
      BY <1>5, <3>1, <3>2 DEF SendWriter
  <2>3. PacketsInv'
    <3>1. \A x \in Ends : m_PendingPackets[x] = << >>
      BY <1>5 DEF NetOK, PacketsInv
    <3> QED
      BY <1>2, <1>3, <2>1, <2>2, <3>1 DEF PacketsInv
  <2>4. HeapInv' /\ BuffersOwned'
    BY <2>1 DEF NetOK, HeapInv, BuffersOwned
  <2> QED
    BY <1>1, <2>1, <2>2, <2>3, <2>4 DEF NetOK
<1> QED
  BY <1>4, <1>5

\* Nothing sent, the packets stay as they should be.
LEMMA QuietKeeps ==
  ASSUME NetOK, NEW wire, NothingSent(wire), Grows(filled, filled'), WireOK(filled', wire),
         UNCHANGED <<transport, doubleFree>>
  PROVE  NetOK'
<1>1. net' = wire /\ UNCHANGED <<writer, m_PendingPackets, heap, transport, doubleFree>>
  BY DEF NothingSent
<1>2. \A x \in Ends : \A i \in DOMAIN m_PendingPackets[x] : Written(filled', x, m_PendingPackets[x][i].packet)
  BY WrittenGrows DEF NetOK, PacketsInv
<1>3. PacketsInv'
  BY <1>1, <1>2 DEF NetOK, PacketsInv, WireOK
<1>4. HeapInv' /\ BuffersOwned'
  BY <1>1 DEF NetOK, HeapInv, BuffersOwned
<1> QED
  BY <1>1, <1>3, <1>4 DEF NetOK, WireOK

\* A packet is written right, when it says what it should.
Says(f, e, by, ref) ==
  /\ ref \in 0 .. DataStoreSize
  /\ MessageBy(f, e, by, ref) \/ (AckBy(f, e, by) /\ by.val \in 0 .. DataStoreSize - 1)

LEMMA SaysType ==
  ASSUME NEW f, NEW e \in Ends, NEW by, NEW ref, Says(f, e, by, ref)
  PROVE  /\ by \in Handling /\ by.ack \in {0, 1} /\ Contents(e, by, ref) \in Bits
         /\ by.channel \in Channels(IF by.ack = 1 THEN Other(e) ELSE e)
<1>1. ref \in 0 .. DataStoreSize
  BY DEF Says
<1>2. CASE MessageBy(f, e, by, ref)
  <2>1. PICK c : c = by.channel
    OBVIOUS
  <2>2. PICK class : class = by.class
    OBVIOUS
  <2>3. PICK val : val = by.val
    OBVIOUS
  <2>4. /\ c \in Channels(e) /\ by.ack = 0 /\ by = Message(c, class, val)
        /\ PipeOf(e, c).kind \in {"message", "variant"} => class \in Nat
        /\ PipeOf(e, c).kind \in {"state", "buffer"} => class = 0
        /\ PipeOf(e, c).kind = "buffer" => val \in Nat
        /\ PipeOf(e, c).kind # "buffer" => val \in Nat
        /\ PipeOf(e, c).kind = "delta" => class \in 0 .. DataStoreSize - 1
        /\ PipeOf(e, c).kind \in Kinds
    BY <1>2, <2>1, <2>2, <2>3, MessageFits
  <2>5. class \in Nat /\ val \in Nat /\ c \in Nat
    <3>1. \A s \in 0 .. DataStoreSize - 1 : s \in Nat
      BY SlotFacts
    <3>2. c \in Nat
      BY <2>4, PipeFacts
    <3> QED
      BY <2>4, <3>1, <3>2 DEF Kinds
  <2>6. by = [result |-> "callback", ack |-> 0, channel |-> c, class |-> class, val |-> val, at |-> 1]
    BY <2>4 DEF Message, Nobody
  <2>7. by \in Handling
    BY <2>5, <2>6 DEF Handling
  <2>8. Contents(e, by, ref) \in Bits
    BY <1>1, <1>2, ContentsBits
  <2> QED
    BY <2>1, <2>4, <2>7, <2>8
<1>3. CASE AckBy(f, e, by) /\ by.val \in 0 .. DataStoreSize - 1
  <2>1. PICK c : c = by.channel
    OBVIOUS
  <2>2. PICK val : val = by.val
    OBVIOUS
  <2>3. c \in Channels(Other(e)) /\ by = [Message(c, 0, val) EXCEPT !.ack = 1]
    BY <1>3, <2>1, <2>2 DEF AckBy
  <2>4. by = [result |-> "callback", ack |-> 1, channel |-> c, class |-> 0, val |-> val, at |-> 1]
    BY <2>3 DEF Message, Nobody
  <2>5. val \in Nat /\ c \in Nat
    BY <1>3, <2>2, <2>3, SlotFacts, OtherEnd, PipeFacts
  <2>6. by \in Handling /\ by.ack = 1
    BY <2>4, <2>5 DEF Handling
  <2>7. Contents(e, by, ref) \in Bits
    BY <1>1, <1>3, <2>6, ContentsBits
  <2> QED
    BY <2>1, <2>3, <2>6, <2>7
<1> QED
  BY <1>2, <1>3 DEF Says

LEMMA PacketRight ==
  ASSUME NetOK, NEW f, NEW e \in Ends, NEW by, NEW ref, Says(f, e, by, ref), NEW mode \in PipeModes,
         NEW n, n = ChannelBits(IF by.ack = 1 THEN Other(e) ELSE e),
         NEW p, p = Packet(e, mode, n, by, Contents(e, by, ref))
  PROVE  p \in PacketType /\ (transport # "null" => Written(f, e, p))
<1>1. PICK s \in Bits : s = Contents(e, by, ref)
  BY SaysType
<1>2. by \in Handling /\ by.ack \in {0, 1}
  BY SaysType
<1>3. PICK x \in Ends : x = (IF by.ack = 1 THEN Other(e) ELSE e)
  BY OtherEnd
<1>4. by.channel \in Channels(x) /\ n = ChannelBits(x)
  BY <1>3, SaysType
<1>5. n \in 0 .. 32 /\ by.channel \in Nat /\ by.ack \in Nat /\ 1 \in 0 .. 32
  BY <1>2, <1>3, <1>4, PipeFacts
<1>6. PICK h \in Bits : h = BitsOf(by.ack, 1) \o BitsOf(by.channel, n)
  <2>1. BitsOf(by.ack, 1) \in Bits /\ BitsOf(by.channel, n) \in Bits
    BY <1>5, BitsAre
  <2> QED
    BY <2>1, Concat
<1>7. h # << >> /\ h[1] = by.ack
  <2>1. PICK u \in Bits : u = BitsOf(by.ack, 1) /\ Len(u) = 1
    BY <1>5, BitsAre
  <2>2. PICK v \in Bits : v = BitsOf(by.channel, n)
    BY <1>5, BitsAre
  <2>3. u[1] = by.ack
    <3>1. u[1] = (by.ack \div 2 ^ (1 - 1)) % 2
      BY <2>1 DEF BitsOf
    <3> QED
      BY <1>2, <3>1
  <2>4. h[1] = u[1] /\ Len(h) = 1 + Len(v)
    <3>1. /\ Len(u \o v) = Len(u) + Len(v)
          /\ \A i \in 1 .. Len(u) : (u \o v)[i] = u[i]
      BY Concat
    <3> QED
      BY <1>6, <2>1, <2>2, <3>1
  <2>5. Len(v) \in Nat
    BY DEF Bits
  <2> QED
    BY <2>3, <2>4, <2>5
<1>8. PICK g \in Bits : g = Header(by.ack, by.channel, n) /\ (transport # "null" => g = h)
  <2>1. << >> \in Bits
    BY DEF Bits
  <2> QED
    BY <1>6, <2>1 DEF Header
<1>9. PICK t \in Bits : t = writer[e]
  BY DEF NetOK
<1>10. PICK c \in Bits : c = t \o g
  BY Concat
<1>11. PICK d \in Bits : d = c \o s
  BY Concat
<1>12. PICK clean \in BOOLEAN : clean <=> t = << >>
  OBVIOUS
<1>13. PICK bits \in Bits : bits = Padded(d) /\ Holds(bits, 1, d)
  BY PaddedHolds
<1>14. p = [bits |-> bits, mode |-> mode, by |-> by, clean |-> clean]
  <2>1. CreateWriter(e, by.ack, by.channel, n) \o Contents(e, by, ref) = d
    BY <1>1, <1>8, <1>9, <1>10, <1>11 DEF CreateWriter
  <2>2. clean = (writer[e] = << >>)
    BY <1>9, <1>12
  <2> QED
    BY <1>13, <2>1, <2>2 DEF Packet
<1>15. p.bits = bits /\ p.by = by /\ p.clean = clean
  BY <1>14
<1>16. p \in PacketType
  BY <1>2, <1>14 DEF PacketType, Bits
<1>17. ASSUME transport # "null"
       PROVE  Written(f, e, p)
  <2>1. CASE t = << >>
    <3>1. c = h
      BY <1>8, <1>10, <1>17, <2>1 DEF Bits
    <3>2. d = Whole(e, by, ref)
      BY <1>1, <1>3, <1>4, <1>6, <1>11, <3>1 DEF Whole
    <3>3. p.clean /\ p.by = by /\ p.bits = Padded(Whole(e, by, ref))
      BY <1>12, <1>13, <1>15, <2>1, <3>2
    <3> QED
      BY <3>3 DEF Written, Says
  <2>2. CASE t # << >>
    <3>1. t[1] = 0
      BY <1>9, <1>17, <2>2 DEF NetOK, PacketsInv
    <3>2. Len(t) \in Nat /\ Len(t) >= 1 /\ Len(g) \in Nat /\ Len(s) \in Nat
      BY <2>2 DEF Bits
    <3>3. c[1] = 0 /\ Len(c) >= 1
      BY <1>10, <3>1, <3>2, Concat
    <3>4. d[1] = 0 /\ Len(d) >= 1 /\ Len(d) \in Nat
      <4>1. Len(c) \in Nat /\ 1 \in 1 .. Len(c)
        BY <3>3 DEF Bits
      <4> QED
        BY <1>11, <3>2, <3>3, <4>1, Concat
    <3>5. bits[1] = 0 /\ bits # << >>
      <4>1. Len(bits) \in Nat
        BY DEF Bits
      <4> QED
        BY <1>13, <3>4, <4>1 DEF Holds
    <3> QED
      BY <1>12, <1>15, <2>2, <3>5 DEF Written
  <2> QED
    BY <2>1, <2>2
<1> QED
  BY <1>16, <1>17

LEMMA InitInv == Init => ProtocolInv
<1> SUFFICES ASSUME Init
             PROVE  ProtocolInv
  OBVIOUS
<1> USE DEF Init
<1>1. NetOK
  <2>1. << >> \in Bits /\ << >> \in Seq(PacketType) /\ << >> \in Seq(PendingType)
    BY DEF Bits
  <2>2. \A e \in Ends : writer[e] = << >> /\ m_PendingPackets[e] = << >> /\ heap[e] = {} /\ net[e] = << >>
    OBVIOUS
  <2>3. PacketsInv
    BY <2>2 DEF PacketsInv
  <2>4. HeapInv
    BY <2>2, FS_EmptySet DEF HeapInv
  <2>5. BuffersOwned
    BY <2>2 DEF BuffersOwned
  <2> QED
    BY <2>1, <2>3, <2>4, <2>5 DEF NetOK
<1>2. RestOK
  <2>1. -1 \in -1 .. DataStoreSize - 1
    BY WidthAssumption
  <2>2. AckedInv
    BY DEF AckedInv
  <2> QED
    BY <2>1, <2>2 DEF RestOK
<1> QED
  BY <1>1, <1>2, TwoParts

\* What a step leaves alone stays as it should be.
LEMMA RestSame ==
  ASSUME RestOK, UNCHANGED <<transport, m_Disconnected, deltaVars, fault, doubleFree>>
  PROVE  RestOK' /\ Grows(filled, filled')
<1>1. UNCHANGED <<transport, m_Disconnected, m_LastAckedState, m_NextStateSlot, filled, fault, doubleFree>>
  BY DEF deltaVars
<1>2. AckedInv'
  BY <1>1 DEF RestOK, AckedInv
<1> QED
  BY <1>1, <1>2 DEF RestOK, Grows

LEMMA WireSame ==
  ASSUME NetOK, filled' = filled
  PROVE  WireOK(filled', net)
BY DEF NetOK, PacketsInv, WireOK

\* The buffers of the packets that wait, the first one gone.
LEMMA UpdateStep ==
  ASSUME ProtocolInv, ~doubleFree, NEW e \in Ends, Update(e)
  PROVE  ProtocolInv'
<1>1. NetOK /\ RestOK
  BY TwoParts
<1>2. PICK q \in Seq(PendingType) : q = m_PendingPackets[e] /\ q # << >>
  BY <1>1 DEF Update, NetOK
<1>3. PICK r : r = Tail(q)
  OBVIOUS
<1>4. PICK p \in PendingType : p = q[1] /\ p = Head(q)
  BY <1>2
<1>5. r \in Seq(PendingType) /\ \A i \in DOMAIN r : i + 1 \in DOMAIN q /\ i + 1 # 1 /\ r[i] = q[i + 1]
  BY <1>2, <1>3
<1>6. \A i \in DOMAIN q : i # 1 => i - 1 \in DOMAIN r /\ r[i - 1] = q[i]
  BY <1>2, <1>3
<1>7. /\ m_PendingPackets' = [m_PendingPackets EXCEPT ![e] = r]
      /\ heap' = [heap EXCEPT ![e] = heap[e] \ {p.m_Data}]
      /\ net' = IF m_Disconnected[e] THEN net ELSE [net EXCEPT ![e] = Append(net[e], p.packet)]
      /\ UNCHANGED <<transport, writer, m_Disconnected, deltaVars, fault, doubleFree>>
  BY <1>2, <1>3, <1>4 DEF Update
<1>8. RestOK' /\ filled' = filled
  BY <1>1, <1>7, RestSame DEF deltaVars
<1>9. p.packet \in PacketType /\ Written(filled, e, p.packet)
  <2>1. 1 \in DOMAIN q
    BY <1>2
  <2> QED
    BY <1>1, <1>2, <1>4, <2>1 DEF NetOK, PacketsInv, PendingType
<1>10. transport = "lagged"
  BY <1>1, <1>2 DEF NetOK, PacketsInv
<1>11. /\ net' \in [Ends -> Seq(PacketType)]
       /\ \A x \in Ends : \A i \in DOMAIN net'[x] : Written(filled, x, net'[x][i])
  <2>1. CASE m_Disconnected[e]
    BY <1>1, <1>7, <2>1 DEF NetOK, PacketsInv
  <2>2. CASE ~m_Disconnected[e]
    <3>1. PICK s \in Seq(PacketType) : s = net[e]
      BY <1>1 DEF NetOK
    <3>2. PICK t : t = Append(s, p.packet)
      OBVIOUS
    <3>3. PICK n \in Nat :
            /\ t \in Seq(PacketType) /\ DOMAIN t = DOMAIN s \cup {n}
            /\ t[n] = p.packet /\ \A i \in DOMAIN s : t[i] = s[i]
      <4>1. PICK k \in PacketType : k = p.packet
        BY <1>9
      <4> QED
        BY <3>2, <4>1, Appended
    <3>4. net' = [net EXCEPT ![e] = t]
      BY <1>7, <2>2, <3>1, <3>2
    <3>5. /\ net' \in [Ends -> Seq(PacketType)] /\ net'[e] = t
          /\ \A x \in Ends : x # e => net'[x] = net[x]
      BY <1>1, <3>3, <3>4 DEF NetOK
    <3>6. \A i \in DOMAIN t : Written(filled, e, t[i])
      BY <1>1, <1>9, <3>1, <3>3 DEF NetOK, PacketsInv
    <3> QED
      BY <1>1, <3>5, <3>6 DEF NetOK, PacketsInv
  <2> QED
    BY <2>1, <2>2
<1>12. /\ m_PendingPackets' \in [Ends -> Seq(PendingType)] /\ heap' \in [Ends -> SUBSET Nat]
       /\ m_PendingPackets'[e] = r /\ heap'[e] = heap[e] \ {p.m_Data}
       /\ \A x \in Ends : x # e => m_PendingPackets'[x] = m_PendingPackets[x] /\ heap'[x] = heap[x]
  BY <1>1, <1>5, <1>7 DEF NetOK
<1>13. PacketsInv'
  <2>1. \A i \in DOMAIN r : Written(filled, e, r[i].packet)
    BY <1>1, <1>2, <1>5 DEF NetOK, PacketsInv
  <2>2. \A x \in Ends : \A i \in DOMAIN m_PendingPackets'[x] :
          Written(filled, x, m_PendingPackets'[x][i].packet)
    BY <1>1, <1>12, <2>1 DEF NetOK, PacketsInv
  <2>3. \A x \in Ends : writer[x] # << >> /\ transport # "null" => writer[x][1] = 0
    BY <1>1 DEF NetOK, PacketsInv
  <2> QED
    BY <1>7, <1>8, <1>10, <1>11, <2>2, <2>3 DEF PacketsInv
<1>14. \A i, j \in DOMAIN q : q[i].m_Data = q[j].m_Data => i = j
  BY <1>1, <1>2 DEF NetOK, HeapInv
<1>15. HeapInv'
  <2>1. IsFiniteSet(heap[e] \ {p.m_Data})
    BY <1>1, FS_RemoveElement DEF NetOK, HeapInv
  <2>2. \A i, j \in DOMAIN r : r[i].m_Data = r[j].m_Data => i = j
    <3>1. \A i \in DOMAIN r : i \in Nat
      BY <1>5
    <3>2. ASSUME NEW i \in DOMAIN r, NEW j \in DOMAIN r, r[i].m_Data = r[j].m_Data
          PROVE  i = j
      <4>1. i + 1 = j + 1
        BY <1>5, <1>14, <3>2
      <4> QED
        BY <3>1, <4>1
    <3> QED
      BY <3>2
  <2> QED
    BY <1>1, <1>12, <2>1, <2>2 DEF NetOK, HeapInv
<1>16. BuffersOwned'
  <2>1. heap[e] = {q[i].m_Data : i \in DOMAIN q}
    BY <1>1, <1>2 DEF NetOK, BuffersOwned
  <2>2. heap[e] \ {p.m_Data} = {r[i].m_Data : i \in DOMAIN r}
    <3>1. ASSUME NEW b \in heap[e] \ {p.m_Data}
          PROVE  b \in {r[i].m_Data : i \in DOMAIN r}
      <4>1. PICK i \in DOMAIN q : q[i].m_Data = b
        BY <2>1
      <4>2. i # 1
        BY <1>4, <3>1, <4>1
      <4> QED
        BY <1>6, <4>1, <4>2
    <3>2. ASSUME NEW i \in DOMAIN r
          PROVE  r[i].m_Data \in heap[e] \ {p.m_Data}
      <4>1. i + 1 \in DOMAIN q /\ i + 1 # 1 /\ r[i] = q[i + 1] /\ 1 \in DOMAIN q
        BY <1>2, <1>5
      <4> QED
        BY <1>4, <1>14, <2>1, <4>1
    <3> QED
      BY <3>1, <3>2
  <2>3. \A x \in Ends :
          heap'[x] = {m_PendingPackets'[x][i].m_Data : i \in DOMAIN m_PendingPackets'[x]}
    <3>1. TAKE x \in Ends
    <3>2. CASE x = e
      BY <1>12, <2>2, <3>2
    <3>3. CASE x # e
      <4>1. heap[x] = {m_PendingPackets[x][i].m_Data : i \in DOMAIN m_PendingPackets[x]}
        BY <1>1 DEF NetOK, BuffersOwned
      <4> QED
        BY <1>12, <3>3, <4>1
    <3> QED
      BY <3>2, <3>3
  <2> QED
    BY <2>3 DEF BuffersOwned
<1>17. NetOK'
  BY <1>1, <1>7, <1>11, <1>12, <1>13, <1>15, <1>16 DEF NetOK
<1> QED
  BY <1>8, <1>17, TwoPartsNext

\* Clear leaves no packet, whatever it frees.
LEMMA DisconnectStep ==
  ASSUME ProtocolInv, ~doubleFree, NEW e \in Ends, Disconnect(e)
  PROVE  ProtocolInv'
<1>1. NetOK /\ RestOK
  BY TwoParts
<1>2. PICK q \in Seq(PendingType) : q = m_PendingPackets[e]
  BY <1>1 DEF NetOK
<1>3. PICK h \in SUBSET Nat : h = IF q = << >> THEN heap[e] ELSE heap[e] \ {Last(q).m_Data}
  BY <1>1 DEF NetOK
<1>4. /\ heap' = [heap EXCEPT ![e] = h] /\ doubleFree' = (Len(q) > 1)
      /\ m_PendingPackets' = [m_PendingPackets EXCEPT ![e] = << >>]
      /\ m_Disconnected' = [m_Disconnected EXCEPT ![e] = TRUE]
      /\ UNCHANGED <<transport, writer, deltaVars, net, fault>>
  BY <1>2, <1>3 DEF Disconnect
<1>5. RestOK'
  <2>1. UNCHANGED <<transport, m_LastAckedState, m_NextStateSlot, filled, fault>>
    BY <1>4 DEF deltaVars
  <2>2. AckedInv'
    BY <1>1, <2>1 DEF RestOK, AckedInv
  <2>3. m_Disconnected' \in [Ends -> BOOLEAN] /\ doubleFree' \in BOOLEAN
    BY <1>1, <1>4 DEF RestOK
  <2> QED
    BY <1>1, <2>1, <2>2, <2>3 DEF RestOK
<1>6. /\ m_PendingPackets' \in [Ends -> Seq(PendingType)] /\ heap' \in [Ends -> SUBSET Nat]
      /\ m_PendingPackets'[e] = << >> /\ heap'[e] = h
      /\ \A x \in Ends : x # e => m_PendingPackets'[x] = m_PendingPackets[x] /\ heap'[x] = heap[x]
  BY <1>1, <1>4 DEF NetOK
<1>7. filled' = filled
  BY <1>4 DEF deltaVars
<1>8. DOMAIN m_PendingPackets'[e] = {}
  BY <1>6
<1>9. PacketsInv'
  <2>1. \A x \in Ends : \A i \in DOMAIN m_PendingPackets'[x] :
          Written(filled, x, m_PendingPackets'[x][i].packet)
    BY <1>1, <1>6, <1>8 DEF NetOK, PacketsInv
  <2> QED
    BY <1>1, <1>4, <1>6, <1>7, <2>1 DEF NetOK, PacketsInv
<1>10. HeapInv'
  <2>1. IsFiniteSet(h)
    BY <1>1, <1>3, FS_RemoveElement DEF NetOK, HeapInv
  <2> QED
    BY <1>1, <1>6, <1>8, <2>1 DEF NetOK, HeapInv
<1>11. BuffersOwned'
  <2>1. SUFFICES ASSUME ~doubleFree'
                 PROVE  \A x \in Ends :
                          heap'[x] = {m_PendingPackets'[x][i].m_Data : i \in DOMAIN m_PendingPackets'[x]}
    BY DEF BuffersOwned
  <2>2. heap[e] = {q[i].m_Data : i \in DOMAIN q}
    BY <1>1, <1>2 DEF NetOK, BuffersOwned
  <2>3. h = {}
    <3>1. CASE q = << >>
      BY <1>3, <2>2, <3>1
    <3>2. CASE q # << >>
      <4>1. Len(q) = 1
        <5>1. ~(Len(q) > 1)
          BY <1>4, <2>1
        <5>2. Len(q) \in Nat /\ Len(q) # 0
          BY <3>2
        <5>3. PICK l \in Nat : l = Len(q)
          BY <5>2
        <5>4. ~(l > 1) /\ l # 0
          BY <5>1, <5>2, <5>3
        <5>5. l = 1
          BY <5>4
        <5> QED
          BY <5>3, <5>5
      <4>2. DOMAIN q = {1} /\ Last(q) = q[1]
        BY <4>1 DEF Last
      <4> QED
        BY <1>3, <2>2, <3>2, <4>2
    <3> QED
      BY <3>1, <3>2
  <2>4. TAKE x \in Ends
  <2>5. CASE x = e
    BY <1>6, <2>3, <2>5
  <2>6. CASE x # e
    <3>1. heap[x] = {m_PendingPackets[x][i].m_Data : i \in DOMAIN m_PendingPackets[x]}
      BY <1>1 DEF NetOK, BuffersOwned
    <3> QED
      BY <1>6, <2>6, <3>1
  <2> QED
    BY <2>5, <2>6
<1>12. NetOK'
  BY <1>1, <1>4, <1>6, <1>9, <1>10, <1>11 DEF NetOK
<1> QED
  BY <1>5, <1>12, TwoPartsNext

\* What a message record holds.
LEMMA MessageHolds ==
  ASSUME NEW c, NEW class, NEW val, NEW by, by = Message(c, class, val)
  PROVE  by.ack = 0 /\ by.channel = c /\ by.class = class /\ by.val = val
BY DEF Message, Nobody

LEMMA SendMessageStep ==
  ASSUME ProtocolInv, ~doubleFree, NEW e \in Ends, NEW channel \in Channels(e), SendMessage(e, channel)
  PROVE  ProtocolInv'
<1>1. NetOK /\ RestOK
  BY TwoParts
<1>2. PICK pipe : pipe = PipeOf(e, channel)
  OBVIOUS
<1>3. pipe.kind # "delta" /\ UNCHANGED <<transport, m_Disconnected, deltaVars, fault, doubleFree>>
  BY <1>2 DEF SendMessage
<1>4. PICK class \in 0 .. pipe.types - 1, val \in Values(pipe) :
        SendWriter(e, Packet(e, pipe.mode, ChannelBits(e), Message(channel, class, val),
                             Fields(pipe, class, val)), net)
  BY <1>2 DEF SendMessage
<1>5. PICK by : by = Message(channel, class, val)
  OBVIOUS
<1>6. by.ack = 0 /\ by.channel = channel /\ by.class = class /\ by.val = val
  BY <1>5, MessageHolds
<1>7. RestOK' /\ Grows(filled, filled') /\ filled' = filled
  BY <1>1, <1>3, RestSame DEF deltaVars
<1>8. Says(filled', e, by, 0)
  <2>1. 0 \in 0 .. DataStoreSize
    BY WidthAssumption
  <2>2. MessageBy(filled', e, by, 0)
    BY <1>2, <1>3, <1>5, <1>6 DEF MessageBy
  <2> QED
    BY <2>1, <2>2 DEF Says
<1>9. PICK n : n = ChannelBits(e)
  OBVIOUS
<1>10. n = ChannelBits(IF by.ack = 1 THEN Other(e) ELSE e)
  BY <1>6, <1>9
<1>11. Fields(pipe, class, val) = Contents(e, by, 0)
  BY <1>2, <1>3, <1>6 DEF Contents
<1>12. PICK mode \in PipeModes : mode = pipe.mode
  BY <1>2, PipeFacts DEF Pipe
<1>13. PICK p : p = Packet(e, mode, n, by, Contents(e, by, 0))
  OBVIOUS
<1>14. p \in PacketType /\ (transport # "null" => Written(filled', e, p))
  BY <1>1, <1>8, <1>10, <1>13, PacketRight
<1>15. SendWriter(e, p, net)
  BY <1>4, <1>5, <1>9, <1>11, <1>12, <1>13
<1>16. NetOK'
  BY <1>1, <1>3, <1>7, <1>14, <1>15, SendKeeps, WireSame DEF ProtocolInv
<1> QED
  BY <1>7, <1>16, TwoPartsNext

\* The slot that a delta is written to.
LEMMA NextSlotType ==
  ASSUME RestOK, NEW e \in Ends, NEW channel \in Channels(e)
  PROVE  NextSlot(e, channel) \in 0 .. DataStoreSize - 1
<1>1. PICK k \in -1 .. DataStoreSize - 1 : k = m_NextStateSlot[e][channel]
  BY DEF RestOK
<1>2. DataStoreSize \in Nat \ {0}
  BY WidthAssumption
<1>3. (k + 1) % DataStoreSize \in 0 .. DataStoreSize - 1
  BY <1>1, <1>2
<1> QED
  BY <1>1, <1>3 DEF NextSlot

LEMMA SyncStateStep ==
  ASSUME ProtocolInv, ~doubleFree, NEW e \in Ends, NEW channel \in Channels(e), SyncState(e, channel)
  PROVE  ProtocolInv'
<1>1. NetOK /\ RestOK
  BY TwoParts
<1>2. PICK pipe : pipe = PipeOf(e, channel)
  OBVIOUS
<1>3. PICK acked : acked = m_LastAckedState[e][channel]
  OBVIOUS
<1>4. PICK ref : ref = IF acked # -1 THEN acked ELSE DataStoreSize
  OBVIOUS
<1>5. PICK slot \in 0 .. DataStoreSize - 1 : slot = NextSlot(e, channel)
  BY <1>1, NextSlotType
<1>6. /\ pipe.kind = "delta"
      /\ m_NextStateSlot' = [m_NextStateSlot EXCEPT ![e][channel] = slot]
      /\ UNCHANGED <<transport, m_Disconnected, m_LastAckedState, filled, fault, doubleFree>>
  BY <1>2, <1>5 DEF SyncState
<1>7. PICK val \in Values(pipe) :
        SendWriter(e, Packet(e, pipe.mode, ChannelBits(e), Message(channel, slot, val),
                             BitsOf(slot, SlotBits) \o BitsOf(ref, SlotBits) \o BitsOf(val, ValueBits)), net)
  BY <1>2, <1>3, <1>4, <1>5 DEF SyncState
<1>8. PICK by : by = Message(channel, slot, val)
  OBVIOUS
<1>9. by.ack = 0 /\ by.channel = channel /\ by.class = slot /\ by.val = val
  BY <1>8, MessageHolds
<1>10. RestOK' /\ Grows(filled, filled')
  <2>1. AckedInv'
    BY <1>1, <1>6 DEF RestOK, AckedInv
  <2>2. \A x \in Ends : m_NextStateSlot'[x] \in [Channels(x) -> -1 .. DataStoreSize - 1]
    <3>1. slot \in -1 .. DataStoreSize - 1
      BY WidthAssumption
    <3>2. \A x \in Ends : m_NextStateSlot[x] \in [Channels(x) -> -1 .. DataStoreSize - 1]
      BY <1>1 DEF RestOK
    <3>3. DOMAIN m_NextStateSlot = Ends
      BY <1>1 DEF RestOK
    <3> QED
      BY <1>6, <3>1, <3>2, <3>3
  <2>3. DOMAIN m_NextStateSlot' = Ends
    BY <1>1, <1>6 DEF RestOK
  <2> QED
    BY <1>1, <1>6, <2>1, <2>2, <2>3 DEF RestOK, Grows
<1>11. ref \in filled[Other(e)][channel] \cup {DataStoreSize}
  BY <1>1, <1>3, <1>4 DEF RestOK, AckedInv
<1>12. ref \in 0 .. DataStoreSize
  <2>1. DataStoreSize \in Nat /\ Other(e) \in Ends /\ Other(Other(e)) = e
    BY WidthAssumption, OtherEnd
  <2>2. filled[Other(e)] \in [Channels(e) -> SUBSET (0 .. DataStoreSize - 1)]
    BY <1>1, <2>1 DEF RestOK
  <2>3. ref \in 0 .. DataStoreSize - 1 \/ ref = DataStoreSize
    BY <1>11, <2>2
  <2> QED
    BY <2>1, <2>3
<1>13. Says(filled', e, by, ref)
  <2>1. MessageBy(filled', e, by, ref)
    BY <1>2, <1>6, <1>8, <1>9, <1>11 DEF MessageBy
  <2> QED
    BY <1>12, <2>1 DEF Says
<1>14. PICK n : n = ChannelBits(e)
  OBVIOUS
<1>15. n = ChannelBits(IF by.ack = 1 THEN Other(e) ELSE e)
  BY <1>9, <1>14
<1>16. BitsOf(slot, SlotBits) \o BitsOf(ref, SlotBits) \o BitsOf(val, ValueBits) = Contents(e, by, ref)
  BY <1>2, <1>6, <1>9 DEF Contents
<1>17. PICK mode \in PipeModes : mode = pipe.mode
  BY <1>2, PipeFacts DEF Pipe
<1>18. PICK p : p = Packet(e, mode, n, by, Contents(e, by, ref))
  OBVIOUS
<1>19. p \in PacketType /\ (transport # "null" => Written(filled', e, p))
  BY <1>1, <1>13, <1>15, <1>18, PacketRight
<1>20. SendWriter(e, p, net)
  BY <1>7, <1>8, <1>14, <1>16, <1>17, <1>18
<1>21. NetOK'
  BY <1>1, <1>6, <1>10, <1>19, <1>20, SendKeeps, WireSame DEF ProtocolInv
<1> QED
  BY <1>10, <1>21, TwoPartsNext

LEMMA AbandonStep ==
  ASSUME ProtocolInv, ~doubleFree, NEW e \in Ends, NEW channel \in Channels(e), Abandon(e, channel)
  PROVE  ProtocolInv'
<1>1. NetOK /\ RestOK
  BY TwoParts
<1>2. /\ writer' = [writer EXCEPT ![e] = CreateWriter(e, 0, channel, ChannelBits(e))]
      /\ UNCHANGED <<transport, m_PendingPackets, heap, m_Disconnected, deltaVars, net, fault, doubleFree>>
  BY DEF Abandon
<1>3. RestOK' /\ filled' = filled
  BY <1>1, <1>2, RestSame DEF deltaVars
<1>4. PICK t \in Bits : t = writer[e]
  BY <1>1 DEF NetOK
<1>5. PICK n \in 0 .. 32 : n = ChannelBits(e)
  BY PipeFacts
<1>6. channel \in Nat /\ 0 \in Nat /\ 1 \in 0 .. 32
  BY PipeFacts
<1>7. PICK u \in Bits : u = BitsOf(0, 1) /\ Len(u) = 1
  BY <1>6, BitsAre
<1>8. PICK v \in Bits : v = BitsOf(channel, n)
  BY <1>5, <1>6, BitsAre
<1>9. PICK g \in Bits : g = Header(0, channel, n) /\ (transport # "null" => g = u \o v)
  <2>1. << >> \in Bits /\ u \o v \in Bits
    BY Concat DEF Bits
  <2> QED
    BY <1>7, <1>8, <2>1 DEF Header
<1>10. PICK w \in Bits : w = t \o g
  BY Concat
<1>11. writer' = [writer EXCEPT ![e] = w]
  BY <1>2, <1>4, <1>5, <1>9, <1>10 DEF CreateWriter
<1>12. transport # "null" => w[1] = 0
  <2>1. SUFFICES ASSUME transport # "null"
                 PROVE  w[1] = 0
    OBVIOUS
  <2>2. CASE t = << >>
    <3>1. w = u \o v
      BY <1>9, <1>10, <2>1, <2>2 DEF Bits
    <3>2. u[1] = 0
      <4>1. u[1] = (0 \div 2 ^ (1 - 1)) % 2
        BY <1>7 DEF BitsOf
      <4> QED
        BY <4>1
    <3>3. \A i \in 1 .. Len(u) : (u \o v)[i] = u[i]
      BY Concat
    <3> QED
      BY <1>7, <3>1, <3>2, <3>3
  <2>3. CASE t # << >>
    <3>1. t[1] = 0
      BY <1>1, <1>4, <2>1, <2>3 DEF NetOK, PacketsInv
    <3>2. 1 \in 1 .. Len(t)
      BY <2>3 DEF Bits
    <3>3. \A i \in 1 .. Len(t) : (t \o g)[i] = t[i]
      BY Concat
    <3> QED
      BY <1>10, <3>1, <3>2, <3>3
  <2> QED
    BY <2>2, <2>3
<1>13. PacketsInv'
  <2>1. \A x \in Ends : writer'[x] # << >> /\ transport # "null" => writer'[x][1] = 0
    BY <1>1, <1>11, <1>12 DEF NetOK, PacketsInv
  <2> QED
    BY <1>1, <1>2, <1>3, <2>1 DEF NetOK, PacketsInv
<1>14. HeapInv' /\ BuffersOwned'
  BY <1>1, <1>2 DEF NetOK, HeapInv, BuffersOwned
<1>15. NetOK'
  BY <1>1, <1>2, <1>11, <1>13, <1>14 DEF NetOK
<1> QED
  BY <1>3, <1>15, TwoPartsNext

\* Leaving a packet that threw where it is.
LEMMA LeftOn ==
  ASSUME NetOK, NEW g, Grows(filled, g), NEW e \in Ends, NEW i \in DOMAIN net[e],
         NEW wire, wire = [net EXCEPT ![e] = [net[e] EXCEPT ![i] = [net[e][i] EXCEPT !.bits = << >>,
                                                                       !.clean = FALSE]]]
  PROVE  WireOK(g, wire)
<1>1. PICK s \in Seq(PacketType) : s = net[e] /\ i \in DOMAIN s
  BY DEF NetOK
<1>2. s[i] \in PacketType
  BY <1>1
<1>3. PICK p : p = [s[i] EXCEPT !.bits = << >>, !.clean = FALSE]
  OBVIOUS
<1>4. p \in PacketType /\ p.bits = << >> /\ p.clean = FALSE
  <2>1. PICK none \in Seq({0, 1}) : none = << >>
    BY EmptySeq
  <2>2. p = [bits |-> none, mode |-> s[i].mode, by |-> s[i].by, clean |-> FALSE]
    BY <1>2, <1>3, <2>1 DEF PacketType
  <2>3. s[i].mode \in PipeModes /\ s[i].by \in Handling
    BY <1>2 DEF PacketType
  <2> QED
    BY <2>1, <2>2, <2>3 DEF PacketType
<1>5. PICK r : r = [s EXCEPT ![i] = p]
  OBVIOUS
<1>6. r \in Seq(PacketType) /\ DOMAIN r = DOMAIN s /\ \A j \in DOMAIN r : r[j] = IF j = i THEN p ELSE s[j]
  BY <1>1, <1>4, <1>5
<1>7. /\ wire \in [Ends -> Seq(PacketType)] /\ wire[e] = r
      /\ \A x \in Ends : x # e => wire[x] = net[x]
  BY <1>1, <1>3, <1>5, <1>6 DEF NetOK
<1>8. \A x \in Ends : \A j \in DOMAIN net[x] : Written(g, x, net[x][j])
  BY WrittenGrows DEF NetOK, PacketsInv
<1>9. Written(g, e, p)
  BY <1>4 DEF Written
<1>10. \A j \in DOMAIN r : Written(g, e, r[j])
  BY <1>1, <1>6, <1>8, <1>9
<1>11. transport # "null"
  BY DEF NetOK, PacketsInv
<1> QED
  BY <1>7, <1>8, <1>10, <1>11 DEF WireOK

\* Taking a packet off the wire.
LEMMA TakenOff ==
  ASSUME NetOK, NEW g, Grows(filled, g), NEW e \in Ends, NEW i \in DOMAIN net[e],
         NEW wire, wire = [net EXCEPT ![e] = RemoveAt(net[e], i)]
  PROVE  WireOK(g, wire)
<1>1. PICK s \in Seq(PacketType) : s = net[e]
  BY DEF NetOK
<1>2. PICK r : r = RemoveAt(s, i)
  OBVIOUS
<1>3. r \in Seq(PacketType) /\ \A j \in DOMAIN r : \E k \in DOMAIN s : r[j] = s[k]
  BY <1>1, <1>2, Removed
<1>4. /\ wire \in [Ends -> Seq(PacketType)] /\ wire[e] = r
      /\ \A x \in Ends : x # e => wire[x] = net[x]
  BY <1>1, <1>2, <1>3 DEF NetOK
<1>5. \A x \in Ends : \A j \in DOMAIN net[x] : Written(g, x, net[x][j])
  BY WrittenGrows DEF NetOK, PacketsInv
<1>6. \A j \in DOMAIN r : Written(g, e, r[j])
  BY <1>1, <1>3, <1>5
<1>7. transport # "null"
  BY DEF NetOK, PacketsInv
<1> QED
  BY <1>4, <1>5, <1>6, <1>7 DEF WireOK

LEMMA LoseStep ==
  ASSUME ProtocolInv, ~doubleFree, NEW e \in Ends, NEW i \in DOMAIN net[e], Lose(e, i)
  PROVE  ProtocolInv'
<1>1. NetOK /\ RestOK
  BY TwoParts
<1>2. PICK wire : wire = [net EXCEPT ![e] = RemoveAt(net[e], i)]
  OBVIOUS
<1>3. /\ net' = wire
      /\ UNCHANGED <<transport, writer, m_PendingPackets, heap, m_Disconnected, deltaVars, fault, doubleFree>>
  BY <1>2 DEF Lose
<1>4. RestOK' /\ Grows(filled, filled')
  BY <1>1, <1>3, RestSame
<1>5. NetOK'
  <2>1. WireOK(filled', wire)
    BY <1>1, <1>2, <1>4, TakenOff
  <2>2. NothingSent(wire)
    BY <1>3 DEF NothingSent
  <2> QED
    BY <1>1, <1>3, <1>4, <2>1, <2>2, QuietKeeps
<1> QED
  BY <1>4, <1>5, TwoPartsNext

\* A packet that has not been read to its end begins with a bit, which is set
\* only in an acknowledgement.
LEMMA PacketBits ==
  ASSUME RestOK, NEW e \in Ends, NEW p \in PacketType, Written(filled, e, p)
  PROVE  /\ p.bits \in Bits
         /\ p.clean => p.bits # << >> /\ p.bits[1] = p.by.ack
         /\ p.bits # << >> /\ p.bits[1] = 1 => p.clean
<1>1. PICK bits \in Bits : bits = p.bits
  BY DEF PacketType, Bits
<1>2. CASE ~p.clean
  BY <1>1, <1>2 DEF Written
<1>3. CASE p.clean
  <2>1. PICK by : by = p.by
    OBVIOUS
  <2>2. PICK ref \in 0 .. DataStoreSize :
          (MessageBy(filled, e, by, ref) \/ AckBy(filled, e, by)) /\ bits = Padded(Whole(e, by, ref))
    BY <1>1, <1>3, <2>1 DEF Written
  <2>3. Says(filled, e, by, ref)
    <3>1. AckBy(filled, e, by) => by.val \in 0 .. DataStoreSize - 1
      BY DEF AckBy, RestOK
    <3> QED
      BY <2>2, <3>1 DEF Says
  <2>4. by.ack \in {0, 1} /\ Contents(e, by, ref) \in Bits
    BY <2>3, SaysType
  <2>5. PICK x \in Ends : x = (IF by.ack = 1 THEN Other(e) ELSE e)
    BY OtherEnd
  <2>6. by.channel \in Channels(x)
    BY <2>3, <2>5, SaysType
  <2>7. bits # << >> /\ bits[1] = by.ack
    BY <2>2, <2>4, <2>5, <2>6, WholeRead
  <2> QED
    BY <1>1, <1>3, <2>1, <2>7
<1> QED
  BY <1>2, <1>3

LEMMA DeliverStep ==
  ASSUME ProtocolInv, ~doubleFree, NEW e \in Ends, NEW i \in Deliverable(Other(e)), Deliver(e, i)
  PROVE  ProtocolInv'
<1>1. NetOK /\ RestOK /\ TypeInv
  BY TwoParts DEF ProtocolInv
<1>2. PICK w \in Ends : w = Other(e) /\ Other(w) = e
  BY OtherEnd
<1>3. i \in DOMAIN net[w]
  BY <1>2 DEF Deliverable
<1>4. PICK packet \in PacketType : packet = net[w][i] /\ Written(filled, w, packet)
  BY <1>1, <1>3 DEF NetOK, PacketsInv
<1>5. PICK bits \in Bits : bits = packet.bits /\ (bits # << >> /\ bits[1] = 1 => packet.clean)
  BY <1>1, <1>4, PacketBits
<1>6. PICK got : got = GotMessage(e, bits)
  OBVIOUS
<1>7. PICK stays \in BOOLEAN : stays <=> transport = "memory" /\ got.result = "threw"
  OBVIOUS
<1>8. PICK wire :
        wire = [net EXCEPT ![w] = IF stays THEN [@ EXCEPT ![i] = [packet EXCEPT !.bits = << >>, !.clean = FALSE]]
                                  ELSE RemoveAt(@, i)]
  OBVIOUS
<1>9. /\ got.ack = 1 => bits # << >> /\ bits[1] = 1
      /\ Decoded(e, got) => got.channel \in Channels(w) /\ got.class \in 0 .. DataStoreSize - 1
  BY <1>2, <1>5, <1>6, AnyRead
<1>10. UNCHANGED <<transport, m_Disconnected, m_NextStateSlot, doubleFree>>
  BY DEF Deliver
<1>11. ASSUME NEW g, Grows(filled, g)
       PROVE  WireOK(g, wire)
  <2>1. CASE stays
    <3>1. wire = [net EXCEPT ![w] = [net[w] EXCEPT ![i] = [net[w][i] EXCEPT !.bits = << >>, !.clean = FALSE]]]
      BY <1>4, <1>8, <2>1
    <3> QED
      BY <1>1, <1>3, <1>11, <3>1, LeftOn
  <2>2. CASE ~stays
    <3>1. wire = [net EXCEPT ![w] = RemoveAt(net[w], i)]
      BY <1>8, <2>2
    <3> QED
      BY <1>1, <1>3, <1>11, <3>1, TakenOff
  <2> QED
    BY <2>1, <2>2
<1>12. CASE m_Disconnected[e] \/ (~Decoded(e, got) /\ ~(got.result = "callback" /\ got.ack = 1))
  <2>1. NothingSent(wire) /\ UNCHANGED <<m_LastAckedState, filled>> /\ fault' \in BOOLEAN
    BY <1>1, <1>2, <1>4, <1>5, <1>6, <1>7, <1>8, <1>12 DEF Deliver, RestOK
  <2>2. AckedInv'
    BY <1>1, <2>1 DEF RestOK, AckedInv
  <2>3. RestOK' /\ Grows(filled, filled')
    BY <1>1, <1>10, <2>1, <2>2 DEF RestOK, Grows
  <2>4. NetOK'
    BY <1>1, <1>10, <1>11, <2>1, <2>3, QuietKeeps
  <2> QED
    BY <2>3, <2>4, TwoPartsNext
<1>13. CASE ~m_Disconnected[e] /\ ~Decoded(e, got) /\ got.result = "callback" /\ got.ack = 1
  <2>1. TakeAck(e, got, wire) /\ fault' \in BOOLEAN
    BY <1>2, <1>4, <1>5, <1>6, <1>7, <1>8, <1>13 DEF Deliver
  <2>2. /\ m_LastAckedState' = [m_LastAckedState EXCEPT ![e][got.channel] = got.val]
        /\ NothingSent(wire) /\ UNCHANGED filled
    BY <2>1 DEF TakeAck
  <2>3. PICK by : by = packet.by
    OBVIOUS
  <2>4. packet.clean /\ bits[1] = 1
    BY <1>5, <1>9, <1>13
  <2>5. PICK ref \in 0 .. DataStoreSize :
          (MessageBy(filled, w, by, ref) \/ AckBy(filled, w, by)) /\ bits = Padded(Whole(w, by, ref))
    BY <1>4, <1>5, <2>3, <2>4 DEF Written
  <2>6. AckBy(filled, w, by)
    <3>1. by.ack = 1
      BY <1>1, <1>4, <1>5, <2>3, <2>4, PacketBits
    <3>2. MessageBy(filled, w, by, ref) => by.ack = 0
      BY MessageFits
    <3> QED
      BY <2>5, <3>1, <3>2
  <2>7. /\ by.channel \in Channels(e) /\ by.val \in filled[w][by.channel] /\ by.val \in 0 .. DataStoreSize - 1
        /\ \E a \in Nat : got = Called(1, by.channel, 0, by.val, a)
    BY <1>1, <1>2, <1>6, <2>5, <2>6, AckRead
  <2>8. got.channel = by.channel /\ got.val = by.val
    BY <2>7 DEF Called
  <2>9. PICK c \in Channels(e) : c = got.channel
    BY <2>7, <2>8
  <2>10. PICK v \in -1 .. DataStoreSize - 1 : v = got.val
    <3>1. by.val \in -1 .. DataStoreSize - 1
      BY <2>7, WidthAssumption
    <3> QED
      BY <2>8, <3>1
  <2>11. m_LastAckedState' = [m_LastAckedState EXCEPT ![e][c] = v] /\ v \in filled[w][c]
    BY <2>2, <2>7, <2>8, <2>9, <2>10
  <2>12. /\ \A x \in Ends : m_LastAckedState[x] \in [Channels(x) -> -1 .. DataStoreSize - 1]
         /\ DOMAIN m_LastAckedState = Ends
    BY <1>1 DEF RestOK
  <2>13. /\ \A x \in Ends : m_LastAckedState'[x] \in [Channels(x) -> -1 .. DataStoreSize - 1]
         /\ DOMAIN m_LastAckedState' = Ends
    BY <2>11, <2>12
  <2>14. AckedInv'
    <3>1. ASSUME NEW x \in Ends, NEW d \in Channels(x)
          PROVE  m_LastAckedState'[x][d] \in filled[Other(x)][d] \cup {-1}
      <4>1. CASE x = e /\ d = c
        BY <1>2, <2>11, <2>12, <4>1
      <4>2. CASE ~(x = e /\ d = c)
        <5>1. m_LastAckedState'[x][d] = m_LastAckedState[x][d]
          BY <2>11, <2>12, <4>2
        <5> QED
          BY <1>1, <5>1 DEF RestOK, AckedInv
      <4> QED
        BY <4>1, <4>2
    <3> QED
      BY <2>2, <3>1 DEF AckedInv
  <2>15. RestOK' /\ Grows(filled, filled')
    BY <1>1, <1>10, <2>1, <2>2, <2>13, <2>14 DEF RestOK, Grows
  <2>16. NetOK'
    BY <1>1, <1>10, <1>11, <2>2, <2>15, QuietKeeps
  <2> QED
    BY <2>15, <2>16, TwoPartsNext
<1>14. CASE ~m_Disconnected[e] /\ Decoded(e, got)
  <2>1. Acknowledge(e, got, wire) /\ fault' \in BOOLEAN
    BY <1>2, <1>4, <1>5, <1>6, <1>7, <1>8, <1>14 DEF Deliver
  <2>2. PICK c \in Channels(w) : c = got.channel /\ PipeOf(w, c).kind = "delta"
    BY <1>2, <1>9, <1>14 DEF Decoded
  <2>3. PICK slot \in 0 .. DataStoreSize - 1 : slot = got.class
    BY <1>9, <1>14
  <2>4. PICK by : by = [Message(c, 0, slot) EXCEPT !.ack = 1]
    OBVIOUS
  <2>5. by.ack = 1 /\ by.channel = c /\ by.val = slot
    BY <2>4 DEF Message, Nobody
  <2>6. /\ filled' = [filled EXCEPT ![e][c] = filled[e][c] \cup {slot}]
        /\ SendWriter(e, Packet(e, "kUnreliableSequenced", ChannelBits(w), by, BitsOf(slot, SlotBits)), wire)
        /\ UNCHANGED m_LastAckedState
    BY <1>2, <2>1, <2>2, <2>3, <2>4 DEF Acknowledge
  <2>7. DOMAIN filled = Ends /\ \A x \in Ends : filled[x] \in [Channels(Other(x)) -> SUBSET (0 .. DataStoreSize - 1)]
    BY <1>1 DEF RestOK
  <2>8. /\ DOMAIN filled' = Ends
        /\ \A x \in Ends : filled'[x] \in [Channels(Other(x)) -> SUBSET (0 .. DataStoreSize - 1)]
        /\ slot \in filled'[e][c]
    BY <1>2, <2>6, <2>7
  <2>9. Grows(filled, filled')
    <3>1. ASSUME NEW x \in Ends, NEW d \in Channels(Other(x))
          PROVE  filled[x][d] \subseteq filled'[x][d]
      BY <1>2, <2>6, <2>7
    <3> QED
      BY <3>1 DEF Grows
  <2>10. AckedInv'
    <3>1. ASSUME NEW x \in Ends, NEW d \in Channels(x)
          PROVE  m_LastAckedState[x][d] \in filled'[Other(x)][d] \cup {-1}
      <4>1. m_LastAckedState[x][d] \in filled[Other(x)][d] \cup {-1}
        BY <1>1 DEF RestOK, AckedInv
      <4>2. filled[Other(x)][d] \subseteq filled'[Other(x)][d]
        BY <2>9, OtherEnd DEF Grows
      <4> QED
        BY <4>1, <4>2
    <3> QED
      BY <2>6, <3>1 DEF AckedInv
  <2>11. RestOK'
    BY <1>1, <1>10, <2>1, <2>6, <2>8, <2>10 DEF RestOK
  <2>12. Says(filled', e, by, 0)
    <3>1. 0 \in 0 .. DataStoreSize
      BY WidthAssumption
    <3>2. AckBy(filled', e, by)
      BY <1>2, <2>2, <2>4, <2>5, <2>8 DEF AckBy
    <3> QED
      BY <2>5, <3>1, <3>2 DEF Says
  <2>13. BitsOf(slot, SlotBits) = Contents(e, by, 0)
    BY <2>5 DEF Contents
  <2>14. PICK n : n = ChannelBits(w)
    OBVIOUS
  <2>15. n = ChannelBits(IF by.ack = 1 THEN Other(e) ELSE e)
    BY <1>2, <2>5, <2>14
  <2>16. PICK mode \in PipeModes : mode = "kUnreliableSequenced"
    BY DEF PipeModes
  <2>17. PICK p : p = Packet(e, mode, n, by, Contents(e, by, 0))
    OBVIOUS
  <2>18. p \in PacketType /\ (transport # "null" => Written(filled', e, p))
    BY <1>1, <2>12, <2>15, <2>17, PacketRight
  <2>19. SendWriter(e, p, wire)
    BY <2>6, <2>13, <2>14, <2>16, <2>17
  <2>20. NetOK'
    BY <1>1, <1>10, <1>11, <2>9, <2>18, <2>19, SendKeeps
  <2> QED
    BY <2>11, <2>20, TwoPartsNext
<1> QED
  BY <1>12, <1>13, <1>14

LEMMA NextInv == ProtocolInv /\ [Next]_vars => ProtocolInv'
<1> SUFFICES ASSUME ProtocolInv, [Next]_vars
             PROVE  ProtocolInv'
  OBVIOUS
<1>1. CASE UNCHANGED vars
  <2>1. NetOK /\ RestOK
    BY TwoParts
  <2>2. /\ UNCHANGED <<transport, writer, m_PendingPackets, heap, m_Disconnected, deltaVars, net, fault, doubleFree>>
        /\ filled' = filled
    BY <1>1 DEF vars, deltaVars
  <2>3. RestOK'
    BY <2>1, <2>2, RestSame
  <2>4. PacketsInv'
    BY <2>1, <2>2 DEF NetOK, PacketsInv
  <2>5. HeapInv' /\ BuffersOwned'
    BY <2>1, <2>2 DEF NetOK, HeapInv, BuffersOwned
  <2>6. NetOK'
    BY <2>1, <2>2, <2>4, <2>5 DEF NetOK
  <2> QED
    BY <2>3, <2>6, TwoPartsNext
<1>2. CASE Next
  <2>1. ~doubleFree
    BY <1>2 DEF Next
  <2>2. PICK e \in Ends :
          \/ \E i \in Deliverable(Other(e)) : Deliver(e, i)
          \/ Update(e) \/ Disconnect(e)
          \/ \E channel \in Channels(e) :
               SendMessage(e, channel) \/ SyncState(e, channel) \/ Abandon(e, channel)
          \/ \E i \in DOMAIN net[e] : Lose(e, i)
    BY <1>2 DEF Next
  <2> QED
    BY <2>1, <2>2, DeliverStep, UpdateStep, DisconnectStep, SendMessageStep, SyncStateStep,
       AbandonStep, LoseStep
<1> QED
  BY <1>1, <1>2

\* Every packet on its way, sent or held back, has the bits its writer meant or
\* begins with the header of a message.
LEMMA InvAlways == Spec => []ProtocolInv
BY InitInv, NextInv, PTL DEF Spec

\* The state of transmitters, pipes and packets has its type: in particular no
\* slot outside the ring is filled, acknowledged or referred to, whatever bits
\* a receiver reads.
THEOREM TypeOKAlways == Spec => []TypeOK
<1>1. ProtocolInv => TypeOK
  BY DEF ProtocolInv, TypeInv
<1> QED
  BY <1>1, InvAlways, PTL

\* NetTransmitterEnet frees a buffer when its packet has left and not before,
\* for queues of any length, up to the Clear that frees one twice.
THEOREM BuffersOwnedAlways == Spec => []BuffersOwned
<1>1. ProtocolInv => BuffersOwned
  BY DEF ProtocolInv
<1> QED
  BY <1>1, InvAlways, PTL

------------------------------------------------------------------------------
(***************************************************************************)
(* What a packet is handled as.                                            *)
(***************************************************************************)

\* How a packet with one header is handled, when it comes from "by".
Understood(by, got, bits) ==
  /\ got.ack = by.ack /\ got.channel = by.channel
  /\ \/ got.result = "callback" /\ [got EXCEPT !.at = 1] = by /\ IsEmpty(bits, got.at)
     \/ got.result = "ignored"
     \/ got.result = "crash" /\ ~DefaultsKnown

LEMMA CalledIs ==
  ASSUME NEW by, NEW got, NEW bits, NEW ack, NEW c, NEW class, NEW val, NEW a,
         got = Called(ack, c, class, val, a), by = Called(ack, c, class, val, 1), IsEmpty(bits, a)
  PROVE  Understood(by, got, bits)
<1>1. got.at = a /\ got.result = "callback" /\ got.ack = by.ack /\ got.channel = by.channel
  BY DEF Called
<1>2. PICK one : one = [got EXCEPT !.at = 1]
  OBVIOUS
<1>3. one = by
  BY <1>2 DEF Called
<1> QED
  BY <1>1, <1>2, <1>3 DEF Understood

LEMMA CleanUnderstood ==
  ASSUME ProtocolInv, WidthsAgree, NEW e \in Ends, NEW p \in PacketType, p.clean,
         Written(filled, Other(e), p)
  PROVE  Understood(p.by, GotMessage(e, p.bits), p.bits)
<1>1. PICK by : by = p.by
  OBVIOUS
<1>2. PICK bits : bits = p.bits
  OBVIOUS
<1>3. PICK got : got = GotMessage(e, bits)
  OBVIOUS
<1>4. PICK ref \in 0 .. DataStoreSize :
        /\ MessageBy(filled, Other(e), by, ref) \/ AckBy(filled, Other(e), by)
        /\ bits = Padded(Whole(Other(e), by, ref))
  BY <1>1, <1>2 DEF Written
<1>5. CASE AckBy(filled, Other(e), by)
  <2>1. TypeInv
    BY DEF ProtocolInv
  <2>2. PICK c, val : c = by.channel /\ val = by.val
    OBVIOUS
  <2>3. /\ \E a \in Nat : got = Called(1, c, 0, val, a) /\ IsEmpty(bits, a)
        /\ by = Called(1, c, 0, val, 1)
    BY <1>3, <1>4, <1>5, <2>1, <2>2, AckRead
  <2>4. Understood(by, got, bits)
    BY <2>3, CalledIs
  <2> QED
    BY <1>1, <1>2, <1>3, <2>4
<1>6. CASE MessageBy(filled, Other(e), by, ref)
  <2>1. PICK c, class, val : c = by.channel /\ class = by.class /\ val = by.val
    OBVIOUS
  <2>2. /\ \/ \E a \in Nat : got = Called(0, c, class, val, a) /\ IsEmpty(bits, a)
           \/ Outcome(got, "ignored", 0, c)
           \/ Outcome(got, "crash", 0, c) /\ ~DefaultsKnown
        /\ by = Called(0, c, class, val, 1)
    BY <1>3, <1>4, <1>6, <2>1, MessageRead
  <2>3. by.ack = 0
    BY <2>2 DEF Called
  <2>4. Understood(by, got, bits)
    <3>1. CASE \E a \in Nat : got = Called(0, c, class, val, a) /\ IsEmpty(bits, a)
      BY <2>2, <3>1, CalledIs
    <3>2. CASE Outcome(got, "ignored", 0, c) \/ (Outcome(got, "crash", 0, c) /\ ~DefaultsKnown)
      BY <2>1, <2>3, <3>2 DEF Outcome, Understood
    <3> QED
      BY <2>2, <3>1, <3>2
  <2> QED
    BY <1>1, <1>2, <1>3, <2>4
<1> QED
  BY <1>4, <1>5, <1>6

\* The three properties of what was heard.
HeardOK ==
  /\ HandledAsWritten /\ CallbacksConsumeAll
  /\ DefaultsKnown => OnlyGarbledFail

LEMMA NothingHeard ==
  ASSUME heard' = Unheard
  PROVE  HeardOK'
<1>1. /\ heard'.clean = TRUE /\ heard'.got = Nobody /\ heard'.by = Nobody /\ heard'.complained = FALSE
  BY DEF Unheard
<1>2. Nobody.result = "none"
  BY DEF Nobody
<1> QED
  BY <1>1, <1>2 DEF HeardOK, HandledAsWritten, CallbacksConsumeAll, OnlyGarbledFail

LEMMA HeardStep ==
  ASSUME ProtocolInv, WidthsAgree, NEW e \in Ends, NEW i \in Deliverable(Other(e)), Deliver(e, i)
  PROVE  HeardOK'
<1>1. NetOK
  BY TwoParts
<1>2. PICK w \in Ends : w = Other(e) /\ i \in DOMAIN net[w]
  BY OtherEnd DEF Deliverable
<1>3. PICK p \in PacketType : p = net[w][i] /\ Written(filled, w, p)
  BY <1>1, <1>2 DEF NetOK, PacketsInv
<1>4. CASE m_Disconnected[e]
  <2>1. heard' = Unheard
    BY <1>4 DEF Deliver
  <2> QED
    BY <2>1, NothingHeard
<1>5. CASE ~m_Disconnected[e]
  <2>1. PICK got : got = GotMessage(e, p.bits)
    OBVIOUS
  <2>2. PICK complained \in BOOLEAN : complained <=> transport # "memory" /\ Complains(e, got, p.bits)
    OBVIOUS
  <2>3. heard' = [end |-> e, by |-> p.by, clean |-> p.clean, got |-> got,
                  complained |-> transport # "memory" /\ Complains(e, got, p.bits)]
    BY <1>2, <1>3, <1>5, <2>1 DEF Deliver
  <2>4. /\ heard'.by = p.by /\ heard'.clean = p.clean /\ heard'.got = got
        /\ heard'.complained => Complains(e, got, p.bits)
    BY <2>3
  <2>5. p.clean => Understood(p.by, got, p.bits)
    BY <1>2, <1>3, <2>1, CleanUnderstood
  <2>6. HandledAsWritten'
    BY <2>4, <2>5 DEF HandledAsWritten, Understood
  <2>7. CallbacksConsumeAll'
    BY <2>4, <2>5 DEF CallbacksConsumeAll, Understood, Complains
  <2>8. DefaultsKnown => OnlyGarbledFail'
    BY <2>4, <2>5 DEF OnlyGarbledFail, Understood
  <2> QED
    BY <2>6, <2>7, <2>8 DEF HeardOK, DefaultsKnown
<1> QED
  BY <1>4, <1>5

LEMMA HeardAlways ==
  ASSUME WidthsAgree
  PROVE  Spec => []HeardOK
<1>1. Init => HeardOK
  <2>1. SUFFICES ASSUME heard = Unheard
                 PROVE  HeardOK
    BY DEF Init
  <2>2. heard.clean = TRUE /\ heard.got = Nobody /\ heard.by = Nobody /\ heard.complained = FALSE
    BY <2>1 DEF Unheard
  <2>3. Nobody.result = "none"
    BY DEF Nobody
  <2> QED
    BY <2>2, <2>3 DEF HeardOK, HandledAsWritten, CallbacksConsumeAll, OnlyGarbledFail
<1>2. ProtocolInv /\ HeardOK /\ [Next]_vars => HeardOK'
  <2> SUFFICES ASSUME ProtocolInv, HeardOK, [Next]_vars
               PROVE  HeardOK'
    OBVIOUS
  <2>1. CASE UNCHANGED vars
    <3>1. heard' = heard
      BY <2>1 DEF vars
    <3> QED
      BY <3>1 DEF HeardOK, HandledAsWritten, CallbacksConsumeAll, OnlyGarbledFail, DefaultsKnown
  <2>2. CASE Next
    <3>1. PICK e \in Ends : heard' = Unheard \/ \E i \in Deliverable(Other(e)) : Deliver(e, i)
      BY <2>2 DEF Next
    <3> QED
      BY <3>1, NothingHeard, HeardStep
  <2> QED
    BY <2>1, <2>2
<1> QED
  BY <1>1, <1>2, InvAlways, PTL DEF Spec

\* Whatever pipes the two ends have and however many packets are on their way:
\* the pipe that reads a packet is the one that wrote it, and its callback gets
\* what was sent.  The widths of a delta's reference must agree.
THEOREM HandledAsWrittenAlways ==
  ASSUME WidthsAgree
  PROVE  Spec => []HandledAsWritten
<1>1. HeardOK => HandledAsWritten
  BY DEF HeardOK
<1> QED
  BY <1>1, HeardAlways, PTL

\* A callback has read its packet to the last byte, padding included.
THEOREM CallbacksConsumeAllAlways ==
  ASSUME WidthsAgree
  PROVE  Spec => []CallbacksConsumeAll
<1>1. HeardOK => CallbacksConsumeAll
  BY DEF HeardOK
<1> QED
  BY <1>1, HeardAlways, PTL

\* No receiver throws, dereferences a slot it does not have or leaves its tables
\* for a packet with one header: acknowledgements and references are of slots
\* that are filled, and stay so while packets are delayed, lost or overtaken.
THEOREM OnlyGarbledFailAlways ==
  ASSUME WidthsAgree, DefaultsKnown
  PROVE  Spec => []OnlyGarbledFail
<1>1. HeardOK => OnlyGarbledFail
  BY DEF HeardOK
<1> QED
  BY <1>1, HeardAlways, PTL
==============================================================================
