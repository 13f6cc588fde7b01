---------------------------- MODULE InputProofs ----------------------------
(***************************************************************************)
(* Proofs about Input for every size of the event queue and of the key     *)
(* ring, every modulus of the indices that is a multiple of the size, and  *)
(* every set of modifiers.  The code has the indices only; the inductive   *)
(* invariant ties each to the number of events it stands for, which never  *)
(* wraps, and the contents of rings and buffers to the events so numbered. *)
(***************************************************************************)
EXTENDS Input, SequenceTheorems, TLAPS

-----------------------------------------------------------------------------
(* Remainders of any integer by any positive modulus. *)

LEMMA Division ==
  ASSUME NEW m \in Nat \ {0}, NEW n \in Int
  PROVE  n \div m \in Int /\ n % m \in 0 .. m - 1 /\ n = (n \div m) * m + (n % m)
OBVIOUS

LEMMA Multiples ==
  ASSUME NEW m \in Nat \ {0}, NEW k \in Int, NEW l \in Int, k < l
  PROVE  k * m + m <= l * m
<1>1. l - k >= 1
  OBVIOUS
<1>2. (l - k) * m >= m
  BY <1>1
<1> QED BY <1>2

LEMMA Unique ==
  ASSUME NEW m \in Nat \ {0}, NEW n \in Int, NEW q \in Int, NEW r \in 0 .. m - 1,
         n = q * m + r
  PROVE  n % m = r
<1> DEFINE p == n \div m
           s == n % m
<1>1. p \in Int /\ s \in 0 .. m - 1 /\ n = p * m + s
  BY Division
<1> HIDE DEF p, s
<1>2. p = q
  BY <1>1, Multiples
<1> QED BY <1>1, <1>2 DEF s

LEMMA Same ==
  ASSUME NEW m \in Nat \ {0}, NEW a \in Int, NEW b \in Int, NEW q \in Int, a = q * m + b
  PROVE  a % m = b % m
<1> DEFINE p == b \div m
           s == b % m
           t == p + q
<1>1. p \in Int /\ s \in 0 .. m - 1 /\ b = p * m + s
  BY Division
<1> HIDE DEF p, s
<1>2. a = t * m + s /\ t \in Int
  BY <1>1
<1> HIDE DEF t
<1>3. a % m = s
  BY <1>1, <1>2, Unique
<1> QED BY <1>3 DEF s

\* A summand may be reduced first.
LEMMA Reduce ==
  ASSUME NEW m \in Nat \ {0}, NEW a \in Int, NEW b \in Int
  PROVE  ((a % m) + b) % m = (a + b) % m
<1> DEFINE p == a \div m
           s == a % m
           x == a + b
           y == s + b
<1>1. p \in Int /\ s \in 0 .. m - 1 /\ a = p * m + s
  BY Division
<1> HIDE DEF p, s
<1>2. x \in Int /\ y \in Int /\ x = p * m + y
  BY <1>1
<1> HIDE DEF x, y
<1>3. x % m = y % m
  BY <1>1, <1>2, Same
<1> QED BY <1>3 DEF x, y, s

\* One more turn.
LEMMA Turn ==
  ASSUME NEW m \in Nat \ {0}, NEW a \in Int, NEW b \in Int, a = b + m
  PROVE  a % m = b % m
<1> DEFINE q == 1
<1>1. a = q * m + b /\ q \in Int
  OBVIOUS
<1> HIDE DEF q
<1> QED BY <1>1, Same

\* Two numbers less than the modulus apart have different remainders.
LEMMA Distinct ==
  ASSUME NEW m \in Nat \ {0}, NEW a \in Int, NEW b \in Int, a < b, b < a + m
  PROVE  a % m # b % m
<1> DEFINE p == a \div m
           s == a % m
           q == b \div m
           t == b % m
<1>1. p \in Int /\ s \in 0 .. m - 1 /\ a = p * m + s
  BY Division
<1>2. q \in Int /\ t \in 0 .. m - 1 /\ b = q * m + t
  BY Division
<1> HIDE DEF p, s, q, t
<1>3. s # t
  <2> SUFFICES ASSUME s = t PROVE FALSE
    OBVIOUS
  <2>1. CASE p < q
    BY <2>1, <1>1, <1>2, Multiples
  <2>2. CASE q < p
    BY <2>2, <1>1, <1>2, Multiples
  <2> QED BY <2>1, <2>2, <1>1, <1>2
<1> QED BY <1>3 DEF s, t

\* The difference of two remainders is that of the numbers.
LEMMA Difference ==
  ASSUME NEW m \in Nat \ {0}, NEW a \in Int, NEW b \in Int, NEW d \in 0 .. m - 1,
         b = a + d
  PROVE  ((b % m) - (a % m)) % m = d
<1> DEFINE p == a \div m
           s == a % m
           q == b \div m
           t == b % m
           x == t - s
           y == p - q
<1>1. p \in Int /\ s \in 0 .. m - 1 /\ a = p * m + s
  BY Division
<1>2. q \in Int /\ t \in 0 .. m - 1 /\ b = q * m + t
  BY Division
<1> HIDE DEF p, s, q, t
<1>3. x \in Int /\ y \in Int /\ x = y * m + d
  BY <1>1, <1>2
<1> HIDE DEF x, y
<1>4. x % m = d
  BY <1>3, Unique
<1> QED BY <1>4 DEF x, s, t

\* A remainder by a multiple of m may be reduced again.
LEMMA Divides ==
  ASSUME NEW m \in Nat \ {0}, NEW M \in Nat \ {0}, M % m = 0, NEW a \in Int
  PROVE  (a % M) % m = a % m
<1> DEFINE c == M \div m
           p == a \div M
           s == a % M
           q == p * c
<1>1. c \in Int /\ M = c * m
  BY Division
<1>2. p \in Int /\ s \in 0 .. M - 1 /\ a = p * M + s
  BY Division
<1> HIDE DEF c, p, s
<1>3. a = q * m + s /\ q \in Int /\ s \in Int
  BY <1>1, <1>2
<1> HIDE DEF q
<1>4. a % m = s % m
  BY <1>3, Same
<1> QED BY <1>4 DEF s

-----------------------------------------------------------------------------
(* Counts and the indices and slots that stand for them. *)

Wrap(n) == n % INDEX_MODULUS
At(n) == n % KAPI_INPUT_BUF_SIZE

LEMMA Constants ==
  /\ QUEUE_SIZE \in Nat \ {0} /\ KAPI_INPUT_BUF_SIZE \in Nat \ {0}
  /\ INDEX_MODULUS \in Nat \ {0} /\ INDEX_MODULUS % QUEUE_SIZE = 0
  /\ INDEX_MODULUS > QUEUE_SIZE
BY InputAssumption

LEMMA WrapFacts ==
  ASSUME NEW n \in Int
  PROVE  /\ Wrap(n) \in 0 .. INDEX_MODULUS - 1
         /\ \A k \in Int : k = n + 1 => Inc(Wrap(n)) = Wrap(k)
         /\ \A k \in Int : n < k /\ k < n + INDEX_MODULUS => Wrap(n) # Wrap(k)
         /\ \A k \in Int, d \in 0 .. INDEX_MODULUS - 1 :
              k = n + d => Span(Wrap(n), Wrap(k)) = d
<1>1. ASSUME NEW k \in Int, k = n + 1 PROVE Inc(Wrap(n)) = Wrap(k)
  <2> DEFINE i == 1
  <2>1. i \in Int /\ k = n + i
    BY <1>1
  <2> HIDE DEF i
  <2>2. ((n % INDEX_MODULUS) + i) % INDEX_MODULUS = (n + i) % INDEX_MODULUS
    BY <2>1, Constants, Reduce
  <2> QED BY <2>1, <2>2 DEF i, Inc, Wrap
<1>2. \A k \in Int : n < k /\ k < n + INDEX_MODULUS => Wrap(n) # Wrap(k)
  BY Constants, Distinct DEF Wrap
<1>3. \A k \in Int, d \in 0 .. INDEX_MODULUS - 1 : k = n + d => Span(Wrap(n), Wrap(k)) = d
  BY Constants, Difference DEF Wrap, Span
<1>4. Wrap(n) \in 0 .. INDEX_MODULUS - 1
  BY Constants, Division DEF Wrap
<1> QED BY <1>1, <1>2, <1>3, <1>4

LEMMA SlotFacts ==
  ASSUME NEW n \in Int
  PROVE  /\ Slot(n) \in Descriptors
         /\ \A k \in Int : n < k /\ k < n + QUEUE_SIZE => Slot(n) # Slot(k)
         /\ \A k \in Int : k = QUEUE_SIZE + n => Slot(k) = Slot(n)
         /\ Slot(Wrap(n)) = Slot(n)
         /\ \A i, k \in Int : k = n + i => Slot(Wrap(n) + i) = Slot(k)
<1>1. Slot(n) \in Descriptors
  BY Constants, Division DEF Slot, Descriptors
<1>2. \A k \in Int : n < k /\ k < n + QUEUE_SIZE => Slot(n) # Slot(k)
  BY Constants, Distinct DEF Slot
<1>3. ASSUME NEW k \in Int, k = QUEUE_SIZE + n PROVE Slot(k) = Slot(n)
  <2>1. k = n + QUEUE_SIZE
    BY <1>3, Constants
  <2> QED BY <2>1, Constants, Turn DEF Slot
<1>4. Slot(Wrap(n)) = Slot(n)
  BY Constants, Divides DEF Slot, Wrap
<1>5. ASSUME NEW i \in Int, NEW k \in Int, k = n + i PROVE Slot(Wrap(n) + i) = Slot(k)
  <2> DEFINE w == Wrap(n)
  <2>1. w \in Int
    BY WrapFacts, <1>1, Constants, Division DEF Wrap
  <2>2. Slot(w) = Slot(n)
    BY <1>4
  <2> HIDE DEF w
  <2>3. (Slot(w) + i) % QUEUE_SIZE = (w + i) % QUEUE_SIZE
    BY <2>1, Constants, Reduce DEF Slot
  <2>4. (Slot(n) + i) % QUEUE_SIZE = (n + i) % QUEUE_SIZE
    BY Constants, Reduce DEF Slot
  <2> QED BY <1>5, <2>2, <2>3, <2>4 DEF w, Slot
<1> QED BY <1>1, <1>2, <1>3, <1>4, <1>5

LEMMA AtFacts ==
  ASSUME NEW n \in Int
  PROVE  /\ At(n) \in 0 .. KAPI_INPUT_BUF_SIZE - 1
         /\ \A k \in Int : k = n + 1 => (At(n) + 1) % KAPI_INPUT_BUF_SIZE = At(k)
         /\ \A k \in Int : n < k /\ k < n + KAPI_INPUT_BUF_SIZE => At(n) # At(k)
         /\ \A k \in Int : k = n + KAPI_INPUT_BUF_SIZE => At(k) = At(n)
         /\ \A k \in Int, d \in 0 .. KAPI_INPUT_BUF_SIZE - 1 :
              k = n + d => (At(k) - At(n)) % KAPI_INPUT_BUF_SIZE = d
         /\ \A i, k \in Int : k = n + i => (At(n) + i) % KAPI_INPUT_BUF_SIZE = At(k)
<1>1. At(n) \in 0 .. KAPI_INPUT_BUF_SIZE - 1
  BY Constants, Division DEF At
<1>2. \A k \in Int : n < k /\ k < n + KAPI_INPUT_BUF_SIZE => At(n) # At(k)
  BY Constants, Distinct DEF At
<1>3. \A k \in Int : k = n + KAPI_INPUT_BUF_SIZE => At(k) = At(n)
  BY Constants, Turn DEF At
<1>4. \A k \in Int, d \in 0 .. KAPI_INPUT_BUF_SIZE - 1 :
        k = n + d => (At(k) - At(n)) % KAPI_INPUT_BUF_SIZE = d
  BY Constants, Difference DEF At
<1>5. ASSUME NEW i \in Int, NEW k \in Int, k = n + i
      PROVE  (At(n) + i) % KAPI_INPUT_BUF_SIZE = At(k)
  <2>1. ((n % KAPI_INPUT_BUF_SIZE) + i) % KAPI_INPUT_BUF_SIZE = (n + i) % KAPI_INPUT_BUF_SIZE
    BY Constants, Reduce
  <2> QED BY <1>5, <2>1 DEF At
<1>6. \A k \in Int : k = n + 1 => (At(n) + 1) % KAPI_INPUT_BUF_SIZE = At(k)
  BY <1>5
<1> QED BY <1>1, <1>2, <1>3, <1>4, <1>5, <1>6

-----------------------------------------------------------------------------
(* The inductive invariant. *)

\* How many descriptors keyboard_poll has given back, and how far it has moved
\* its index: both trail the events handled by one at most.
Returned == IF cpu.pc = "give_back" THEN Len(handled) - 1 ELSE Len(handled)
Advanced == IF cpu.pc \in {"give_back", "advance"} THEN Len(handled) - 1 ELSE Len(handled)

Polling == cpu.pc \in {"next_event", "give_back", "advance"}
InEvent == cpu.pc \in {"give_back", "advance"}

CharType == [id : 0 - MaxChars .. 0 - 1, with : {"none"}]

\* What TypeOK leaves open: the variables are records and sequences.
Types ==
  /\ avail \in [ring : [Descriptors -> Descriptors], idx : 0 .. INDEX_MODULUS - 1]
  /\ used \in [ring : [Descriptors -> Descriptors], idx : 0 .. INDEX_MODULUS - 1]
  /\ buffers \in [Descriptors -> EventType]
  /\ seen \in 0 .. INDEX_MODULUS - 1 /\ last_used \in 0 .. INDEX_MODULUS - 1
  /\ held \subseteq Modifiers /\ ps2 \in [shift : BOOLEAN, extended : BOOLEAN]
  /\ ring \in [buf : [0 .. KAPI_INPUT_BUF_SIZE - 1 -> KeyType],
               r : 0 .. KAPI_INPUT_BUF_SIZE - 1, w : 0 .. KAPI_INPUT_BUF_SIZE - 1]
  /\ cpu \in [pc : {"input_poll", "keyboard_poll", "next_event", "give_back", "advance",
                    "loop_uart", "loop_mouse", "has_key", "getc"},
              ret : {"loop_uart", "loop_mouse", "has_key"},
              current_used : 0 .. INDEX_MODULUS - 1, desc : Descriptors]
  /\ chars \in 0 .. MaxChars /\ uart \in Seq(CharType) /\ Len(uart) <= chars
  /\ sent \in Seq(EventType) /\ Len(sent) <= MaxEvents
  /\ handled \in Seq(EventType)
  /\ accepted \in Seq(KeyType) /\ got \in Seq(KeyType)

\* The indices of the event queue, as counts of events.
Indices ==
  /\ seen = Wrap(Len(sent)) /\ used.idx = Wrap(Len(sent))
  /\ last_used = Wrap(Advanced)
  /\ avail.idx = Wrap(QUEUE_SIZE + Returned)
  /\ Len(handled) <= Len(sent) /\ Len(sent) <= QUEUE_SIZE + Returned
  /\ InEvent => Len(handled) >= 1
  /\ Polling => \E c \in Len(handled) .. Len(sent) : cpu.current_used = Wrap(c)

\* The event k + 1 uses the buffer k % QUEUE_SIZE: descriptors are handed out
\* and given back in order, so that a slot of a ring holds its own number.
Contents ==
  /\ \A i \in Descriptors : avail.ring[i] = i
  /\ \A k \in Returned .. Len(sent) - 1 :
       used.ring[Slot(k)] = Slot(k) /\ buffers[Slot(k)] = sent[k + 1]
  /\ cpu.pc = "give_back" => cpu.desc = Slot(Returned)

\* The events of the keyboard are numbered, and the first of them handled.
Numbered ==
  /\ \A i \in 1 .. Len(sent) : sent[i].id = i /\ sent[i].what \in Kinds
  /\ \A i \in 1 .. Len(handled) : i <= Len(sent) => handled[i] = sent[i]

\* The key ring holds what was put in and not yet taken out.
RingExact ==
  /\ Len(got) <= Len(accepted) /\ Len(accepted) - Len(got) < KAPI_INPUT_BUF_SIZE
  /\ ring.r = At(Len(got))
  /\ ring.w = At(Len(accepted))
  /\ \A i \in 1 .. Len(got) : got[i] = accepted[i]
  /\ \A k \in Len(got) .. Len(accepted) - 1 :
       ring.buf[At(k)] = accepted[k + 1]

\* The modifiers held are those set by the events handled.
HeldRight ==
  /\ \A m \in Modifiers : m \in held <=> LastDown(KeysOf[m], Len(handled) + 1)
  /\ \A i \in 1 .. Len(accepted) : accepted[i].id <= Len(handled)

IInv ==
  /\ Types /\ Indices /\ Contents /\ Numbered
  /\ RingExact /\ HeldRight /\ ModifiersRight

-----------------------------------------------------------------------------
(* Types. *)

PCs == {"input_poll", "keyboard_poll", "next_event", "give_back", "advance",
        "loop_uart", "loop_mouse", "has_key", "getc"}
Rets == {"loop_uart", "loop_mouse", "has_key"}
Cpus == [pc : PCs, ret : Rets, current_used : 0 .. INDEX_MODULUS - 1, desc : Descriptors]
Rings == [buf : [0 .. KAPI_INPUT_BUF_SIZE - 1 -> KeyType],
          r : 0 .. KAPI_INPUT_BUF_SIZE - 1, w : 0 .. KAPI_INPUT_BUF_SIZE - 1]

LEMMA TypeShape == Types => cpu \in Cpus /\ ring \in Rings
BY DEF Types, Cpus, Rings, PCs, Rets

LEMMA TypesOK == Types => TypeOK
<1> SUFFICES ASSUME Types PROVE TypeOK
  OBVIOUS
<1>1. /\ cpu.pc \in PCs /\ cpu.ret \in Rets /\ cpu.current_used \in 0 .. INDEX_MODULUS - 1
      /\ cpu.desc \in Descriptors
  BY TypeShape DEF Cpus
<1>2. /\ ring.buf \in [0 .. KAPI_INPUT_BUF_SIZE - 1 -> KeyType]
      /\ ring.r \in DOMAIN ring.buf /\ ring.w \in DOMAIN ring.buf
  BY TypeShape DEF Rings
<1>3. /\ avail.ring \in [Descriptors -> Descriptors] /\ avail.idx \in 0 .. INDEX_MODULUS - 1
      /\ used.ring \in [Descriptors -> Descriptors] /\ used.idx \in 0 .. INDEX_MODULUS - 1
  BY DEF Types
<1> QED BY <1>1, <1>2, <1>3 DEF Types, TypeOK, PCs, Rets

\* What the moves of the running loop do to cpu.
LEMMA Moved ==
  ASSUME cpu \in Cpus, NEW x \in PCs
  PROVE  /\ Goto(x) => /\ cpu' \in Cpus /\ cpu'.pc = x /\ cpu'.ret = cpu.ret
                       /\ cpu'.current_used = cpu.current_used /\ cpu'.desc = cpu.desc
         /\ \A y \in Rets : CallPoll(y) => cpu' \in Cpus /\ cpu'.pc = "input_poll"
         /\ Frame => cpu' \in Cpus /\ cpu'.pc = "input_poll"
<1>1. Goto(x) => /\ cpu' \in Cpus /\ cpu'.pc = x /\ cpu'.ret = cpu.ret
                 /\ cpu'.current_used = cpu.current_used /\ cpu'.desc = cpu.desc
  BY DEF Goto, Cpus
<1>2. \A y \in Rets : CallPoll(y) => cpu' \in Cpus /\ cpu'.pc = "input_poll"
  BY DEF CallPoll, Cpus, PCs
<1>3. Frame => cpu' \in Cpus /\ cpu'.pc = "input_poll"
  BY <1>2 DEF Frame, Rets
<1> QED BY <1>1, <1>2, <1>3

\* kapi_sys_key_event keeps the ring exact and puts its key in or not.
LEMMA PutKey ==
  ASSUME Types, RingExact, NEW key \in KeyType, kapi_sys_key_event(key), UNCHANGED got
  PROVE  /\ RingExact' /\ ring' \in Rings /\ accepted' \in Seq(KeyType)
         /\ \/ accepted' = accepted
            \/ accepted' = Append(accepted, key)
<1> DEFINE n == Len(accepted)
           g == Len(got)
           next == (ring.w + 1) % KAPI_INPUT_BUF_SIZE
<1>1. /\ n \in Nat /\ g \in Nat /\ ring \in Rings
      /\ accepted \in Seq(KeyType) /\ got \in Seq(KeyType)
  BY TypeShape DEF Types
<1>2. CASE next = ring.r
  BY <1>1, <1>2 DEF kapi_sys_key_event, RingExact
<1>3. CASE next # ring.r
  <2>1. /\ ring' = [ring EXCEPT !.buf[ring.w] = key, !.w = next]
        /\ accepted' = Append(accepted, key)
    BY <1>3 DEF kapi_sys_key_event
  <2> DEFINE k == n + 1
  <2>2. k \in Int /\ next = At(k)
    <3>1. n \in Int /\ ring.w = At(n)
      BY <1>1 DEF RingExact
    <3> HIDE DEF n
    <3> QED BY <3>1, AtFacts
  <2>3. k - g < KAPI_INPUT_BUF_SIZE
    <3>1. k # g + KAPI_INPUT_BUF_SIZE
      <4> SUFFICES ASSUME k = g + KAPI_INPUT_BUF_SIZE PROVE FALSE
        OBVIOUS
      <4> HIDE DEF k, g, next
      <4>1. g \in Int
        BY <1>1
      <4>2. At(k) = At(g)
        BY <2>2, <4>1, AtFacts
      <4> QED BY <1>3, <2>2, <4>2 DEF RingExact, g
    <3>2. g <= n /\ n - g < KAPI_INPUT_BUF_SIZE
      BY DEF RingExact
    <3> QED BY <1>1, <3>1, <3>2, Constants
  <2>4. /\ accepted' \in Seq(KeyType) /\ Len(accepted') = k
        /\ \A i \in 1 .. n : accepted'[i] = accepted[i]
        /\ accepted'[k] = key
    BY <1>1, <2>1, AppendProperties
  <2>5. /\ ring'.buf = [ring.buf EXCEPT ![ring.w] = key]
        /\ ring'.r = ring.r /\ ring'.w = next
    <3> HIDE DEF next
    <3> QED BY <1>1, <2>1 DEF Rings
  <2>6. /\ ring.buf \in [0 .. KAPI_INPUT_BUF_SIZE - 1 -> KeyType]
        /\ ring.w = At(n) /\ At(n) \in 0 .. KAPI_INPUT_BUF_SIZE - 1
        /\ next \in 0 .. KAPI_INPUT_BUF_SIZE - 1
    BY <1>1, <2>2, AtFacts DEF Rings, RingExact
  <2>7. ring' \in Rings
    <3> HIDE DEF next
    <3>1. ring' = [buf |-> [ring.buf EXCEPT ![ring.w] = key], r |-> ring.r, w |-> next]
      BY <1>1, <2>1 DEF Rings
    <3>2. [ring.buf EXCEPT ![ring.w] = key] \in [0 .. KAPI_INPUT_BUF_SIZE - 1 -> KeyType]
      BY <2>6
    <3> QED BY <1>1, <2>6, <3>1, <3>2 DEF Rings
  <2>8. ASSUME NEW j \in g .. k - 1 PROVE ring'.buf[At(j)] = accepted'[j + 1]
    <3>0. j \in Int /\ At(j) \in 0 .. KAPI_INPUT_BUF_SIZE - 1
      BY <1>1, AtFacts
    <3>1. CASE j = n
      BY <1>1, <2>4, <2>5, <2>6, <3>1
    <3>2. CASE j # n
      <4>1. j \in g .. n - 1 /\ j + 1 \in 1 .. n /\ j < n /\ n < j + KAPI_INPUT_BUF_SIZE
        BY <1>1, <3>2, Constants DEF RingExact
      <4>2. At(j) # At(n)
        <5> HIDE DEF n
        <5> QED BY <1>1, <3>0, <4>1, AtFacts
      <4>3. ring.buf[At(j)] = accepted[j + 1]
        BY <4>1 DEF RingExact
      <4> QED BY <2>4, <2>5, <2>6, <3>0, <4>1, <4>2, <4>3
    <3> QED BY <3>1, <3>2
  <2>9. \A i \in 1 .. g : got[i] = accepted'[i]
    BY <1>1, <2>4 DEF RingExact
  <2>10. g <= k
    BY <1>1 DEF RingExact
  <2> HIDE DEF next, k
  <2>11. RingExact'
    BY <2>2, <2>3, <2>4, <2>5, <2>8, <2>9, <2>10 DEF RingExact
  <2> QED BY <2>1, <2>4, <2>7, <2>11
<1> QED BY <1>2, <1>3

\* The first character of the serial line as a key, and the line after it.
LEMMA FirstChar ==
  ASSUME Types, uart # <<>>
  PROVE  /\ Head(uart) \in KeyType /\ Head(uart).id < 0
         /\ Tail(uart) \in Seq(CharType) /\ Len(Tail(uart)) <= chars
<1>1. Head(uart) \in CharType /\ Tail(uart) \in Seq(CharType)
      /\ Len(Tail(uart)) = Len(uart) - 1 /\ chars \in 0 .. MaxChars /\ Len(uart) <= chars
      /\ Len(uart) \in Nat
  BY HeadTailProperties DEF Types
<1> QED BY <1>1, InputAssumption DEF CharType, KeyType

LEMMA KeyIds == \A key \in KeyType : key.id \in Int
BY InputAssumption DEF KeyType

\* The key of an event.
LEMMA KeyOf ==
  ASSUME NEW ev \in EventType, Key(ev).with # "dropped"
  PROVE  Key(ev) \in KeyType /\ Key(ev).id = ev.id
<1>1. ev.id \in 0 .. MaxEvents
  BY InputAssumption DEF EventType, NoEvent
<1>2. Key(ev).with \in {"none", "shift", "ctrl"}
  BY DEF Key
<1>3. /\ Key(ev) = [id |-> ev.id, with |-> Key(ev).with]
      /\ ev.id \in 0 - MaxChars .. MaxEvents
  BY <1>1, InputAssumption DEF Key
<1> QED BY <1>2, <1>3 DEF KeyType

\* The key of a scan code.
LEMMA KeyOfScan ==
  ASSUME Types, chars < MaxChars, NEW scan, Ps2Key(scan).with # "dropped"
  PROVE  Ps2Key(scan) \in KeyType /\ Ps2Key(scan).id < 0
<1>1. chars \in Nat /\ MaxChars \in Nat
  BY InputAssumption DEF Types
<1>2. Ps2Key(scan).with \in {"none", "shift", "ctrl"}
  BY DEF Ps2Key
<1>3. /\ Ps2Key(scan) = [id |-> 0 - chars - 1, with |-> Ps2Key(scan).with]
      /\ 0 - chars - 1 \in 0 - MaxChars .. MaxEvents /\ 0 - chars - 1 < 0
  BY <1>1, InputAssumption DEF Ps2Key
<1> QED BY <1>2, <1>3 DEF KeyType

\* What the running loop leaves alone in every step but those of keyboard_poll.
Idle == UNCHANGED <<queue, last_used, held, sent, handled>>

\* Where the loops go when they do not handle an event.
LEMMA LoopStep ==
  ASSUME Types, PollUart \/ LoopUart \/ LoopMouse \/ HasKey \/ Getc
  PROVE  /\ cpu' \in Cpus /\ uart' \in Seq(CharType) /\ Len(uart') <= chars /\ chars' = chars
         /\ Idle /\ ps2' = ps2 /\ cpu.pc \notin {"next_event", "give_back", "advance"}
         /\ cpu'.pc \notin {"next_event", "give_back", "advance"}
<1>1. cpu \in Cpus /\ uart \in Seq(CharType) /\ Len(uart) <= chars
  BY TypeShape DEF Types
<1>2. CASE PollUart
  <2>1. Goto("keyboard_poll")
    BY <1>2 DEF PollUart
  <2>2. cpu' \in Cpus /\ cpu'.pc = "keyboard_poll"
    BY <1>1, <2>1, Moved DEF PCs
  <2> QED BY <1>1, <1>2, <2>2, FirstChar DEF PollUart, Idle
<1>3. CASE LoopUart
  <2>1. CallPoll("loop_mouse")
    BY <1>3 DEF LoopUart
  <2>2. cpu' \in Cpus /\ cpu'.pc = "input_poll"
    BY <1>1, <2>1, Moved DEF PCs, Rets
  <2> QED BY <1>1, <1>3, <2>2, FirstChar DEF LoopUart, Idle
<1>4. CASE LoopMouse
  <2>1. \E y \in Rets : CallPoll(y)
    BY <1>4 DEF LoopMouse, Rets
  <2>2. cpu' \in Cpus /\ cpu'.pc = "input_poll"
    BY <1>1, <2>1, Moved DEF PCs
  <2> QED BY <1>1, <1>4, <2>2 DEF LoopMouse, Idle
<1>5. CASE HasKey
  <2>1. Goto("getc") \/ Frame
    BY <1>5 DEF HasKey
  <2>2. cpu' \in Cpus /\ cpu'.pc \in {"getc", "input_poll"}
    BY <1>1, <2>1, Moved DEF PCs
  <2> QED BY <1>1, <1>5, <2>2, FirstChar DEF HasKey, Idle
<1>6. CASE Getc
  <2>1. Goto("has_key") \/ Frame
    BY <1>6 DEF Getc
  <2>2. cpu' \in Cpus /\ cpu'.pc \in {"has_key", "input_poll"}
    BY <1>1, <2>1, Moved DEF PCs
  <2> QED BY <1>1, <1>6, <2>2, FirstChar DEF Getc, Idle
<1> QED BY <1>2, <1>3, <1>4, <1>5, <1>6

\* kapi_getc takes the oldest key.
LEMMA GetKey ==
  ASSUME Types, RingExact, Getc
  PROVE  RingExact' /\ ring' \in Rings /\ got' \in Seq(KeyType) /\ accepted' = accepted
<1> DEFINE n == Len(accepted)
           g == Len(got)
<1>0. accepted' = accepted
  BY DEF Getc
<1>1. /\ n \in Nat /\ g \in Nat /\ ring \in Rings /\ accepted' = accepted
      /\ accepted \in Seq(KeyType) /\ got \in Seq(KeyType)
  BY <1>0, TypeShape DEF Types
<1>2. CASE UNCHANGED <<ring, got>>
  BY <1>1, <1>2 DEF RingExact
<1>3. CASE /\ ring.r # ring.w
           /\ got' = Append(got, ring.buf[ring.r])
           /\ ring' = [ring EXCEPT !.r = (@ + 1) % KAPI_INPUT_BUF_SIZE]
  <2> DEFINE k == g + 1
             next == (ring.r + 1) % KAPI_INPUT_BUF_SIZE
  <2>1. g < n
    BY <1>1, <1>3 DEF RingExact
  <2>2. k \in Int /\ next = At(k) /\ At(k) \in 0 .. KAPI_INPUT_BUF_SIZE - 1
    BY <1>1, AtFacts DEF RingExact
  <2>3. ring.r = At(g) /\ ring.buf[At(g)] = accepted[k]
    BY <1>1, <2>1 DEF RingExact
  <2>4. /\ ring' \in Rings /\ ring'.r = next /\ ring'.w = ring.w /\ ring'.buf = ring.buf
    <3> HIDE DEF next
    <3>1. ring' = [ring EXCEPT !.r = next]
      BY <1>3 DEF next
    <3> QED BY <1>1, <2>2, <3>1 DEF Rings
  <2>5. ring.buf[At(g)] \in KeyType
    BY <1>1, <2>3 DEF Rings
  <2>6. /\ got' \in Seq(KeyType) /\ Len(got') = k
        /\ \A i \in 1 .. g : got'[i] = got[i]
        /\ got'[k] = accepted[k]
    BY <1>1, <1>3, <2>3, <2>5, AppendProperties
  <2>7. \A i \in 1 .. k : got'[i] = accepted[i]
    BY <1>1, <2>6 DEF RingExact
  <2>8. \A j \in k .. n - 1 : ring'.buf[At(j)] = accepted[j + 1]
    BY <1>1, <2>4 DEF RingExact
  <2>9. k <= n /\ n - k < KAPI_INPUT_BUF_SIZE
    BY <1>1, <2>1, Constants DEF RingExact
  <2> HIDE DEF next, k
  <2>10. RingExact'
    BY <1>1, <2>2, <2>4, <2>6, <2>7, <2>8, <2>9 DEF RingExact
  <2> QED BY <1>1, <2>4, <2>6, <2>10
<1> QED BY <1>2, <1>3 DEF Getc

\* Every step keeps the ring exact and the ring's variables in their types; a
\* key put in is a character of the serial line or that of the event handled.
LEMMA RingStep ==
  ASSUME Types, RingExact, Next,
         HandleEvent => buffers[used.ring[Slot(last_used)]] \in EventType
  PROVE  /\ RingExact' /\ ring' \in Rings
         /\ accepted' \in Seq(KeyType) /\ got' \in Seq(KeyType)
         /\ \/ accepted' = accepted
            \/ \E key \in KeyType :
                 /\ accepted' = Append(accepted, key)
                 /\ \/ key.id < 0 /\ Idle
                    \/ /\ HandleEvent
                       /\ key = Key(buffers[used.ring[Slot(last_used)]])
                       /\ key.with # "dropped"
<1>0. ring \in Rings /\ accepted \in Seq(KeyType) /\ got \in Seq(KeyType)
  BY TypeShape DEF Types
<1>1. CASE UNCHANGED <<ring, accepted, got>>
  BY <1>0, <1>1 DEF RingExact
<1>2. CASE PollUart
  <2>1. CASE uart # <<>> /\ kapi_sys_key_event(Head(uart))
    <3>1. Head(uart) \in KeyType /\ Head(uart).id < 0
      BY <2>1, FirstChar
    <3>2. got' = got /\ Idle
      BY <1>2 DEF PollUart, Idle
    <3> QED BY <1>0, <2>1, <3>1, <3>2, PutKey
  <2>2. CASE UNCHANGED <<ring, accepted>>
    BY <1>1, <1>2, <2>2 DEF PollUart
  <2> QED BY <1>2, <2>1, <2>2 DEF PollUart
<1>6. CASE PollPs2
  <2>1. /\ chars < MaxChars /\ got' = got /\ Idle
        /\ \E scan \in Scans :
             IF Ps2Key(scan).with = "dropped" THEN UNCHANGED <<ring, accepted>>
             ELSE kapi_sys_key_event(Ps2Key(scan))
    BY <1>6 DEF PollPs2, Idle
  <2>2. PICK scan \in Scans : IF Ps2Key(scan).with = "dropped" THEN UNCHANGED <<ring, accepted>>
                               ELSE kapi_sys_key_event(Ps2Key(scan))
    BY <2>1
  <2>3. CASE UNCHANGED <<ring, accepted>>
    BY <1>1, <2>1, <2>3
  <2>4. CASE Ps2Key(scan).with # "dropped" /\ kapi_sys_key_event(Ps2Key(scan))
    <3>1. Ps2Key(scan) \in KeyType /\ Ps2Key(scan).id < 0
      BY <2>1, <2>4, KeyOfScan
    <3> DEFINE key == Ps2Key(scan)
    <3> HIDE DEF key
    <3>2. /\ RingExact' /\ ring' \in Rings /\ accepted' \in Seq(KeyType)
          /\ accepted' = accepted \/ accepted' = Append(accepted, key)
      BY <2>1, <2>4, <3>1, PutKey DEF key
    <3> QED BY <1>0, <2>1, <3>1, <3>2 DEF key
  <2> QED BY <2>2, <2>3, <2>4
<1>3. CASE HandleEvent
  <2> DEFINE ev == buffers[used.ring[Slot(last_used)]]
  <2>1. ev \in EventType /\ got' = got
    BY <1>3 DEF HandleEvent
  <2>2. \/ UNCHANGED <<ring, accepted>>
        \/ Key(ev).with # "dropped" /\ kapi_sys_key_event(Key(ev))
    BY <1>3 DEF HandleEvent
  <2>3. Key(ev).with # "dropped" => Key(ev) \in KeyType
    <3> HIDE DEF ev
    <3> QED BY <2>1, KeyOf
  <2>4. CASE UNCHANGED <<ring, accepted>>
    BY <1>1, <2>1, <2>4
  <2>5. CASE Key(ev).with # "dropped" /\ kapi_sys_key_event(Key(ev))
    <3> HIDE DEF ev
    <3>1. /\ RingExact' /\ ring' \in Rings /\ accepted' \in Seq(KeyType)
          /\ accepted' = accepted \/ accepted' = Append(accepted, Key(ev))
      BY <2>1, <2>3, <2>5, PutKey
    <3> QED BY <1>0, <1>3, <2>1, <2>3, <2>5, <3>1 DEF ev
  <2> QED BY <2>2, <2>4, <2>5
<1>4. CASE Getc
  <2>1. RingExact' /\ ring' \in Rings /\ got' \in Seq(KeyType) /\ accepted' = accepted
    BY <1>4, GetKey
  <2> QED BY <1>0, <2>1
<1>5. CASE PollKeyboard \/ GiveBack \/ Advance \/ PollDone
           \/ LoopUart \/ LoopMouse \/ HasKey \/ KeyboardEvent \/ UartChar
  BY <1>1, <1>5 DEF PollKeyboard, GiveBack, Advance, PollDone, LoopUart, LoopMouse,
                    HasKey, KeyboardEvent, UartChar
<1> QED BY <1>2, <1>3, <1>4, <1>5, <1>6 DEF Next, Cpu, InputPoll

-----------------------------------------------------------------------------
(* The event queue. *)

QueueInv == Indices /\ Contents /\ Numbered

\* The counts that Indices speaks of.
LEMMA Counts ==
  ASSUME Types, Indices
  PROVE  /\ Len(sent) \in Nat /\ Len(handled) \in Nat
         /\ Returned \in Nat /\ Advanced \in Nat
         /\ Returned <= Len(sent) /\ Returned <= Len(handled)
         /\ sent \in Seq(EventType) /\ handled \in Seq(EventType)
<1>1. sent \in Seq(EventType) /\ handled \in Seq(EventType)
  BY DEF Types
<1>2. Len(sent) \in Nat /\ Len(handled) \in Nat
  BY <1>1
<1> QED BY <1>1, <1>2 DEF Indices, Returned, Advanced, InEvent

\* A step that leaves the queue alone.
LEMMA QueueKept ==
  ASSUME QueueInv, UNCHANGED <<queue, last_used, sent, handled>>,
         Returned' = Returned, Advanced' = Advanced,
         InEvent' => InEvent,
         Polling' => \E c \in Len(handled) .. Len(sent) : cpu'.current_used = Wrap(c),
         cpu'.pc = "give_back" => cpu'.desc = Slot(Returned)
  PROVE  QueueInv'
<1>1. Indices'
  BY DEF QueueInv, Indices, queue
<1>2. Contents'
  BY DEF QueueInv, Contents, queue
<1>3. Numbered'
  BY DEF QueueInv, Numbered
<1> QED BY <1>1, <1>2, <1>3 DEF QueueInv

\* The event that keyboard_poll finds is the next one of the keyboard, and the
\* descriptor it finds is that event's.
LEMMA NextEvent ==
  ASSUME Types, QueueInv, cpu.pc = "next_event", last_used # cpu.current_used
  PROVE  LET k == Len(handled) IN
         /\ k < Len(sent) /\ Returned = k /\ Advanced = k
         /\ used.ring[Slot(last_used)] = Slot(k)
         /\ buffers[Slot(k)] = sent[k + 1]
         /\ sent[k + 1] \in EventType
         /\ sent[k + 1].id = k + 1 /\ sent[k + 1].what \in Kinds
         /\ \E c \in k + 1 .. Len(sent) : cpu.current_used = Wrap(c)
<1> DEFINE k == Len(handled)
<1>1. /\ Len(sent) \in Nat /\ k \in Nat /\ k <= Len(sent)
      /\ Returned = k /\ Advanced = k /\ sent \in Seq(EventType)
  BY Counts DEF QueueInv, Indices, Returned, Advanced
<1>2. last_used = Wrap(k)
  BY <1>1 DEF QueueInv, Indices
<1>3. PICK c \in k .. Len(sent) : cpu.current_used = Wrap(c)
  BY DEF QueueInv, Indices, Polling
<1>4. c # k /\ k < Len(sent) /\ c \in k + 1 .. Len(sent)
  BY <1>1, <1>2, <1>3
<1>5. Slot(last_used) = Slot(k)
  <2> HIDE DEF k
  <2> QED BY <1>1, <1>2, SlotFacts
<1>6. used.ring[Slot(k)] = Slot(k) /\ buffers[Slot(k)] = sent[k + 1]
  BY <1>1, <1>4 DEF QueueInv, Contents
<1>7. k + 1 \in 1 .. Len(sent)
  BY <1>1, <1>4
<1>8. sent[k + 1] \in EventType /\ sent[k + 1].id = k + 1 /\ sent[k + 1].what \in Kinds
  BY <1>1, <1>7 DEF QueueInv, Numbered
<1> QED BY <1>1, <1>3, <1>4, <1>5, <1>6, <1>8

\* The keyboard writes its next event into the buffer of the next slot.
LEMMA KeyboardStep ==
  ASSUME Types, QueueInv, KeyboardEvent
  PROVE  /\ QueueInv'
         /\ \E ev \in EventType : sent' = Append(sent, ev) /\ ev.id = Len(sent) + 1
         /\ sent' \in Seq(EventType) /\ Len(sent') = Len(sent) + 1 /\ Len(sent') <= MaxEvents
         /\ buffers' \in [Descriptors -> EventType]
         /\ used' \in [ring : [Descriptors -> Descriptors], idx : 0 .. INDEX_MODULUS - 1]
         /\ seen' \in 0 .. INDEX_MODULUS - 1
<1> DEFINE n == Len(sent)
           t == n + 1
           z == QUEUE_SIZE + Returned
           d == Slot(n)
<1>1. /\ n \in Nat /\ Returned \in Nat /\ Returned <= n /\ n <= z /\ z \in Int
      /\ sent \in Seq(EventType) /\ n < MaxEvents /\ t \in Int
  BY Counts, Constants DEF QueueInv, Indices, KeyboardEvent
<1>2. seen = Wrap(n) /\ used.idx = Wrap(n) /\ avail.idx = Wrap(z)
  BY DEF QueueInv, Indices
<1>3. n < z
  BY <1>1, <1>2 DEF KeyboardEvent
<1>4. /\ Slot(seen) = d /\ Slot(used.idx) = d /\ d \in Descriptors
      /\ Inc(seen) = Wrap(t) /\ Inc(used.idx) = Wrap(t)
      /\ Wrap(t) \in 0 .. INDEX_MODULUS - 1
  <2>1. n \in Int /\ t = n + 1
    BY <1>1
  <2> HIDE DEF n, t
  <2> QED BY <1>1, <1>2, <2>1, SlotFacts, WrapFacts
<1>5. avail.ring[Slot(seen)] = d
  BY <1>4 DEF QueueInv, Contents
<1>6. PICK kind \in Kinds :
        LET ev == [what |-> kind, id |-> t]
        IN  /\ buffers' = [buffers EXCEPT ![d] = ev]
            /\ used' = [ring |-> [used.ring EXCEPT ![d] = d], idx |-> Wrap(t)]
            /\ sent' = Append(sent, ev)
  BY <1>4, <1>5 DEF KeyboardEvent
<1> DEFINE ev == [what |-> kind, id |-> t]
<1>7. ev \in EventType /\ ev.id = t /\ ev.what \in Kinds
  <2>1. t \in 1 .. MaxEvents
    BY <1>1, InputAssumption
  <2>2. ev \in [what : Kinds, id : 1 .. MaxEvents]
    <3> HIDE DEF t
    <3> QED BY <2>1
  <2> HIDE DEF t
  <2> QED BY <2>2 DEF EventType
<1> HIDE DEF ev
<1>8. /\ buffers' = [buffers EXCEPT ![d] = ev]
      /\ used'.ring = [used.ring EXCEPT ![d] = d] /\ used'.idx = Wrap(t)
      /\ sent' = Append(sent, ev) /\ seen' = Wrap(t)
      /\ UNCHANGED <<avail, last_used, cpu, handled>>
  BY <1>4, <1>6 DEF ev, KeyboardEvent
<1>9. /\ sent' \in Seq(EventType) /\ Len(sent') = t
      /\ \A i \in 1 .. n : sent'[i] = sent[i]
      /\ sent'[t] = ev
  BY <1>1, <1>7, <1>8, AppendProperties
<1>10. /\ used.ring \in [Descriptors -> Descriptors]
       /\ buffers \in [Descriptors -> EventType]
  BY DEF Types
<1>11. /\ used' \in [ring : [Descriptors -> Descriptors], idx : 0 .. INDEX_MODULUS - 1]
       /\ buffers' \in [Descriptors -> EventType]
  <2>1. [used.ring EXCEPT ![d] = d] \in [Descriptors -> Descriptors]
    BY <1>4, <1>10
  <2>2. used' = [ring |-> [used.ring EXCEPT ![d] = d], idx |-> Wrap(t)]
    BY <1>6
  <2> HIDE DEF d, t
  <2> QED BY <1>4, <1>7, <1>8, <1>10, <2>1, <2>2
<1>12. Returned' = Returned /\ Advanced' = Advanced
  BY <1>8 DEF Returned, Advanced
<1>13. Indices'
  <2>1. Polling' => \E c \in Len(handled) .. t : cpu.current_used = Wrap(c)
    BY <1>1, <1>8 DEF QueueInv, Indices, Polling
  <2>2. Len(handled) <= t /\ t <= z
    BY <1>1, <1>3, Counts DEF QueueInv, Indices
  <2> HIDE DEF t
  <2> QED BY <1>2, <1>8, <1>9, <1>12, <2>1, <2>2 DEF QueueInv, Indices, InEvent
<1>14. Contents'
  <2>1. ASSUME NEW k \in Returned .. t - 1
        PROVE  used'.ring[Slot(k)] = Slot(k) /\ buffers'[Slot(k)] = sent'[k + 1]
    <3>1. k \in Int /\ Slot(k) \in Descriptors
      BY <1>1, SlotFacts
    <3>2. CASE k = n
      BY <1>4, <1>8, <1>9, <1>10, <3>2
    <3>3. CASE k # n
      <4>1. k \in Returned .. n - 1 /\ k + 1 \in 1 .. n /\ k < n /\ n < k + QUEUE_SIZE
        BY <1>1, <1>3, <3>3, Constants
      <4>2. Slot(k) # d
        <5> HIDE DEF n
        <5> QED BY <1>1, <3>1, <4>1, SlotFacts
      <4>3. used.ring[Slot(k)] = Slot(k) /\ buffers[Slot(k)] = sent[k + 1]
        BY <4>1 DEF QueueInv, Contents
      <4> QED BY <1>8, <1>9, <1>10, <3>1, <4>1, <4>2, <4>3
    <3> QED BY <3>2, <3>3
  <2> HIDE DEF t
  <2> QED BY <1>8, <1>9, <1>12, <2>1 DEF QueueInv, Contents
<1>15. Numbered'
  <2>1. ASSUME NEW i \in 1 .. t PROVE sent'[i].id = i /\ sent'[i].what \in Kinds
    <3>1. CASE i = t
      BY <1>7, <1>9, <3>1
    <3>2. CASE i # t
      <4>1. i \in 1 .. n
        BY <1>1, <3>2
      <4> QED BY <1>9, <4>1 DEF QueueInv, Numbered
    <3> QED BY <3>1, <3>2
  <2>2. \A i \in 1 .. Len(handled) : handled[i] = sent[i] /\ i \in 1 .. n
    BY <1>1, Counts DEF QueueInv, Numbered, Indices
  <2> HIDE DEF t, n
  <2> QED BY <1>8, <1>9, <2>1, <2>2 DEF Numbered
<1>16. t <= MaxEvents
  BY <1>1, InputAssumption
<1> QED BY <1>4, <1>7, <1>8, <1>9, <1>11, <1>13, <1>14, <1>15, <1>16 DEF QueueInv

\* keyboard_poll handles the next event and keeps its descriptor to return.
LEMMA HandleStep ==
  ASSUME Types, QueueInv, HandleEvent
  PROVE  /\ QueueInv' /\ cpu' \in Cpus /\ handled' \in Seq(EventType)
         /\ Len(handled') = Len(handled) + 1
<1> DEFINE n == Len(handled)
           t == n + 1
           ev == sent[t]
<1>1. /\ n < Len(sent) /\ Returned = n /\ Advanced = n
      /\ used.ring[Slot(last_used)] = Slot(n)
      /\ buffers[Slot(n)] = ev /\ ev \in EventType
      /\ \E c \in t .. Len(sent) : cpu.current_used = Wrap(c)
  BY NextEvent DEF HandleEvent
<1>2. /\ n \in Nat /\ Len(sent) \in Nat /\ t \in Nat
      /\ handled \in Seq(EventType) /\ cpu \in Cpus /\ Slot(n) \in Descriptors
  BY Counts, TypeShape, SlotFacts DEF QueueInv
<1>3. /\ handled' = Append(handled, ev)
      /\ cpu' = [cpu EXCEPT !.pc = "give_back", !.desc = Slot(n)]
      /\ UNCHANGED <<queue, last_used, sent>>
  BY <1>1 DEF HandleEvent
<1> HIDE DEF ev
<1>4. /\ handled' \in Seq(EventType) /\ Len(handled') = t
      /\ \A i \in 1 .. n : handled'[i] = handled[i]
      /\ handled'[t] = ev
  BY <1>1, <1>2, <1>3, AppendProperties
<1>5. /\ cpu' \in Cpus /\ cpu'.pc = "give_back" /\ cpu'.desc = Slot(n)
      /\ cpu'.current_used = cpu.current_used
  <2> HIDE DEF n
  <2> QED BY <1>2, <1>3 DEF Cpus, PCs
<1>6. Returned' = n /\ Advanced' = n
  BY <1>2, <1>4, <1>5 DEF Returned, Advanced
<1>7. Indices'
  <2>1. t >= 1 /\ t <= Len(sent)
    BY <1>1, <1>2
  <2> HIDE DEF t, n
  <2> QED BY <1>1, <1>3, <1>4, <1>5, <1>6, <2>1 DEF QueueInv, Indices, queue
<1>8. Contents'
  <2> HIDE DEF n
  <2> QED BY <1>1, <1>3, <1>5, <1>6 DEF QueueInv, Contents, queue
<1>9. Numbered'
  <2>1. \A i \in 1 .. t : i \in 1 .. n \/ i = t
    BY <1>2
  <2> HIDE DEF n, t
  <2>2. \A i \in 1 .. t : i <= Len(sent) => handled'[i] = sent[i]
    BY <1>4, <2>1 DEF QueueInv, Numbered, n, ev
  <2> QED BY <1>3, <1>4, <2>2 DEF QueueInv, Numbered
<1> QED BY <1>4, <1>5, <1>7, <1>8, <1>9 DEF QueueInv

\* The descriptor that is given back lands in the slot of its own number.
LEMMA GiveBackStep ==
  ASSUME Types, QueueInv, GiveBack
  PROVE  /\ QueueInv' /\ cpu' \in Cpus
         /\ avail' \in [ring : [Descriptors -> Descriptors], idx : 0 .. INDEX_MODULUS - 1]
<1> DEFINE g == Returned
           h == Len(handled)
           z == QUEUE_SIZE + g
           y == QUEUE_SIZE + h
<1>1. /\ cpu \in Cpus /\ cpu.pc = "give_back" /\ Goto("advance")
      /\ UNCHANGED <<used, buffers, seen, last_used, sent, handled>>
  BY TypeShape DEF GiveBack
<1>2. /\ g = h - 1 /\ g \in Nat /\ h \in Nat /\ z \in Int /\ y \in Int /\ y = z + 1
      /\ Len(sent) \in Nat /\ h <= Len(sent)
  BY <1>1, Counts, Constants DEF QueueInv, Returned, Indices
<1>3. /\ avail.idx = Wrap(z) /\ cpu.desc = Slot(g)
  BY <1>1 DEF QueueInv, Indices, Contents
<1>4. /\ Slot(avail.idx) = Slot(g) /\ Slot(g) \in Descriptors
      /\ Inc(avail.idx) = Wrap(y) /\ Wrap(y) \in 0 .. INDEX_MODULUS - 1
  <2>1. g \in Int /\ z = QUEUE_SIZE + g
    BY <1>2
  <2> HIDE DEF g, y, z
  <2> QED BY <1>2, <1>3, <2>1, SlotFacts, WrapFacts
<1>5. avail' = [ring |-> [avail.ring EXCEPT ![Slot(g)] = Slot(g)], idx |-> Wrap(y)]
  BY <1>3, <1>4 DEF GiveBack
<1>6. avail.ring \in [Descriptors -> Descriptors] /\ \A i \in Descriptors : avail.ring[i] = i
  BY DEF Types, QueueInv, Contents
<1> DEFINE r == [avail.ring EXCEPT ![Slot(g)] = Slot(g)]
<1>7. r \in [Descriptors -> Descriptors] /\ \A i \in Descriptors : r[i] = i
  BY <1>4, <1>6
<1>8. avail'.ring = r /\ avail'.idx = Wrap(y)
  BY <1>5
<1>9. avail' \in [ring : [Descriptors -> Descriptors], idx : 0 .. INDEX_MODULUS - 1]
  <2> HIDE DEF r, y
  <2> QED BY <1>4, <1>5, <1>7 DEF r
<1>10. cpu' \in Cpus /\ cpu'.pc = "advance" /\ cpu'.current_used = cpu.current_used
  BY <1>1, Moved DEF PCs
<1>11. Returned' = h /\ Advanced' = Advanced
  BY <1>1, <1>10 DEF Returned, Advanced
<1>12. Indices'
  <2>1. Len(sent) <= y
    BY <1>2 DEF QueueInv, Indices
  <2>2. Polling /\ InEvent
    BY <1>1 DEF Polling, InEvent
  <2> HIDE DEF y
  <2>3. avail'.idx = Wrap(QUEUE_SIZE + Returned')
    BY <1>8, <1>11 DEF y
  <2>4. Len(sent') <= QUEUE_SIZE + Returned'
    BY <1>1, <1>11, <2>1 DEF y
  <2> QED BY <1>1, <1>10, <1>11, <2>2, <2>3, <2>4 DEF QueueInv, Indices
<1>13. Contents'
  <2>1. \A k \in h .. Len(sent) - 1 : k \in g .. Len(sent) - 1
    BY <1>2
  <2> HIDE DEF r, h
  <2> QED BY <1>1, <1>7, <1>8, <1>10, <1>11, <2>1 DEF QueueInv, Contents
<1>14. Numbered'
  BY <1>1 DEF QueueInv, Numbered
<1> QED BY <1>9, <1>10, <1>12, <1>13, <1>14 DEF QueueInv

\* The other steps of keyboard_poll.
LEMMA AdvanceStep ==
  ASSUME Types, QueueInv, PollKeyboard \/ Advance \/ PollDone
  PROVE  /\ QueueInv' /\ cpu' \in Cpus /\ last_used' \in 0 .. INDEX_MODULUS - 1
<1>0. /\ cpu \in Cpus /\ last_used \in 0 .. INDEX_MODULUS - 1
      /\ Len(sent) \in Nat /\ Len(handled) \in Nat /\ Len(handled) <= Len(sent)
  BY TypeShape, Counts DEF Types, QueueInv, Indices
<1>1. CASE PollKeyboard
  <2>1. cpu.pc = "keyboard_poll" /\ UNCHANGED <<queue, last_used, sent, handled>>
    BY <1>1 DEF PollKeyboard
  <2>2. /\ cpu' \in Cpus /\ cpu'.pc = "next_event" /\ cpu'.current_used = used.idx
    <3>1. used.idx \in 0 .. INDEX_MODULUS - 1
      BY DEF Types
    <3>2. cpu' = [cpu EXCEPT !.pc = "next_event", !.current_used = used.idx]
      BY <1>1 DEF PollKeyboard
    <3> DEFINE u == used.idx
    <3> HIDE DEF u
    <3>3. cpu' = [cpu EXCEPT !.pc = "next_event", !.current_used = u]
          /\ u \in 0 .. INDEX_MODULUS - 1
      BY <3>1, <3>2 DEF u
    <3>4. /\ cpu' \in Cpus /\ cpu'.pc = "next_event" /\ cpu'.current_used = u
      BY <1>0, <3>3 DEF Cpus, PCs
    <3> QED BY <3>4 DEF u
  <2>3. Returned' = Returned /\ Advanced' = Advanced /\ ~ InEvent'
    BY <2>1, <2>2 DEF Returned, Advanced, InEvent
  <2>4. \E c \in Len(handled) .. Len(sent) : cpu'.current_used = Wrap(c)
    BY <1>0, <2>2 DEF QueueInv, Indices
  <2> QED BY <1>0, <2>1, <2>2, <2>3, <2>4, QueueKept
<1>2. CASE Advance
  <2>1. /\ cpu.pc = "advance" /\ UNCHANGED <<queue, sent, handled>>
        /\ last_used' = Inc(last_used) /\ Goto("next_event")
    BY <1>2 DEF Advance
  <2>2. cpu' \in Cpus /\ cpu'.pc = "next_event" /\ cpu'.current_used = cpu.current_used
    BY <1>0, <2>1, Moved DEF PCs
  <2> DEFINE a == Advanced
             h == Len(handled)
  <2>3. h = a + 1 /\ a \in Int /\ h \in Int /\ last_used = Wrap(a)
    BY <1>0, <2>1, Counts DEF QueueInv, Indices, Advanced
  <2>4. last_used' = Wrap(h) /\ Wrap(h) \in 0 .. INDEX_MODULUS - 1
    <3> HIDE DEF a, h
    <3> QED BY <2>1, <2>3, WrapFacts
  <2>5. Returned' = Returned /\ Advanced' = h
    BY <2>1, <2>2 DEF Returned, Advanced
  <2>6. Indices'
    <3>1. Polling /\ InEvent
      BY <2>1 DEF Polling, InEvent
    <3> HIDE DEF h
    <3> QED BY <2>1, <2>2, <2>4, <2>5, <3>1 DEF QueueInv, Indices, queue
  <2>7. Contents'
    BY <2>1, <2>2, <2>5 DEF QueueInv, Contents, queue
  <2>8. Numbered'
    BY <2>1 DEF QueueInv, Numbered
  <2> QED BY <2>2, <2>4, <2>6, <2>7, <2>8 DEF QueueInv
<1>3. CASE PollDone
  <2>1. /\ cpu.pc = "next_event" /\ UNCHANGED <<queue, last_used, sent, handled>>
        /\ Goto(cpu.ret)
    BY <1>3 DEF PollDone
  <2> DEFINE x == cpu.ret
  <2>2. x \in PCs /\ x \notin {"next_event", "give_back", "advance"}
    BY <1>0 DEF Cpus, Rets, PCs
  <2>3. Goto(x)
    BY <2>1
  <2> HIDE DEF x
  <2>4. cpu' \in Cpus /\ cpu'.pc = x
    BY <1>0, <2>2, <2>3, Moved
  <2>5. Returned' = Returned /\ Advanced' = Advanced /\ ~ InEvent' /\ ~ Polling'
    BY <2>1, <2>2, <2>4 DEF Returned, Advanced, InEvent, Polling
  <2>6. cpu'.pc # "give_back"
    BY <2>2, <2>4
  <2> QED BY <1>0, <2>1, <2>4, <2>5, <2>6, QueueKept
<1> QED BY <1>1, <1>2, <1>3

-----------------------------------------------------------------------------
(* The modifiers. *)

\* The last event of the keys ks in s before event n was a press.
Down(s, ks, n) ==
  \E i \in 1 .. n - 1 :
    /\ s[i].what \in ks \X {"down"}
    /\ \A j \in i + 1 .. n - 1 : s[j].what \notin ks \X {"up"}

\* What key number id of s carries, and that the keys a carry that.
With(s, id) == IF s[id].what[1] = "special" THEN "none"
               ELSE IF Down(s, KeysOf.ctrl, id) THEN "ctrl"
               ELSE IF Down(s, KeysOf.shift, id) THEN "shift" ELSE "none"
KeyRight(s, k) == k.with = With(s, k.id) /\ (k.with = "ctrl" => s[k.id].what[1] = "letter")
KeysRight(s, a) == \A i \in 1 .. Len(a) : a[i].id > 0 => KeyRight(s, a[i])

LEMMA Restated ==
  /\ \A ks, n : LastDown(ks, n) <=> Down(sent, ks, n)
  /\ ModifiersRight <=> KeysRight(sent, accepted)
  /\ ModifiersRight' <=> KeysRight(sent', accepted')
<1>1. \A ks, n : LastDown(ks, n) <=> Down(sent, ks, n)
  BY DEF LastDown, Down
<1>2. ModifiersRight <=> KeysRight(sent, accepted)
  BY DEF ModifiersRight, KeysRight, KeyRight, With, LastDown, Down
<1>3. ModifiersRight' <=> KeysRight(sent', accepted')
  BY DEF ModifiersRight, KeysRight, KeyRight, With, LastDown, Down
<1> QED BY <1>1, <1>2, <1>3

\* What is down before event n does not depend upon the events from n on.
LEMMA DownStable ==
  ASSUME NEW s, NEW u, NEW k \in Nat, \A i \in 1 .. k : u[i] = s[i],
         NEW n \in Int, n <= k + 1
  PROVE  /\ \A m : Down(u, m, n) <=> Down(s, m, n)
         /\ n \in 1 .. k => /\ With(u, n) = With(s, n)
                            /\ \A key : key.id = n => (KeyRight(u, key) <=> KeyRight(s, key))
<1>1. ASSUME NEW m PROVE Down(u, m, n) <=> Down(s, m, n)
  <2>1. \A i \in 1 .. n - 1 : u[i] = s[i]
    OBVIOUS
  <2>2. ASSUME NEW i \in 1 .. n - 1
        PROVE  /\ u[i].what \in m \X {"down"} <=> s[i].what \in m \X {"down"}
               /\ (\A j \in i + 1 .. n - 1 : u[j].what \notin m \X {"up"})
                    <=> \A j \in i + 1 .. n - 1 : s[j].what \notin m \X {"up"}
    <3>1. \A j \in i + 1 .. n - 1 : u[j] = s[j]
      BY <2>1
    <3> QED BY <2>1, <3>1
  <2> QED BY <2>2 DEF Down
<1>2. n \in 1 .. k => u[n] = s[n]
  OBVIOUS
<1> QED BY <1>1, <1>2 DEF With, KeyRight

\* One more event puts a modifier down, or lifts it, or leaves it.
LEMMA DownNext ==
  ASSUME NEW s, NEW m, NEW n \in Nat \ {0}, NEW t \in Nat, t = n + 1
  PROVE  Down(s, m, t) <=> \/ s[n].what \in m \X {"down"}
                           \/ Down(s, m, n) /\ s[n].what \notin m \X {"up"}
<1>1. CASE s[n].what \in m \X {"down"}
  <2>1. n \in 1 .. t - 1 /\ \A j \in n + 1 .. t - 1 : FALSE
    OBVIOUS
  <2> QED BY <1>1, <2>1 DEF Down
<1>2. CASE s[n].what \notin m \X {"down"}
  <2>1. ASSUME Down(s, m, t) PROVE Down(s, m, n) /\ s[n].what \notin m \X {"up"}
    <3>1. PICK i \in 1 .. t - 1 :
            /\ s[i].what \in m \X {"down"}
            /\ \A j \in i + 1 .. t - 1 : s[j].what \notin m \X {"up"}
      BY <2>1 DEF Down
    <3>2. i \in 1 .. n - 1 /\ n \in i + 1 .. t - 1
      BY <1>2, <3>1
    <3>3. \A j \in i + 1 .. n - 1 : j \in i + 1 .. t - 1
      OBVIOUS
    <3> QED BY <3>1, <3>2, <3>3 DEF Down
  <2>2. ASSUME Down(s, m, n), s[n].what \notin m \X {"up"} PROVE Down(s, m, t)
    <3>1. PICK i \in 1 .. n - 1 :
            /\ s[i].what \in m \X {"down"}
            /\ \A j \in i + 1 .. n - 1 : s[j].what \notin m \X {"up"}
      BY <2>2 DEF Down
    <3>2. i \in 1 .. t - 1 /\ \A j \in i + 1 .. t - 1 : j \in i + 1 .. n - 1 \/ j = n
      OBVIOUS
    <3> QED BY <2>2, <3>1, <3>2 DEF Down
  <2> QED BY <1>2, <2>1, <2>2
<1> QED BY <1>1, <1>2

\* The modifiers a key carries are those held.
LEMMA KeyWith ==
  ASSUME HeldRight, NEW n, n = Len(handled) + 1,
         NEW ev, ev = sent[n], ev.id = n, Key(ev).with # "dropped"
  PROVE  KeyRight(sent, Key(ev))
<1>1. \A m \in Modifiers : m \in held <=> Down(sent, KeysOf[m], n)
  BY Restated DEF HeldRight
<1>2. /\ "ctrl" \in held <=> Down(sent, KeysOf.ctrl, n)
      /\ "shift" \in held <=> Down(sent, KeysOf.shift, n)
  BY <1>1 DEF Modifiers, KeysOf
<1>3. Key(ev).id = n
  BY DEF Key
<1>4. /\ Key(ev).with = With(sent, n)
      /\ Key(ev).with = "ctrl" => ev.what[1] = "letter"
  BY <1>2 DEF Key, With
<1> QED BY <1>3, <1>4 DEF KeyRight

\* A new event changes nothing for the keys put in before.
LEMMA KeyboardKeys ==
  ASSUME IInv, KeyboardEvent
  PROVE  HeldRight' /\ ModifiersRight'
<1> DEFINE n == Len(sent)
           h == Len(handled)
           t == h + 1
<1>1. PICK ev \in EventType : sent' = Append(sent, ev)
  BY KeyboardStep DEF IInv, QueueInv
<1>2. /\ n \in Nat /\ h \in Nat /\ h <= n /\ sent \in Seq(EventType) /\ t \in Int
      /\ accepted \in Seq(KeyType)
      /\ UNCHANGED <<held, handled, accepted>>
  BY Counts DEF IInv, Types, Indices, KeyboardEvent
<1>3. \A i \in 1 .. n : sent'[i] = sent[i]
  BY <1>1, <1>2, AppendProperties
<1>4. \A k \in Int : k <= n + 1 => \A m : Down(sent', m, k) <=> Down(sent, m, k)
  <2> HIDE DEF n
  <2> QED BY <1>2, <1>3, DownStable
<1>5. \A m : Down(sent', m, t) <=> Down(sent, m, t)
  <2>1. t <= n + 1
    BY <1>2
  <2> HIDE DEF t
  <2> QED BY <1>2, <1>4, <2>1
<1>6. HeldRight'
  BY <1>2, <1>5, Restated DEF IInv, HeldRight, LastDown, Down
<1>7. KeysRight(sent', accepted')
  <2> SUFFICES ASSUME NEW i \in 1 .. Len(accepted), accepted[i].id > 0
               PROVE  KeyRight(sent', accepted[i])
    BY <1>2 DEF KeysRight
  <2>1. accepted[i].id \in 1 .. n /\ accepted[i].id \in Int /\ accepted[i].id <= n + 1
    <3>1. accepted[i] \in KeyType
      BY <1>2
    <3> QED BY <1>2, <3>1, InputAssumption DEF KeyType, IInv, HeldRight
  <2>2. KeyRight(sent, accepted[i])
    BY Restated DEF IInv, KeysRight
  <2> HIDE DEF n
  <2>3. KeyRight(sent', accepted[i]) <=> KeyRight(sent, accepted[i])
    BY <1>2, <1>3, <2>1, DownStable
  <2> QED BY <2>2, <2>3
<1> QED BY <1>6, <1>7, Restated

\* A key that is put in while nothing of the queue changes has no modifiers to
\* be right about.
LEMMA IdleKeys ==
  ASSUME IInv, NEW key \in KeyType, key.id < 0,
         accepted' = accepted \/ accepted' = Append(accepted, key),
         UNCHANGED <<held, sent, handled>>
  PROVE  HeldRight' /\ ModifiersRight'
<1>1. /\ accepted \in Seq(KeyType) /\ Len(handled) \in Nat
      /\ HeldRight /\ KeysRight(sent, accepted)
  BY Counts, Restated DEF IInv, Types
<1>2. CASE accepted' = accepted
  <2>1. HeldRight'
    BY <1>1, <1>2 DEF HeldRight, LastDown
  <2> QED BY <1>1, <1>2, <2>1, Restated
<1>3. CASE accepted' = Append(accepted, key)
  <2> DEFINE n == Len(accepted)
             k == n + 1
  <2>1. /\ Len(accepted') = k /\ accepted'[k] = key /\ n \in Nat
        /\ \A i \in 1 .. n : accepted'[i] = accepted[i]
    BY <1>1, <1>3, AppendProperties
  <2>2. \A i \in 1 .. k : i \in 1 .. n \/ i = k
    BY <2>1
  <2>3. key.id \in Int
    BY InputAssumption DEF KeyType
  <2> HIDE DEF k, n
  <2>4. \A i \in 1 .. Len(accepted') : accepted'[i].id <= Len(handled)
    BY <1>1, <2>1, <2>2, <2>3 DEF HeldRight, n
  <2>5. HeldRight'
    BY <1>1, <2>4 DEF HeldRight, LastDown
  <2>6. KeysRight(sent, accepted')
    BY <1>1, <2>1, <2>2, <2>3 DEF KeysRight, n
  <2> QED BY <2>5, <2>6, Restated
<1> QED BY <1>2, <1>3

\* The modifiers are moved on with the event, and its key carries those held
\* before it.
LEMMA HandleKeys ==
  ASSUME IInv, HandleEvent,
         NEW ev, ev = buffers[used.ring[Slot(last_used)]],
         \/ accepted' = accepted
         \/ Key(ev).with # "dropped" /\ accepted' = Append(accepted, Key(ev))
  PROVE  HeldRight' /\ ModifiersRight'
<1> DEFINE h == Len(handled)
           n == h + 1
           t == n + 1
<1>1. /\ h < Len(sent) /\ ev = sent[n] /\ ev \in EventType
      /\ ev.id = n /\ ev.what \in Kinds
  BY NextEvent DEF IInv, QueueInv, HandleEvent
<1>2. /\ h \in Nat /\ Len(sent) \in Nat /\ n \in Nat \ {0} /\ t \in Nat
      /\ Len(handled') = n /\ sent' = sent /\ held' = Held(ev.what)
      /\ accepted \in Seq(KeyType) /\ held \subseteq Modifiers
  <2>1. h \in Nat /\ Len(sent) \in Nat
    BY Counts DEF IInv
  <2>2. accepted \in Seq(KeyType) /\ held \subseteq Modifiers
    BY DEF IInv, Types
  <2>3. Len(handled') = n
    BY HandleStep DEF IInv, QueueInv
  <2>4. sent' = sent /\ held' = Held(ev.what)
    BY DEF HandleEvent
  <2> QED BY <2>1, <2>2, <2>3, <2>4
<1>3. HeldRight /\ Numbered /\ KeysRight(sent, accepted)
  BY Restated DEF IInv
<1>4. ASSUME NEW m \in Modifiers PROVE m \in held' <=> Down(sent, KeysOf[m], t)
  <2>1. m \in held' <=> \/ ev.what \in KeysOf[m] \X {"down"}
                        \/ m \in held /\ ev.what \notin KeysOf[m] \X {"up"}
    <3>1. PICK w, x : ev.what = <<w, x>> /\ x \in {"down", "up"}
      BY <1>1, InputAssumption
    <3>2. /\ ev.what[1] \in KeysOf[m] <=> w \in KeysOf[m]
          /\ ev.what \in KeysOf[m] \X {"down"} <=> w \in KeysOf[m] /\ x = "down"
          /\ ev.what \in KeysOf[m] \X {"up"} <=> w \in KeysOf[m] /\ x = "up"
      BY <3>1
    <3> QED BY <1>2, <3>1, <3>2 DEF Held
  <2>2. m \in held <=> Down(sent, KeysOf[m], n)
    BY <1>3, Restated DEF HeldRight
  <2>3. Down(sent, KeysOf[m], t) <=>
          \/ sent[n].what \in KeysOf[m] \X {"down"}
          \/ Down(sent, KeysOf[m], n) /\ sent[n].what \notin KeysOf[m] \X {"up"}
    <3>1. t = n + 1
      OBVIOUS
    <3> HIDE DEF n, t
    <3> QED BY <1>2, <3>1, DownNext
  <2> QED BY <1>1, <2>1, <2>2, <2>3
<1>5. ASSUME Key(ev).with # "dropped"
      PROVE  Key(ev) \in KeyType /\ Key(ev).id = n /\ KeyRight(sent, Key(ev))
  <2>1. n = Len(handled) + 1
    BY <1>1, <1>2
  <2> HIDE DEF n
  <2> QED BY <1>1, <1>2, <1>3, <1>5, <2>1, KeyOf, KeyWith
<1>6. /\ \A i \in 1 .. Len(accepted') : accepted'[i].id <= n
      /\ KeysRight(sent, accepted')
  <2>1. CASE accepted' = accepted
    <3>1. \A i \in 1 .. Len(accepted) : accepted[i].id \in Int
      BY <1>2, KeyIds
    <3> QED BY <1>2, <1>3, <2>1, <3>1 DEF HeldRight
  <2>2. CASE Key(ev).with # "dropped" /\ accepted' = Append(accepted, Key(ev))
    <3> DEFINE a == Len(accepted)
               k == a + 1
    <3>1. /\ Len(accepted') = k /\ accepted'[k] = Key(ev) /\ a \in Nat
          /\ \A i \in 1 .. a : accepted'[i] = accepted[i]
      BY <1>2, <1>5, <2>2, AppendProperties
    <3>2. \A i \in 1 .. k : i \in 1 .. a \/ i = k
      BY <3>1
    <3>3. \A i \in 1 .. a : accepted[i].id \in Int
      BY <1>2, KeyIds
    <3>4. \A i \in 1 .. a : accepted[i].id <= n
      BY <1>2, <1>3, <3>3 DEF HeldRight
    <3> HIDE DEF k, a, n
    <3>5. \A i \in 1 .. Len(accepted') : accepted'[i].id <= n
      BY <1>2, <1>5, <2>2, <3>1, <3>2, <3>4
    <3>6. KeysRight(sent, accepted')
      BY <1>3, <1>5, <2>2, <3>1, <3>2 DEF KeysRight, a
    <3> QED BY <3>5, <3>6
  <2> QED BY <2>1, <2>2
<1>7. HeldRight'
  <2> HIDE DEF n
  <2>1. \A m \in Modifiers : m \in held' <=> Down(sent', KeysOf[m], Len(handled') + 1)
    BY <1>2, <1>4
  <2> QED BY <1>2, <1>6, <2>1 DEF HeldRight, LastDown, Down
<1> QED BY <1>2, <1>6, <1>7, Restated

-----------------------------------------------------------------------------
(* The invariant and what follows from it. *)

LEMMA Initially == Init => IInv
<1> SUFFICES ASSUME Init PROVE IInv
  OBVIOUS
<1>1. Wrap(0) = 0 /\ At(0) = 0
  BY Constants DEF Wrap, At
<1>2. /\ avail = [ring |-> [i \in Descriptors |-> i], idx |-> QUEUE_SIZE]
      /\ used = [ring |-> [i \in Descriptors |-> 0], idx |-> 0]
      /\ cpu = [pc |-> "input_poll", ret |-> "loop_uart", current_used |-> 0, desc |-> 0]
      /\ ring = [buf |-> [i \in 0 .. KAPI_INPUT_BUF_SIZE - 1 |-> NoKey], r |-> 0, w |-> 0]
      /\ sent = <<>> /\ handled = <<>> /\ accepted = <<>> /\ got = <<>> /\ uart = <<>>
  BY DEF Init
<1>3. 0 \in Descriptors /\ 0 \in 0 .. INDEX_MODULUS - 1 /\ QUEUE_SIZE \in 0 .. INDEX_MODULUS - 1
      /\ 0 \in 0 .. KAPI_INPUT_BUF_SIZE - 1
  BY Constants DEF Descriptors
<1>4. NoKey \in KeyType /\ NoEvent \in EventType
  BY InputAssumption DEF NoKey, KeyType, NoEvent, EventType
<1>5. Wrap(QUEUE_SIZE) = QUEUE_SIZE
  BY Constants DEF Wrap
<1>6. /\ avail \in [ring : [Descriptors -> Descriptors], idx : 0 .. INDEX_MODULUS - 1]
      /\ used \in [ring : [Descriptors -> Descriptors], idx : 0 .. INDEX_MODULUS - 1]
  BY <1>2, <1>3
<1>7. cpu \in Cpus
  BY <1>2, <1>3 DEF Cpus, PCs, Rets
<1>8. ring \in Rings
  BY <1>2, <1>3, <1>4 DEF Rings
<1>9. Types
  BY <1>2, <1>3, <1>4, <1>6, <1>7, <1>8, InputAssumption
     DEF Init, Types, Cpus, Rings, PCs, Rets
<1>10. Returned = 0 /\ Advanced = 0 /\ ~ Polling /\ ~ InEvent /\ Len(sent) = 0
       /\ Len(handled) = 0 /\ Len(accepted) = 0 /\ Len(got) = 0
  BY <1>2 DEF Returned, Advanced, Polling, InEvent
<1>11. Indices
  <2>1. seen = 0 /\ used.idx = 0 /\ last_used = 0 /\ avail.idx = QUEUE_SIZE
    BY <1>2 DEF Init
  <2>2. QUEUE_SIZE + 0 = QUEUE_SIZE /\ 0 <= QUEUE_SIZE
    BY Constants
  <2> QED BY <1>1, <1>5, <1>10, <2>1, <2>2 DEF Indices
<1>12. Contents
  BY <1>2, <1>10 DEF Contents
<1>13. Numbered
  BY <1>10 DEF Numbered
<1>14. RingExact
  BY <1>1, <1>2, <1>10, Constants DEF RingExact
<1>15. HeldRight /\ ModifiersRight
  <2>1. held = {}
    BY DEF Init
  <2>2. \A m : ~ LastDown(m, Len(handled) + 1)
    BY <1>10 DEF LastDown
  <2> QED BY <1>10, <2>1, <2>2 DEF HeldRight, ModifiersRight
<1> QED BY <1>9, <1>11, <1>12, <1>13, <1>14, <1>15 DEF IInv

LEMMA Inductive == IInv /\ [Next]_vars => IInv'
<1> SUFFICES ASSUME IInv, [Next]_vars PROVE IInv'
  OBVIOUS
<1>0. Types /\ QueueInv /\ RingExact /\ HeldRight /\ ModifiersRight
      /\ cpu \in Cpus /\ ring \in Rings
  BY TypeShape DEF IInv, QueueInv
<1>1. ASSUME NEW ev, HandleEvent, ev = buffers[used.ring[Slot(last_used)]]
      PROVE  ev \in EventType
  BY <1>0, <1>1, NextEvent DEF HandleEvent
<1>2. CASE UNCHANGED vars
  <2>1. Types'
    BY <1>0, <1>2 DEF vars, queue, Types
  <2>2. Indices' /\ Contents' /\ Numbered'
    BY <1>0, <1>2 DEF vars, queue, QueueInv, Indices, Contents, Numbered, Returned, Advanced,
                      Polling, InEvent
  <2>3. RingExact'
    BY <1>0, <1>2 DEF vars, RingExact
  <2>4. HeldRight' /\ ModifiersRight'
    BY <1>0, <1>2, ZenonT(60) DEF vars, HeldRight, ModifiersRight, LastDown
  <2> QED BY <2>1, <2>2, <2>3, <2>4 DEF IInv
<1>3. ASSUME Next
      PROVE  /\ RingExact' /\ ring' \in Rings
             /\ accepted' \in Seq(KeyType) /\ got' \in Seq(KeyType)
             /\ \/ accepted' = accepted
                \/ \E key \in KeyType :
                     /\ accepted' = Append(accepted, key)
                     /\ \/ key.id < 0 /\ Idle
                        \/ /\ HandleEvent
                           /\ key = Key(buffers[used.ring[Slot(last_used)]])
                           /\ key.with # "dropped"
  BY <1>0, <1>1, <1>3, RingStep
<1>4. CASE Next
  <2>1. /\ QueueInv' /\ cpu' \in Cpus
        /\ avail' \in [ring : [Descriptors -> Descriptors], idx : 0 .. INDEX_MODULUS - 1]
        /\ used' \in [ring : [Descriptors -> Descriptors], idx : 0 .. INDEX_MODULUS - 1]
        /\ buffers' \in [Descriptors -> EventType]
        /\ seen' \in 0 .. INDEX_MODULUS - 1 /\ last_used' \in 0 .. INDEX_MODULUS - 1
        /\ held' \subseteq Modifiers /\ ps2' \in [shift : BOOLEAN, extended : BOOLEAN]
        /\ chars' \in 0 .. MaxChars /\ uart' \in Seq(CharType) /\ Len(uart') <= chars'
        /\ sent' \in Seq(EventType) /\ Len(sent') <= MaxEvents
        /\ handled' \in Seq(EventType)
    <3>0. /\ avail \in [ring : [Descriptors -> Descriptors], idx : 0 .. INDEX_MODULUS - 1]
          /\ used \in [ring : [Descriptors -> Descriptors], idx : 0 .. INDEX_MODULUS - 1]
          /\ buffers \in [Descriptors -> EventType]
          /\ seen \in 0 .. INDEX_MODULUS - 1 /\ last_used \in 0 .. INDEX_MODULUS - 1
          /\ held \subseteq Modifiers /\ ps2 \in [shift : BOOLEAN, extended : BOOLEAN]
          /\ chars \in 0 .. MaxChars /\ uart \in Seq(CharType) /\ Len(uart) <= chars
          /\ sent \in Seq(EventType) /\ Len(sent) <= MaxEvents
          /\ handled \in Seq(EventType)
      BY <1>0 DEF Types
    <3>1. CASE PollUart \/ LoopUart \/ LoopMouse \/ HasKey \/ Getc
      <4>1. /\ cpu' \in Cpus /\ uart' \in Seq(CharType) /\ Len(uart') <= chars
            /\ chars' = chars /\ UNCHANGED <<queue, last_used, held, ps2, sent, handled>>
            /\ cpu.pc \notin {"next_event", "give_back", "advance"}
            /\ cpu'.pc \notin {"next_event", "give_back", "advance"}
        BY <1>0, <3>1, LoopStep DEF Idle
      <4>2. Returned' = Returned /\ Advanced' = Advanced /\ ~ InEvent' /\ ~ Polling'
        BY <4>1 DEF Returned, Advanced, InEvent, Polling
      <4>3. QueueInv'
        BY <1>0, <4>1, <4>2, QueueKept
      <4> QED BY <3>0, <4>1, <4>3 DEF queue
    <3>2. CASE KeyboardEvent
      BY <1>0, <3>0, <3>2, KeyboardStep DEF KeyboardEvent
    <3>3. CASE UartChar
      <4> DEFINE c == [id |-> 0 - chars - 1, with |-> "none"]
      <4>1. c \in CharType /\ chars + 1 \in 0 .. MaxChars
        BY <3>0, <3>3, InputAssumption DEF UartChar, CharType
      <4>2. /\ uart' = Append(uart, c) /\ chars' = chars + 1
            /\ UNCHANGED <<queue, last_used, held, ps2, cpu, sent, handled>>
        BY <3>3 DEF UartChar
      <4> HIDE DEF c
      <4>3. uart' \in Seq(CharType) /\ Len(uart') = Len(uart) + 1 /\ Len(uart) \in Nat
        BY <3>0, <4>1, <4>2, AppendProperties
      <4>4. QueueInv'
        BY <1>0, <4>2 DEF QueueInv, queue, Indices, Contents, Numbered, Returned, Advanced,
                         InEvent, Polling
      <4> QED BY <1>0, <3>0, <4>1, <4>2, <4>3, <4>4 DEF queue
    <3>4. CASE HandleEvent
      <4>1. QueueInv' /\ cpu' \in Cpus /\ handled' \in Seq(EventType)
        BY <1>0, <3>4, HandleStep
      <4>2. held' \subseteq Modifiers
        BY <3>0, <3>4 DEF HandleEvent, Held
      <4>3. UNCHANGED <<queue, last_used, ps2, uart, chars, sent>>
        BY <3>4 DEF HandleEvent
      <4> QED BY <3>0, <4>1, <4>2, <4>3 DEF queue
    <3>5. CASE GiveBack
      BY <1>0, <3>0, <3>5, GiveBackStep DEF GiveBack
    <3>6. CASE PollKeyboard \/ Advance \/ PollDone
      <4>1. QueueInv' /\ cpu' \in Cpus /\ last_used' \in 0 .. INDEX_MODULUS - 1
        BY <1>0, <3>6, AdvanceStep
      <4>2. UNCHANGED <<queue, held, ps2, uart, chars, sent, handled>>
        BY <3>6 DEF PollKeyboard, Advance, PollDone
      <4> QED BY <3>0, <4>1, <4>2 DEF queue
    <3>7. CASE PollPs2
      <4>1. /\ chars' = chars + 1 /\ chars < MaxChars
            /\ UNCHANGED <<queue, last_used, held, uart, cpu, sent, handled>>
        BY <3>7 DEF PollPs2
      <4>4. ps2' \in [shift : BOOLEAN, extended : BOOLEAN]
        <5>1. PICK scan \in Scans :
                ps2' = [shift |-> IF scan[1] = "shift" THEN scan[2] = "down" ELSE ps2.shift,
                        extended |-> scan[1] = "0xE0"]
          BY <3>7 DEF PollPs2
        <5>2. ps2.shift \in BOOLEAN
          BY <3>0
        <5> QED BY <5>1, <5>2
      <4>2. chars' \in 0 .. MaxChars /\ Len(uart') <= chars'
        BY <3>0, <4>1, InputAssumption
      <4>3. QueueInv'
        BY <1>0, <4>1 DEF QueueInv, queue, Indices, Contents, Numbered, Returned, Advanced,
                         InEvent, Polling
      <4> QED BY <1>0, <3>0, <4>1, <4>2, <4>3, <4>4 DEF queue
    <3> QED BY <1>4, <3>1, <3>2, <3>3, <3>4, <3>5, <3>6, <3>7 DEF Next, Cpu, InputPoll
  <2>2. Types'
    BY <1>3, <1>4, <2>1 DEF Types, Cpus, Rings, PCs, Rets
  <2>3. HeldRight' /\ ModifiersRight'
    <3>1. CASE KeyboardEvent
      BY <3>1, KeyboardKeys
    <3>2. CASE HandleEvent
      <4> DEFINE ev == buffers[used.ring[Slot(last_used)]]
      <4>1. ev \in EventType
        BY <1>1, <3>2
      <4>2. \/ accepted' = accepted
            \/ Key(ev).with # "dropped" /\ accepted' = Append(accepted, Key(ev))
        BY <3>2 DEF HandleEvent, kapi_sys_key_event
      <4> HIDE DEF ev
      <4>3. ev = buffers[used.ring[Slot(last_used)]]
        BY DEF ev
      <4> QED BY <3>2, <4>2, <4>3, HandleKeys
    <3>3. CASE ~ KeyboardEvent /\ ~ HandleEvent
      <4>1. UNCHANGED <<held, sent, handled>>
        BY <1>4, <3>3 DEF Next, Cpu, InputPoll, PollPs2, PollUart, PollKeyboard, GiveBack, Advance,
                          PollDone, LoopUart, LoopMouse, HasKey, Getc, UartChar
      <4>2. CASE accepted' = accepted
        BY <1>0, <4>1, <4>2, ZenonT(60) DEF HeldRight, ModifiersRight, LastDown
      <4>3. CASE accepted' # accepted
        BY <1>3, <1>4, <3>3, <4>1, <4>3, IdleKeys
      <4> QED BY <4>2, <4>3
    <3> QED BY <3>1, <3>2, <3>3
  <2> QED BY <1>3, <1>4, <2>1, <2>2, <2>3 DEF IInv, QueueInv
<1> QED BY <1>2, <1>4

\* The inductive invariant holds in every state.
THEOREM Invariance == Spec => []IInv
BY Initially, Inductive, PTL DEF Spec

\* As many counts in a row as the queue has slots have every slot.
LEMMA EverySlot ==
  ASSUME NEW a \in Int, NEW z \in Int, z = a + QUEUE_SIZE, NEW d \in Descriptors
  PROVE  \E k \in a .. z - 1 : Slot(k) = d
<1> DEFINE m == QUEUE_SIZE
           x == d - a
           e == x % m
           k == a + e
<1>1. m \in Nat \ {0} /\ d \in 0 .. m - 1 /\ x \in Int /\ x + a = d /\ z = a + m
  BY Constants DEF Descriptors
<1> HIDE DEF x, m
<1>2. e \in 0 .. m - 1 /\ (e + a) % m = (x + a) % m
  BY <1>1, Division, Reduce
<1> HIDE DEF e
<1>3. (e + a) % m = d
  BY <1>1, <1>2
<1>4. k \in a .. z - 1 /\ k = e + a
  BY <1>1, <1>2
<1>5. Slot(k) = d
  BY <1>3, <1>4 DEF Slot, m
<1> QED BY <1>4, <1>5

\* The slot i places after that of a count.
After(n, i) == Slot(Wrap(n) + i)

LEMMA AfterFacts ==
  ASSUME NEW n \in Int, NEW i \in Int, NEW k \in Int, k = n + i
  PROVE  After(n, i) = Slot(k)
BY SlotFacts DEF After

\* The slots from one count to another, and the descriptors in them.
LEMMA SlotsBetween ==
  ASSUME NEW a \in Int, NEW b \in Int, a <= b, b <= a + QUEUE_SIZE
  PROVE  /\ Span(Wrap(a), Wrap(b)) = b - a
         /\ Slots(Wrap(a), Wrap(b)) = {Slot(k) : k \in a .. b - 1}
<1> DEFINE d == b - a
<1>1. d \in 0 .. INDEX_MODULUS - 1 /\ b = a + d
  BY Constants
<1>2. Span(Wrap(a), Wrap(b)) = d
  <2> HIDE DEF d
  <2> QED BY <1>1, WrapFacts
<1>3. ASSUME NEW i \in 0 .. d - 1 PROVE \E k \in a .. b - 1 : After(a, i) = Slot(k)
  <2> DEFINE k == a + i
  <2>1. k \in a .. b - 1 /\ k \in Int /\ k = a + i /\ i \in Int
    OBVIOUS
  <2> HIDE DEF k
  <2>2. After(a, i) = Slot(k)
    BY <2>1, AfterFacts
  <2> QED BY <2>1, <2>2
<1>4. ASSUME NEW k \in a .. b - 1 PROVE \E i \in 0 .. d - 1 : After(a, i) = Slot(k)
  <2> DEFINE i == k - a
  <2>1. i \in 0 .. d - 1 /\ k \in Int /\ k = a + i /\ i \in Int
    OBVIOUS
  <2> HIDE DEF i
  <2>2. After(a, i) = Slot(k)
    BY <2>1, AfterFacts
  <2> QED BY <2>1, <2>2
<1>5. Slots(Wrap(a), Wrap(b)) = {After(a, i) : i \in 0 .. d - 1}
  <2> HIDE DEF d
  <2> QED BY <1>2 DEF Slots, After
<1> HIDE DEF d
<1>6. {After(a, i) : i \in 0 .. d - 1} = {Slot(k) : k \in a .. b - 1}
  BY <1>3, <1>4
<1> QED BY <1>2, <1>5, <1>6 DEF d

LEMMA Owned == IInv => BuffersOwnedOnce
<1> SUFFICES ASSUME IInv PROVE BuffersOwnedOnce
  OBVIOUS
<1> DEFINE g == Returned
           n == Len(sent)
           z == QUEUE_SIZE + g
<1>1. /\ Types /\ Indices /\ Contents
      /\ g \in Nat /\ n \in Nat /\ z \in Nat /\ g <= n /\ n <= z /\ z = g + QUEUE_SIZE
  BY Counts, Constants DEF IInv, Indices
<1>2. seen = Wrap(n) /\ used.idx = Wrap(n) /\ avail.idx = Wrap(z)
  BY <1>1 DEF Indices
<1>3. Unreturned = Wrap(g)
  <2>1. CASE cpu.pc = "advance"
    <3> DEFINE a == Advanced
    <3>1. a \in Int /\ g = a + 1 /\ last_used = Wrap(a)
      BY <1>1, <2>1, Counts DEF Advanced, Returned, Indices
    <3> HIDE DEF a, g
    <3>2. Inc(last_used) = Wrap(g)
      BY <1>1, <3>1, WrapFacts
    <3> QED BY <2>1, <3>2 DEF Unreturned
  <2>2. CASE cpu.pc # "advance"
    BY <1>1, <2>2 DEF Unreturned, Advanced, Returned, Indices
  <2> QED BY <2>1, <2>2
<1> DEFINE devices == {avail.ring[i] : i \in Slots(seen, avail.idx)}
           drivers == {used.ring[i] : i \in Slots(Unreturned, used.idx)}
<1>4. /\ Slots(seen, avail.idx) = {Slot(k) : k \in n .. z - 1}
      /\ Span(seen, avail.idx) = z - n
      /\ Slots(Unreturned, used.idx) = {Slot(k) : k \in g .. n - 1}
      /\ Span(Unreturned, used.idx) = n - g
  <2>1. n \in Int /\ z \in Int /\ g \in Int /\ n <= n + QUEUE_SIZE
        /\ z <= n + QUEUE_SIZE /\ n <= g + QUEUE_SIZE
    BY <1>1, Constants
  <2> HIDE DEF g, n, z
  <2> QED BY <1>1, <1>2, <1>3, <2>1, SlotsBetween
<1>5. \A k \in Int : Slot(k) \in Descriptors
  BY SlotFacts
<1>6. devices = {Slot(k) : k \in n .. z - 1}
  <2>1. \A k \in n .. z - 1 : avail.ring[Slot(k)] = Slot(k)
    BY <1>1, <1>5 DEF Contents
  <2> HIDE DEF n, z
  <2> QED BY <1>4, <2>1
<1>7. drivers = {Slot(k) : k \in g .. n - 1}
  <2>1. \A k \in g .. n - 1 : used.ring[Slot(k)] = Slot(k)
    BY <1>1 DEF Contents
  <2> HIDE DEF n, g
  <2> QED BY <1>4, <2>1
<1> HIDE DEF devices, drivers
<1>8. devices \cup drivers = Descriptors
  <2>0. g \in Int /\ z = g + QUEUE_SIZE
    BY <1>1
  <2>1. \A d \in Descriptors : \E k \in g .. z - 1 : Slot(k) = d
    <3>1. z \in Int
      BY <1>1
    <3> HIDE DEF g, z
    <3> QED BY <2>0, <3>1, EverySlot
  <2>2. \A k \in g .. z - 1 : k \in g .. n - 1 \/ k \in n .. z - 1
    BY <1>1
  <2>3. \A k : k \in g .. n - 1 \/ k \in n .. z - 1 => k \in Int
    BY <1>1
  <2> HIDE DEF g, n, z
  <2> QED BY <1>5, <1>6, <1>7, <2>1, <2>2, <2>3
<1>9. devices \cap drivers = {}
  <2>1. ASSUME NEW k \in g .. n - 1, NEW l \in n .. z - 1 PROVE Slot(k) # Slot(l)
    <3>1. k \in Int /\ l \in Int /\ k < l /\ l < k + QUEUE_SIZE
      BY <1>1, Constants
    <3> QED BY <3>1, SlotFacts
  <2> HIDE DEF g, n, z
  <2> QED BY <1>6, <1>7, <2>1
<1>10. Span(seen, avail.idx) + Span(Unreturned, used.idx) = QUEUE_SIZE
  BY <1>1, <1>4, Constants
<1> QED BY <1>8, <1>9, <1>10 DEF BuffersOwnedOnce, devices, drivers

\* For every size of the queue and every modulus of its indices: no buffer is
\* the device's and the driver's at once and none is lost, also when the
\* indices wrap, so that no event is overwritten before it was handled.
THEOREM InputQueueConsistent == Spec => []QueueConsistent
<1>1. IInv => QueueConsistent
  BY Owned, TypesOK DEF IInv, QueueConsistent
<1> QED BY Invariance, <1>1, PTL

\* Every event is handled once and in the order of the keyboard.
THEOREM InputHandledInOrder == Spec => []HandledInOrder
<1>1. IInv => HandledInOrder
  <2> SUFFICES ASSUME IInv PROVE HandledInOrder
    OBVIOUS
  <2> DEFINE h == Len(handled)
             s == SubSeq(sent, 1, h)
  <2>1. /\ sent \in Seq(EventType) /\ handled \in Seq(EventType)
        /\ h \in Nat /\ h <= Len(sent) /\ Len(sent) \in Nat
        /\ \A i \in 1 .. h : handled[i] = sent[i]
    BY Counts DEF IInv, Indices, Numbered
  <2>2. s \in Seq(EventType) /\ Len(s) = h /\ \A i \in 1 .. h : s[i] = sent[i]
    <3> HIDE DEF h
    <3> QED BY <2>1
  <2> HIDE DEF s
  <2>3. handled = s
    <3>1. Len(handled) = Len(s) /\ \A i \in 1 .. Len(handled) : handled[i] = s[i]
      BY <2>1, <2>2
    <3> QED BY <2>1, <2>2, <3>1, SeqEqual
  <2> QED BY <2>1, <2>3 DEF HandledInOrder, s
<1> QED BY Invariance, <1>1, PTL

\* The key ring loses, repeats and reorders nothing that it took, whatever its
\* size and wherever it wraps.
THEOREM InputKeysKept == Spec => []KeysKept
<1>1. IInv => KeysKept
  <2> SUFFICES ASSUME IInv PROVE KeysKept
    OBVIOUS
  <2> DEFINE n == Len(accepted)
             g == Len(got)
             d == n - g
             w == Waiting
             c == got \o w
  <2>1. /\ accepted \in Seq(KeyType) /\ got \in Seq(KeyType) /\ n \in Nat /\ g \in Nat
        /\ g <= n /\ d \in 0 .. KAPI_INPUT_BUF_SIZE - 1 /\ n = g + d
        /\ ring.r = At(g) /\ ring.w = At(n)
        /\ \A i \in 1 .. g : got[i] = accepted[i]
        /\ \A k \in g .. n - 1 : ring.buf[At(k)] = accepted[k + 1]
    <3>1. accepted \in Seq(KeyType) /\ got \in Seq(KeyType)
      BY DEF IInv, Types
    <3> QED BY <3>1, Constants DEF IInv, RingExact
  <2>2. (ring.w - ring.r) % KAPI_INPUT_BUF_SIZE = d
    <3> HIDE DEF n, g, d
    <3> QED BY <2>1, AtFacts
  <2>3. ASSUME NEW i \in 1 .. d
        PROVE  ring.buf[(ring.r + i - 1) % KAPI_INPUT_BUF_SIZE] = accepted[g + i]
    <3> DEFINE j == i - 1
               k == g + j
    <3>1. /\ j \in Int /\ k \in Int /\ k = g + j /\ k \in g .. n - 1 /\ k + 1 = g + i
          /\ g \in Int
      BY <2>1
    <3>2. (At(g) + j) % KAPI_INPUT_BUF_SIZE = At(k)
      <4> HIDE DEF g, j, k
      <4> QED BY <3>1, AtFacts
    <3>3. At(g) \in Int
      <4> HIDE DEF g
      <4> QED BY <3>1, AtFacts, Constants
    <3>4. ring.r + i - 1 = At(g) + j
      BY <2>1, <3>3
    <3> HIDE DEF g, j, k, n
    <3> QED BY <2>1, <3>1, <3>2, <3>4
  <2>4. w = [i \in 1 .. d |-> accepted[g + i]]
    <3> HIDE DEF d, g
    <3> QED BY <2>2, <2>3 DEF Waiting
  <2>5. \A i \in 1 .. d : accepted[g + i] \in KeyType
    BY <2>1
  <2>6. w \in Seq(KeyType) /\ Len(w) = d /\ \A i \in 1 .. d : w[i] = accepted[g + i]
    <3>1. d \in Nat
      BY <2>1
    <3> HIDE DEF d, g, w
    <3> QED BY <2>4, <2>5, <3>1
  <2>7. /\ c \in Seq(KeyType) /\ Len(c) = n
        /\ \A i \in 1 .. n : c[i] = IF i <= g THEN got[i] ELSE w[i - g]
    <3>1. got \in Seq(KeyType) /\ Len(got) = g /\ n = g + d
      BY <2>1
    <3> HIDE DEF d, g, n, w
    <3>2. /\ c \in Seq(KeyType) /\ Len(c) = Len(got) + Len(w)
          /\ \A i \in 1 .. Len(got) + Len(w) :
               c[i] = IF i <= Len(got) THEN got[i] ELSE w[i - Len(got)]
      BY ONLY <3>1, <2>6, ConcatProperties
    <3> QED BY ONLY <3>1, <2>6, <3>2
  <2>8. ASSUME NEW i \in 1 .. n PROVE accepted[i] = c[i]
    <3>1. CASE i <= g
      <4>1. i \in 1 .. g
        BY <2>1, <3>1
      <4> HIDE DEF c, g
      <4> QED BY <2>1, <2>7, <3>1, <4>1
    <3>2. CASE ~ (i <= g)
      <4>1. i - g \in 1 .. d /\ g + (i - g) = i
        BY <2>1, <3>2
      <4> HIDE DEF c, g, d, w
      <4> QED BY <2>6, <2>7, <3>2, <4>1
    <3> QED BY <3>1, <3>2
  <2> HIDE DEF c
  <2>9. accepted = c
    BY <2>1, <2>7, <2>8, SeqEqual
  <2> QED BY <2>9 DEF c, w, KeysKept
<1> QED BY Invariance, <1>1, PTL

\* Every key of the virtio keyboard in the ring carries the modifiers that the
\* last events of the modifiers' keys had set when it was pressed, and not
\* those of the time it was handled.
THEOREM InputModifiersRight == Spec => []ModifiersRight
<1>1. IInv => ModifiersRight
  BY DEF IInv
<1> QED BY Invariance, <1>1, PTL
=============================================================================
