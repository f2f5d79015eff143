---------------------------- MODULE ReshaperProofs ----------------------------
(***************************************************************************)
(* Theorems about the reshaper's ring: its counters and pointers always agree *)
(* with what has been written and taken, so that the reader copies what was   *)
(* written, and no worker sleeps through the notification it needs, for every *)
(* size of the ring.                                                          *)
(***************************************************************************)
EXTENDS Reshaper, SequenceTheorems, TLAPS

(* Samples written, samples charged to writable and writec, samples announced *)
(* in readable, and samples credited to writable and readc: each worker has   *)
(* them change in two steps, under one mutex and then the other.              *)
Written   == Len(written)
Charged   == Written - IF w.pc \in {"announce", "charge"} THEN w.room ELSE 0
Announced == Written - IF w.pc = "announce" THEN w.room ELSE 0
Credited  == taken - IF r.pc = "credit" THEN r.given ELSE 0

-----------------------------------------------------------------------------
(* The inductive invariant                                                  *)

Types ==
  /\ ring \in [cells : [Cells -> 0..MaxSamples], readc : Cells, writec : Cells,
               readable : Int, writable : Int, maxLatency : Nat,
               stopReader : BOOLEAN, stopWriter : BOOLEAN]
  /\ w \in [pc : WPcs, first : Nat, last : Nat, seen : Nat, room : 0..Size]
  /\ r \in [pc : RPcs, keep : Nat, skip : Nat, given : 0..Size]
  /\ shape \in Shapes
  /\ control \in {"off", "on", "notifyReader", "stopWriter", "notifyWriter", "join"}
  /\ stops \in 0..MaxStops
  /\ written \in Seq(Nat) /\ taken \in Nat /\ copied \in Seq(Nat)

(* The counters and the pointers of the ring.                               *)
Counts ==
  /\ ring.readable = Announced - taken
  /\ ring.writable = Size - (Charged - Credited)
  /\ ring.readc = Credited % Size
  /\ ring.writec = Charged % Size

(* What each worker holds back until it has told the other.                 *)
Bounds ==
  /\ 0 <= Credited /\ taken <= Announced
  /\ Written - Credited <= Size
  /\ w.pc \in {"copy", "announce", "charge"} => w.room <= ring.writable
  /\ w.pc \in {"copy", "announce"} => ring.readable + w.room <= ring.maxLatency
  /\ w.pc = "weigh" => w.seen <= ring.writable
  /\ r.pc \in {"copy", "forget"} => r.given <= ring.readable

Writing == {"ask", "weigh", "test", "dozing", "asleep", "copy", "announce", "charge", "notify"}
Given   == {"copy", "forget", "credit", "notify"}

(* The frame that is being written and the one that is being read.          *)
Frames ==
  /\ w.last <= MaxSamples
  /\ w.pc \in Writing => w.first \in 1..w.last
  /\ w.pc \in {"copy", "announce", "charge", "notify"} => w.room <= w.last - w.first + 1
  /\ r.pc \in Given => r.given <= Wanted
  /\ control = "off" => (w.pc = "off" /\ r.pc = "off")

(* What has been written and not credited yet is still in its cells.        *)
Contents ==
  \A k \in (Credited + 1)..Written : ring.cells[(k - 1) % Size] = written[k]

(* What the reader has in hand.                                             *)
InHand ==
  /\ r.pc # "forget" => copied = <<>>
  /\ Len(copied) <= r.given
  /\ \A i \in 1..Len(copied) : copied[i] = written[taken + i]

IInv == Types /\ Counts /\ Bounds /\ Frames /\ Contents /\ InHand

(* A worker that sleeps although there is work for it has its notifier on the *)
(* way.  What the reader waits for is announced in one hold of its mutex, and *)
(* the notification comes two steps later; what the writer waits for changes  *)
(* in two holds of different mutexes, and only the second is the writer's      *)
(* (RingBuffer::write, readAndSkip).                                          *)
NoLostWakeup ==
  /\ AtR("asleep") /\ ring.readable > 0 => w.pc \in {"charge", "notify"}
  /\ AtW("asleep") /\ Room(ring.writable, ring.readable) > 0 =>
       r.pc \in {"credit", "notify"}

(* The two workers do not wait for each other: what stop finds asleep is at   *)
(* most one of them.                                                         *)
NeverBothAsleep == ~(AtR("asleep") /\ AtW("asleep"))

(* The same while a worker that has found nothing holds its mutex; and what    *)
(* the latency is.                                                           *)
SleepInv ==
  /\ NoLostWakeup
  /\ AtR("dozing") => ring.readable = 0
  /\ AtW("dozing") /\ Room(ring.writable, ring.readable) > 0 => r.pc = "credit"
  /\ ring.maxLatency = 2 * shape[1]

-----------------------------------------------------------------------------
(* Arithmetic                                                               *)

(* A number is its quotient times the divisor and its remainder.            *)
LEMMA DivMod ==
  ASSUME NEW n \in Nat \ {0}, NEW x \in Int
  PROVE  /\ x % n \in 0..(n - 1) /\ x \div n \in Int
         /\ x = (n * (x \div n)) + (x % n)
OBVIOUS

(* The only multiple of n between -n and n is zero.                         *)
LEMMA Multiple ==
  ASSUME NEW n \in Nat \ {0}, NEW q \in Int, -n < n * q, n * q < n
  PROVE  q = 0
OBVIOUS

(* Multiplication distributes over the difference.                          *)
LEMMA Distributes ==
  ASSUME NEW n \in Int, NEW p \in Int, NEW q \in Int
  PROVE  n * (p - q) = (n * p) - (n * q)
OBVIOUS

(* A multiple of n and a number below n have that number as remainder.      *)
LEMMA ModUnique ==
  ASSUME NEW n \in Nat \ {0}, NEW q \in Int, NEW x \in 0..(n - 1)
  PROVE  ((n * q) + x) % n = x
<1> DEFINE y == (n * q) + x
<1>1. y \in Int
  OBVIOUS
<1>2. PICK d \in Int, m \in 0..(n - 1) : y = (n * d) + m /\ m = y % n
  BY <1>1, DivMod
<1>3. n * (d - q) = (n * d) - (n * q)
  BY <1>2, Distributes
<1>4. n * (d - q) = x - m
  BY <1>2, <1>3
<1>5. -n < n * (d - q) /\ n * (d - q) < n /\ d - q \in Int
  BY <1>4
<1>6. d - q = 0
  BY <1>5, Multiple
<1>7. d = q
  BY <1>6
<1> QED
  BY <1>2, <1>7

(* A pointer moved on is the remainder of the count moved on.               *)
LEMMA ModAdd ==
  ASSUME NEW n \in Nat \ {0}, NEW a \in Int, NEW b \in Int
  PROVE  ((a % n) + b) % n = (a + b) % n
<1>1. PICK p \in Int, x \in 0..(n - 1) : a = (n * p) + x /\ x = a % n
  BY DivMod
<1>2. PICK q \in Int, y \in 0..(n - 1) : x + b = (n * q) + y /\ y = (x + b) % n
  BY DivMod, x + b \in Int
<1>3. n * (q + p) = (n * q) + (n * p)
  OBVIOUS
<1>4. a + b = (n * (q + p)) + y
  BY <1>1, <1>2, <1>3
<1>5. (a + b) % n = y
  BY <1>4, q + p \in Int, ModUnique
<1> QED
  BY <1>1, <1>2, <1>5

(* The cell of a sample less than a round ahead of a pointer, or behind it.  *)
LEMMA Ahead ==
  ASSUME NEW n \in Nat \ {0}, NEW a \in Int, NEW b \in Int
  PROVE  /\ a - b \in 0..(n - 1) => ((a % n) - (b % n)) % n = a - b
         /\ a - b \in (-n)..(-1) => ((a % n) - (b % n)) % n = (a - b) + n
<1>1. PICK p \in Int, x \in 0..(n - 1) : a = (n * p) + x /\ x = a % n
  BY DivMod
<1>2. PICK q \in Int, y \in 0..(n - 1) : b = (n * q) + y /\ y = b % n
  BY DivMod
<1>3. n * (q - p) = (n * q) - (n * p)
  BY Distributes
<1>4. x - y = (n * (q - p)) + (a - b)
  BY <1>1, <1>2, <1>3
<1>5. ASSUME a - b \in 0..(n - 1) PROVE (x - y) % n = a - b
  BY <1>4, <1>5, q - p \in Int, ModUnique
<1>6. ASSUME a - b \in (-n)..(-1) PROVE (x - y) % n = (a - b) + n
  <2>1. n * ((q - p) - 1) = (n * (q - p)) - (n * 1)
    BY q - p \in Int, Distributes
  <2>2. x - y = (n * ((q - p) - 1)) + ((a - b) + n)
    BY <1>4, <2>1
  <2>3. (q - p) - 1 \in Int /\ (a - b) + n \in 0..(n - 1)
    BY <1>6
  <2> QED
    BY <2>2, <2>3, ModUnique
<1> QED
  BY <1>1, <1>2, <1>5, <1>6

(* The lesser and the greater of two numbers.                               *)
LEMMA MinMax ==
  ASSUME NEW a \in Int, NEW b \in Int
  PROVE  /\ Min({a, b}) = IF a <= b THEN a ELSE b
         /\ Max({a, b}) = IF a <= b THEN b ELSE a
<1>1. \A x \in {a, b} : x = a \/ x = b
  OBVIOUS
<1>2. Min({a, b}) \in {a, b} /\ \A y \in {a, b} : Min({a, b}) <= y
  <2>1. \E x \in {a, b} : \A y \in {a, b} : x <= y
    OBVIOUS
  <2> QED
    BY <2>1 DEF Min
<1>3. Max({a, b}) \in {a, b} /\ \A y \in {a, b} : Max({a, b}) >= y
  <2>1. \E x \in {a, b} : \A y \in {a, b} : x >= y
    OBVIOUS
  <2> QED
    BY <2>1 DEF Max
<1> QED
  BY <1>2, <1>3

-----------------------------------------------------------------------------
(* Facts about states                                                       *)

(* The counts are numbers.                                                  *)
LEMMA CountTypes ==
  ASSUME Types
  PROVE  Written \in Nat /\ Charged \in Int /\ Announced \in Int /\ Credited \in Int
BY DEF Types, Written, Charged, Announced, Credited

(* The fields are numbers.                                                  *)
LEMMA Fields ==
  ASSUME Types
  PROVE  /\ Size \in Nat \ {0} /\ MaxSamples \in Nat /\ MaxFrame \in Nat \ {0}
         /\ MaxStops \in Nat /\ stops \in 0..MaxStops
         /\ w.first \in Nat /\ w.last \in Nat /\ w.seen \in Nat /\ w.room \in 0..Size
         /\ r.keep \in Nat /\ r.skip \in Nat /\ r.given \in 0..Size /\ taken \in Nat
         /\ ring.readable \in Int /\ ring.writable \in Int /\ ring.maxLatency \in Nat
<1>1. Size \in Nat \ {0} /\ MaxSamples \in Nat /\ MaxFrame \in Nat \ {0} /\ MaxStops \in Nat
  BY ReshaperAssumption
<1>2. w.first \in Nat /\ w.last \in Nat /\ w.seen \in Nat /\ w.room \in 0..Size
  BY DEF Types
<1>3. r.keep \in Nat /\ r.skip \in Nat /\ r.given \in 0..Size /\ taken \in Nat
         /\ stops \in 0..MaxStops
  BY DEF Types
<1>4. ring.readable \in Int /\ ring.writable \in Int /\ ring.maxLatency \in Nat
  BY DEF Types
<1> QED
  BY <1>1, <1>2, <1>3, <1>4

(* getWritable is not negative, and what it gives is free and not late.     *)
LEMMA RoomFits ==
  ASSUME Types, NEW x \in Int, NEW y \in Int
  PROVE  /\ Room(x, y) \in Nat
         /\ Room(x, y) # 0 => (Room(x, y) <= x /\ Room(x, y) + y <= ring.maxLatency)
<1>1. ring.maxLatency - y \in Int
  BY DEF Types
<1>2. Min({x, ring.maxLatency - y})
        = IF x <= ring.maxLatency - y THEN x ELSE ring.maxLatency - y
  BY <1>1, MinMax
<1>3. Min({x, ring.maxLatency - y}) \in Int
  BY <1>1, <1>2
<1>4. Room(x, y) = IF Min({x, ring.maxLatency - y}) <= 0 THEN 0
                   ELSE Min({x, ring.maxLatency - y})
  BY <1>3, MinMax, 0 \in Int DEF Room
<1> DEFINE m == ring.maxLatency - y
<1>5. m \in Int /\ ring.maxLatency = m + y
  <2>1. ring.maxLatency \in Int
    BY DEF Types
  <2> QED
    BY <2>1
<1>6. Room(x, y) = IF (IF x <= m THEN x ELSE m) <= 0 THEN 0 ELSE (IF x <= m THEN x ELSE m)
  BY <1>2, <1>4
<1> HIDE DEF m
<1>7. Room(x, y) \in Nat /\ (Room(x, y) # 0 => Room(x, y) <= x /\ Room(x, y) <= m)
  BY <1>5, <1>6
<1> QED
  BY <1>5, <1>7

(* What the grants give: something, and no more than there is.              *)
LEMMA GrantFits ==
  ASSUME Types, NEW n \in Nat, w.first \in 1..w.last, n <= Size
  PROVE  \E m \in 0..Size : /\ Grant(n) = [w EXCEPT !.room = m, !.pc = "copy"]
                            /\ m <= n /\ m <= w.last - w.first + 1
<1>1. w.last - w.first + 1 \in Int
  BY DEF Types
<1>2. Min({n, w.last - w.first + 1})
        = IF n <= w.last - w.first + 1 THEN n ELSE w.last - w.first + 1
  BY <1>1, MinMax
<1> DEFINE m == Min({n, w.last - w.first + 1})
<1>3. Grant(n) = [w EXCEPT !.room = m, !.pc = "copy"]
  BY DEF Grant
<1>4. m \in 0..Size /\ m <= n /\ m <= w.last - w.first + 1
  <2>1. m = IF n <= w.last - w.first + 1 THEN n ELSE w.last - w.first + 1
    BY <1>2
  <2> HIDE DEF m
  <2> QED
    BY <2>1, Fields
<1> QED
  BY <1>3, <1>4

(* The same for the reader.                                                 *)
LEMMA GiveFits ==
  ASSUME Types, NEW n \in Nat, n <= Size
  PROVE  \E m \in 0..Size : /\ Give(n) = [r EXCEPT !.given = m, !.pc = "copy"]
                            /\ m <= n /\ m <= Wanted
<1>1. Wanted \in Nat
  BY DEF Types, Wanted
<1>2. Min({n, Wanted}) = IF n <= Wanted THEN n ELSE Wanted
  BY <1>1, MinMax
<1> DEFINE m == Min({n, Wanted})
<1>3. Give(n) = [r EXCEPT !.given = m, !.pc = "copy"]
  BY DEF Give
<1>4. m \in 0..Size /\ m <= n /\ m <= Wanted
  BY <1>1, <1>2, ReshaperAssumption
<1> QED
  BY <1>3, <1>4

(* A step that writes and takes nothing leaves the counts as they were.     *)
LEMMA CountsKept ==
  ASSUME IInv, UNCHANGED <<written, taken>>,
         Charged' = Charged, Announced' = Announced, Credited' = Credited,
         ring'.cells = ring.cells, ring'.readc = ring.readc, ring'.writec = ring.writec,
         ring'.readable = ring.readable, ring'.writable = ring.writable
  PROVE  /\ Counts' /\ Contents'
         /\ (0 <= Credited /\ taken <= Announced /\ Written - Credited <= Size)'
<1>1. Written' = Written
  BY DEF Written
<1>2. Counts'
  BY DEF IInv, Counts
<1>3. Contents'
  BY <1>1 DEF IInv, Contents
<1> QED
  BY <1>1, <1>2, <1>3 DEF IInv, Bounds

-----------------------------------------------------------------------------
(* The writing worker                                                       *)

(* A frame comes in.                                                        *)
LEMMA FetchOk ==
  ASSUME IInv, Fetch
  PROVE  IInv'
<1>a. PICK n \in 1..MaxFrame :
        /\ w.last + n <= MaxSamples
        /\ w' = [w EXCEPT !.first = w.last + 1, !.last = w.last + n, !.pc = "ask"]
  BY DEF Fetch
<1>b. w.last + 1 \in Nat /\ w.last + n \in Nat /\ n >= 1
  BY Fields DEF IInv
<1>1. Types'
  BY <1>a, <1>b DEF IInv, Types, Fetch, ReaderSide, WPcs
<1>2. Charged' = Charged /\ Announced' = Announced /\ Credited' = Credited
  BY DEF IInv, Fetch, ReaderSide, AtW, Written, Charged, Announced, Credited
<1>3. Counts' /\ Contents' /\ (0 <= Credited /\ taken <= Announced /\ Written - Credited <= Size)'
  BY <1>a, <1>b, <1>2, CountsKept DEF Fetch, ReaderSide, AtW, AtR, IInv, Types
<1>4. Bounds'
  BY <1>3 DEF IInv, Bounds, Fetch, ReaderSide
<1>5. Frames'
  <2>1. w'.first = w.last + 1 /\ w'.last = w.last + n /\ w'.pc = "ask"
    BY <1>a DEF IInv, Types
  <2>2. UNCHANGED r /\ control' = "on"
    BY DEF Fetch, ReaderSide
  <2> QED
    BY <1>a, <1>b, <2>1, <2>2, Fields DEF IInv, Frames, Writing, Wanted
<1>6. InHand'
  BY <1>a, <1>b, <1>1 DEF IInv, Types, Frames, InHand, Fetch, ReaderSide, AtW, AtR
<1> QED
  BY <1>1, <1>3, <1>4, <1>5, <1>6 DEF IInv

(* The stop of the input ends the writer.                                   *)
LEMMA FetchStopsOk ==
  ASSUME IInv, FetchStops
  PROVE  IInv'
<1>1. Types'
  BY DEF IInv, Types, FetchStops, ReaderSide, WPcs
<1>2. Charged' = Charged /\ Announced' = Announced /\ Credited' = Credited
  BY DEF IInv, FetchStops, ReaderSide, AtW, Written, Charged, Announced, Credited
<1>3. Counts' /\ Contents' /\ (0 <= Credited /\ taken <= Announced /\ Written - Credited <= Size)'
  BY <1>2, CountsKept DEF FetchStops, ReaderSide, AtW, AtR, IInv, Types
<1>4. Bounds'
  BY <1>3 DEF IInv, Bounds, FetchStops, ReaderSide
<1>5. Frames'
  BY DEF IInv, Frames, Writing, Wanted, FetchStops, ReaderSide
<1>6. InHand'
  BY <1>1 DEF IInv, Types, Frames, InHand, FetchStops, ReaderSide, AtW, AtR
<1> QED
  BY <1>1, <1>3, <1>4, <1>5, <1>6 DEF IInv

(* The writer reads the writable count.                                     *)
LEMMA AskWritableOk ==
  ASSUME IInv, AskWritable
  PROVE  IInv'
<1>a. w.last + 1 \in Nat /\ (w.pc \notin {"announce", "charge"} => ring.writable \in Nat)
  BY Fields, CountTypes DEF IInv, Counts, Bounds, Charged
<1>1. Types'
  BY <1>a DEF IInv, Types, AskWritable, ReaderSide, GiveUp, AtW, WPcs
<1>2. Charged' = Charged /\ Announced' = Announced /\ Credited' = Credited
  BY DEF IInv, AskWritable, ReaderSide, GiveUp, AtW, Written, Charged, Announced, Credited
<1>3. Counts' /\ Contents' /\ (0 <= Credited /\ taken <= Announced /\ Written - Credited <= Size)'
  BY <1>2, CountsKept DEF AskWritable, ReaderSide, IInv
<1>4. Bounds'
  BY <1>3 DEF IInv, Types, Bounds, AskWritable, ReaderSide, GiveUp
<1>5. Frames'
  BY DEF IInv, Frames, Writing, Wanted, AskWritable, ReaderSide, GiveUp, AtW
<1>6. InHand'
  BY DEF IInv, InHand, AskWritable, ReaderSide
<1> QED
  BY <1>1, <1>3, <1>4, <1>5, <1>6 DEF IInv

(* A grant of n samples, of which there are that many and not too late.     *)
LEMMA GrantOk ==
  ASSUME IInv, NEW n \in Nat, n <= ring.writable, ring.readable + n <= ring.maxLatency,
         w.pc \in {"weigh", "test"}, w' = Grant(n), control # "off",
         UNCHANGED <<ring, r, shape, control, stops, written, taken, copied>>
  PROVE  IInv'
<1>1. Charged = Written /\ Announced = Written
  BY CountTypes DEF IInv, Charged, Announced
<1>2. Credited <= Written
  BY <1>1, Fields, CountTypes DEF IInv, Bounds, Credited
<1>3. n <= Size
  BY <1>1, <1>2, Fields, CountTypes DEF IInv, Counts
<1>4. w.first \in 1..w.last
  BY DEF IInv, Frames, Writing
<1>5. PICK m \in 0..Size : /\ w' = [w EXCEPT !.room = m, !.pc = "copy"]
                           /\ m <= n /\ m <= w.last - w.first + 1
  BY <1>3, <1>4, GrantFits DEF IInv
<1>6. /\ w'.room = m /\ w'.pc = "copy" /\ w'.first = w.first /\ w'.last = w.last
  BY <1>5 DEF IInv, Types
<1>7. Types'
  BY <1>5 DEF IInv, Types, WPcs
<1>8. Charged' = Charged /\ Announced' = Announced /\ Credited' = Credited
  BY <1>1, <1>6, CountTypes DEF IInv, Charged, Announced, Credited, Written
<1>9. Counts' /\ Contents' /\ (0 <= Credited /\ taken <= Announced /\ Written - Credited <= Size)'
  BY <1>8, CountsKept
<1>10. Bounds'
  BY <1>5, <1>6, <1>9, Fields DEF IInv, Bounds
<1>11. Frames'
  BY <1>4, <1>5, <1>6, Fields DEF IInv, Frames, Wanted
<1>12. InHand'
  BY DEF IInv, InHand
<1> QED
  BY <1>7, <1>9, <1>10, <1>11, <1>12 DEF IInv

(* A step of the writer to another place of the wait.                       *)
LEMMA WaitOk ==
  ASSUME IInv, NEW pc \in {"test", "dozing"}, w.pc \in {"weigh", "test"},
         w' = [w EXCEPT !.pc = pc],
         UNCHANGED <<ring, r, shape, control, stops, written, taken, copied>>
  PROVE  IInv'
<1>1. Types'
  BY DEF IInv, Types, WPcs
<1>2. Charged' = Charged /\ Announced' = Announced /\ Credited' = Credited
  BY DEF IInv, Types, Charged, Announced, Credited, Written
<1>3. Counts' /\ Contents' /\ (0 <= Credited /\ taken <= Announced /\ Written - Credited <= Size)'
  BY <1>2, CountsKept
<1>4. Bounds'
  BY <1>3 DEF IInv, Types, Bounds
<1>5. Frames'
  BY DEF IInv, Types, Frames, Writing, Wanted
<1>6. InHand'
  BY DEF IInv, InHand
<1> QED
  BY <1>1, <1>3, <1>4, <1>5, <1>6 DEF IInv

(* The writer weighs the writable count it has read against the latency.    *)
LEMMA WeighReadableOk ==
  ASSUME IInv, WeighReadable
  PROVE  IInv'
<1> DEFINE n == Room(w.seen, ring.readable)
<1>1. /\ w.pc = "weigh" /\ w' = IF n # 0 THEN Grant(n) ELSE [w EXCEPT !.pc = "test"]
      /\ UNCHANGED <<ring, r, shape, control, stops, written, taken, copied>>
  BY DEF WeighReadable, AtW, ReaderSide
<1>2. n \in Nat /\ (n # 0 => n <= w.seen /\ n + ring.readable <= ring.maxLatency)
  <2>1. w.seen \in Int /\ ring.readable \in Int
    BY Fields DEF IInv
  <2> QED
    BY <2>1, RoomFits DEF IInv
<1> HIDE DEF n
<1>3. CASE n # 0
  <2>1. n <= ring.writable /\ ring.readable + n <= ring.maxLatency
    BY <1>1, <1>2, <1>3, Fields DEF IInv, Bounds
  <2>2. control # "off"
    BY <1>1 DEF IInv, Frames
  <2> QED
    BY <1>1, <1>2, <1>3, <2>1, <2>2, GrantOk
<1> QED
  BY <1>1, <1>3, WaitOk

(* The writer tests for room before it goes to sleep.                       *)
LEMMA TestWritableOk ==
  ASSUME IInv, TestWritable
  PROVE  IInv'
<1> DEFINE n == Room(ring.writable, ring.readable)
<1>1. /\ w.pc = "test"
      /\ w' = IF ring.stopWriter THEN GiveUp
              ELSE IF n > 0 THEN Grant(n) ELSE [w EXCEPT !.pc = "dozing"]
      /\ UNCHANGED <<ring, r, shape, control, stops, written, taken, copied>>
  BY DEF TestWritable, AtW, ReaderSide
<1>2. n \in Nat /\ (n # 0 => n <= ring.writable /\ n + ring.readable <= ring.maxLatency)
  BY Fields, RoomFits DEF IInv
<1> HIDE DEF n
<1>3. control # "off"
  BY <1>1 DEF IInv, Frames
<1>4. CASE ring.stopWriter
  <2>1. w' = [w EXCEPT !.first = w.last + 1, !.pc = "fetch"] /\ w.last + 1 \in Nat
    BY <1>1, <1>4, Fields DEF GiveUp, IInv
  <2>2. w'.pc = "fetch" /\ w'.last = w.last
    BY <2>1 DEF IInv, Types
  <2>3. Types'
    BY <1>1, <2>1 DEF IInv, Types, WPcs
  <2>4. Charged' = Charged /\ Announced' = Announced /\ Credited' = Credited
    BY <1>1, <2>2 DEF Charged, Announced, Credited, Written
  <2>5. /\ Counts' /\ Contents'
        /\ (0 <= Credited /\ taken <= Announced /\ Written - Credited <= Size)'
    BY <1>1, <2>4, CountsKept
  <2>6. Bounds' /\ Frames' /\ InHand'
    BY <1>1, <1>3, <2>2, <2>5 DEF IInv, Bounds, Frames, InHand, Writing, Wanted
  <2> QED
    BY <2>3, <2>5, <2>6 DEF IInv
<1>5. CASE ~ring.stopWriter /\ n > 0
  BY <1>1, <1>2, <1>3, <1>5, Fields, GrantOk DEF IInv
<1>6. CASE ~ring.stopWriter /\ ~(n > 0)
  BY <1>1, <1>6, WaitOk
<1> QED
  BY <1>4, <1>5, <1>6

(* The writer goes to sleep.                                                *)
LEMMA WriterSleepsOk ==
  ASSUME IInv, WriterSleeps
  PROVE  IInv'
<1>1. Types'
  BY DEF IInv, Types, WriterSleeps, ReaderSide, WPcs
<1>2. Charged' = Charged /\ Announced' = Announced /\ Credited' = Credited
  BY DEF IInv, WriterSleeps, ReaderSide, AtW, Written, Charged, Announced, Credited
<1>3. Counts' /\ Contents' /\ (0 <= Credited /\ taken <= Announced /\ Written - Credited <= Size)'
  BY <1>2, CountsKept DEF WriterSleeps, ReaderSide, AtW, AtR, IInv, Types
<1>4. Bounds'
  BY <1>3 DEF IInv, Bounds, WriterSleeps, ReaderSide
<1>5. Frames'
  BY DEF IInv, Frames, Writing, Wanted, WriterSleeps, ReaderSide, AtW
<1>6. InHand'
  BY <1>1 DEF IInv, Types, Frames, InHand, WriterSleeps, ReaderSide, AtW, AtR
<1> QED
  BY <1>1, <1>3, <1>4, <1>5, <1>6 DEF IInv

(* The writer copies: to cells whose samples have been credited, and from    *)
(* the cell of the next sample on.                                           *)
LEMMA CopyInOk ==
  ASSUME IInv, CopyIn
  PROVE  IInv'
<1>a. PICK L \in Nat, m \in 0..Size, C \in Int : L = Written /\ m = w.room /\ C = Credited
  BY Fields, CountTypes DEF IInv
<1> DEFINE f == [i \in 1..m |-> w.first + i - 1]
           mod(c) == (c - ring.writec) % Size
           cells == [c \in Cells |-> IF mod(c) < m THEN w.first + mod(c) ELSE ring.cells[c]]
<1>1. /\ w.pc = "copy" /\ w' = [w EXCEPT !.pc = "announce"]
      /\ ring' = [ring EXCEPT !.cells = cells] /\ written' = written \o f
      /\ UNCHANGED <<r, shape, control, stops, taken, copied>>
  BY <1>a DEF CopyIn, AtW, ReaderSide
<1>2. /\ m \in 0..Size /\ L \in Nat /\ C \in Int /\ Size \in Nat \ {0} /\ written \in Seq(Nat)
      /\ w.first \in Nat /\ w.last \in Nat /\ w.last <= MaxSamples /\ MaxSamples \in Nat
      /\ ring.cells \in [Cells -> 0..MaxSamples] /\ ring.writec \in Cells
  BY Fields DEF IInv, Types, Frames
<1>3. w.first \in 1..w.last /\ m <= w.last - w.first + 1 /\ m <= ring.writable
  BY <1>a, <1>1 DEF IInv, Frames, Bounds, Writing
<1>4. Charged = L /\ Announced = L /\ C <= L /\ 0 <= C
  <2>1. Charged = Written /\ Announced = Written
    BY <1>1, CountTypes DEF IInv, Charged, Announced
  <2>2. 0 <= Credited /\ taken <= Announced /\ Credited <= taken
    BY Fields DEF IInv, Bounds, Credited
  <2> QED
    BY <1>a, <2>1, <2>2, Fields DEF IInv
<1>5. ring.writec = L % Size /\ (L + m) - C <= Size
  <2>1. ring.writec = L % Size /\ ring.writable = Size - (L - C)
    BY <1>a, <1>4 DEF IInv, Counts
  <2> QED
    BY <1>2, <1>3, <1>4, <2>1, Fields DEF IInv
<1>6. f \in Seq(Nat) /\ Len(f) = m /\ \A i \in 1..m : f[i] = w.first + i - 1
  <2>1. \A i \in 1..m : w.first + i - 1 \in Nat
    BY <1>2
  <2>2. f \in Seq(Nat) /\ Len(f) = m
    BY <1>2, <2>1, SeqDef
  <2> QED
    BY <2>2
<1> HIDE DEF f
<1>7. /\ written' \in Seq(Nat) /\ Len(written') = L + m
      /\ \A k \in 1..L : written'[k] = written[k]
      /\ \A k \in (L + 1)..(L + m) : written'[k] = w.first + (k - L) - 1
  <2>1. /\ written' \in Seq(Nat) /\ Len(written') = Len(written) + Len(f)
        /\ \A k \in 1..(Len(written) + Len(f)) :
             written'[k] = IF k <= Len(written) THEN written[k] ELSE f[k - Len(written)]
    BY <1>1, <1>2, <1>6, ConcatProperties
  <2>2. Len(written) = L
    BY <1>a DEF Written
  <2>3. ASSUME NEW k \in (L + 1)..(L + m) PROVE written'[k] = w.first + (k - L) - 1
    <3>1. k - L \in 1..m /\ k \in 1..(L + m) /\ ~(k <= L)
      BY <1>2
    <3> QED
      BY <1>2, <1>6, <2>1, <2>2, <3>1
  <2>4. ASSUME NEW k \in 1..L PROVE written'[k] = written[k]
    BY <1>2, <1>6, <2>1, <2>2
  <2> QED
    BY <1>6, <2>1, <2>2, <2>3, <2>4
<1>8. w'.pc = "announce" /\ w'.room = m /\ w'.first = w.first /\ w'.last = w.last
  BY <1>a, <1>1 DEF IInv, Types
<1>9. /\ Charged' = L /\ Announced' = L /\ Credited' = C /\ Written' = L + m
  <2>1. Written' = L + m
    BY <1>7 DEF Written
  <2>2. Charged' = Written' - m /\ Announced' = Written' - m
    BY <1>8 DEF Charged, Announced
  <2>3. (L + m) - m = L
    BY <1>2
  <2> QED
    BY <1>a, <1>1, <2>1, <2>2, <2>3 DEF Credited
<1>10. /\ ring'.cells = cells /\ ring'.readc = ring.readc /\ ring'.writec = ring.writec
       /\ ring'.readable = ring.readable /\ ring'.writable = ring.writable
       /\ ring'.maxLatency = ring.maxLatency
  BY <1>1 DEF IInv, Types
<1>11. \A c \in Cells : mod(c) \in 0..(Size - 1)
  <2>1. \A c \in Cells : c - ring.writec \in Int
    BY <1>2 DEF Cells
  <2> QED
    BY <1>2, <2>1, DivMod
<1>12. Types'
  <2>1. cells \in [Cells -> 0..MaxSamples]
    <3>1. ASSUME NEW c \in Cells, mod(c) < m PROVE w.first + mod(c) \in 0..MaxSamples
      BY <1>2, <1>3, <1>11, <3>1
    <3> QED
      BY <1>2, <3>1
  <2>2. ring' \in [cells : [Cells -> 0..MaxSamples], readc : Cells, writec : Cells,
                   readable : Int, writable : Int, maxLatency : Nat,
                   stopReader : BOOLEAN, stopWriter : BOOLEAN]
    BY <1>1, <2>1 DEF IInv, Types
  <2>3. w' \in [pc : WPcs, first : Nat, last : Nat, seen : Nat, room : 0..Size]
    BY <1>1 DEF IInv, Types, WPcs
  <2> QED
    BY <1>1, <1>7, <2>2, <2>3 DEF IInv, Types
<1>13. Counts'
  BY <1>a, <1>1, <1>4, <1>9, <1>10 DEF IInv, Counts
<1>14. Contents'
  <2>1. ASSUME NEW j \in C..((L + m) - 1)
        PROVE  cells[j % Size] = written'[j + 1]
    <3>1. j \in Int /\ j % Size \in Cells
      BY <1>2, <1>4, DivMod DEF Cells
    <3> DEFINE c == j % Size
               i == mod(c)
    <3>2. /\ j - L \in 0..(Size - 1) => i = j - L
          /\ j - L \in (-Size)..(-1) => i = (j - L) + Size
      <4>1. i = ((j % Size) - (L % Size)) % Size
        BY <1>5
      <4>2. L \in Int /\ j \in Int /\ Size \in Nat \ {0}
        BY <1>2, <3>1
      <4> HIDE DEF i
      <4> QED
        BY <4>1, <4>2, Ahead
    <3>3. cells[c] = IF i < m THEN w.first + i ELSE ring.cells[c]
      BY <3>1
    <3>4. ring.cells[c] = written[j + 1] \/ ~(j < L)
      <4>1. j < L => (j + 1 \in (C + 1)..L /\ (j + 1) - 1 = j)
        BY <1>2, <1>4, <3>1
      <4> QED
        BY <1>a, <4>1 DEF IInv, Contents
    <3> HIDE DEF c, i, cells
    <3>5. CASE j < L
      <4>1. j - L \in (-Size)..(-1) /\ j + 1 \in 1..L
        BY <1>2, <1>4, <1>5, <3>1, <3>5
      <4>2. ~(i < m)
        BY <1>2, <1>4, <1>5, <3>1, <3>2, <4>1
      <4> QED
        BY <1>7, <3>3, <3>4, <3>5, <4>1, <4>2 DEF c
    <3>6. CASE ~(j < L)
      <4>1. j - L \in 0..(Size - 1) /\ j + 1 \in (L + 1)..(L + m)
        BY <1>2, <1>4, <1>5, <3>1, <3>6
      <4>2. i = j - L /\ i < m
        BY <1>2, <3>1, <3>2, <4>1
      <4>3. w.first + i = w.first + ((j + 1) - L) - 1
        BY <1>2, <3>1, <4>2
      <4> QED
        BY <1>7, <3>3, <4>1, <4>2, <4>3 DEF c
    <3> QED
      BY <3>5, <3>6
  <2> HIDE DEF cells
  <2>2. ASSUME NEW k \in (C + 1)..(L + m)
        PROVE  cells[(k - 1) % Size] = written'[k]
    <3>1. k - 1 \in C..((L + m) - 1) /\ (k - 1) + 1 = k
      BY <1>2, <1>4
    <3> QED
      BY <2>1, <3>1
  <2> QED
    BY <1>9, <1>10, <2>2 DEF Contents, cells
<1>15. Bounds'
  BY <1>a, <1>1, <1>2, <1>4, <1>5, <1>8, <1>9, <1>10, Fields DEF IInv, Bounds
<1>16. Frames'
  BY <1>a, <1>1, <1>8 DEF IInv, Frames, Writing, Wanted
<1>17. InHand'
  <2>1. ASSUME NEW i \in 1..Len(copied) PROVE copied[i] = written'[taken + i]
    <3>1. r.pc = "forget"
      BY <2>1 DEF IInv, InHand
    <3>2. Len(copied) \in Nat /\ taken \in Nat /\ taken + Len(copied) <= L
      <4>1. Len(copied) \in Nat /\ taken \in Nat
        BY DEF IInv, Types
      <4>2. Len(copied) <= r.given /\ r.given <= ring.readable /\ ring.readable = L - taken
        BY <1>4, <3>1 DEF IInv, InHand, Bounds, Counts
      <4> QED
        BY <1>2, <4>1, <4>2, Fields DEF IInv
    <3>3. taken + i \in 1..L
      BY <3>2, <1>2
    <3> QED
      BY <1>7, <3>3 DEF IInv, InHand
  <2> QED
    BY <1>1, <2>1 DEF IInv, InHand
<1> QED
  BY <1>12, <1>13, <1>14, <1>15, <1>16, <1>17 DEF IInv

(* The writer tells readable of its samples.                                *)
LEMMA AnnounceOk ==
  ASSUME IInv, Announce
  PROVE  IInv'
<1>a. PICK L \in Nat, m \in 0..Size : L = Written /\ m = w.room
  BY Fields, CountTypes DEF IInv
<1>1. /\ w.pc = "announce" /\ w' = [w EXCEPT !.pc = "charge"]
      /\ ring' = [ring EXCEPT !.readable = @ + m]
      /\ UNCHANGED <<r, shape, control, stops, written, taken, copied>>
  BY <1>a DEF Announce, AtW, ReaderSide
<1>2. w'.pc = "charge" /\ w'.room = m /\ w'.first = w.first /\ w'.last = w.last
  BY <1>a, <1>1 DEF IInv, Types
<1>3. /\ ring'.readable = ring.readable + m /\ ring'.writable = ring.writable
      /\ ring'.cells = ring.cells /\ ring'.readc = ring.readc /\ ring'.writec = ring.writec
  BY <1>1 DEF IInv, Types
<1>4. ring.readable + m \in Int
  BY Fields DEF IInv
<1>5. Types'
  BY <1>1, <1>4 DEF IInv, Types, WPcs
<1>6. Written' = L /\ Charged = L - m /\ Charged' = L - m /\ Announced = L - m /\ Announced' = L
  BY <1>a, <1>1, <1>2 DEF Written, Charged, Announced
<1>7. Credited' = Credited
  BY <1>1 DEF Credited
<1>8. Counts'
  <2>1. ring'.readable = Announced' - taken'
    BY <1>1, <1>3, <1>6, Fields DEF IInv, Counts
  <2> QED
    BY <1>3, <1>6, <1>7, <2>1 DEF IInv, Counts
<1>9. Contents'
  BY <1>a, <1>1, <1>3, <1>6, <1>7 DEF IInv, Contents
<1>10. Bounds'
  BY <1>a, <1>1, <1>2, <1>3, <1>6, <1>7, Fields, CountTypes DEF IInv, Bounds
<1>11. Frames' /\ InHand'
  BY <1>a, <1>1, <1>2 DEF IInv, Frames, InHand, Wanted, Writing
<1> QED
  BY <1>5, <1>8, <1>9, <1>10, <1>11 DEF IInv

(* The writer takes its samples from writable and moves its pointer.        *)
LEMMA ChargeOk ==
  ASSUME IInv, Charge
  PROVE  IInv'
<1>a. PICK L \in Nat, m \in 0..Size : L = Written /\ m = w.room
  BY Fields, CountTypes DEF IInv
<1>1. /\ w.pc = "charge" /\ w' = [w EXCEPT !.pc = "notify"]
      /\ ring' = [ring EXCEPT !.writable = @ - m, !.writec = (@ + m) % Size]
      /\ UNCHANGED <<r, shape, control, stops, written, taken, copied>>
  BY <1>a DEF Charge, AtW, ReaderSide
<1>2. w'.pc = "notify" /\ w'.room = m /\ w'.first = w.first /\ w'.last = w.last
  BY <1>a, <1>1 DEF IInv, Types
<1>3. /\ ring'.readable = ring.readable /\ ring'.writable = ring.writable - m
      /\ ring'.writec = (ring.writec + m) % Size
      /\ ring'.cells = ring.cells /\ ring'.readc = ring.readc
  BY <1>1 DEF IInv, Types
<1>4. ring.writable - m \in Int
  BY Fields DEF IInv
<1>5. Written' = L /\ Charged = L - m /\ Charged' = L /\ Announced = L /\ Announced' = L
  BY <1>a, <1>1, <1>2 DEF Written, Charged, Announced
<1>6. Credited' = Credited
  BY <1>1 DEF Credited
<1>7. (ring.writec + m) % Size = L % Size /\ L % Size \in Cells
  <2>1. ring.writec = (L - m) % Size
    BY <1>5 DEF IInv, Counts
  <2>2. (((L - m) % Size) + m) % Size = ((L - m) + m) % Size
    <3>1. Size \in Nat \ {0} /\ L - m \in Int /\ m \in Int
      BY Fields DEF IInv
    <3> QED
      BY <3>1, ModAdd
  <2>3. (L - m) + m = L
    OBVIOUS
  <2>4. L % Size \in Cells
    <3>1. Size \in Nat \ {0} /\ L \in Int
      BY Fields DEF IInv
    <3> QED
      BY <3>1, DivMod DEF Cells
  <2> QED
    BY <2>1, <2>2, <2>3, <2>4
<1>8. Types'
  <2>1. ring' = [ring EXCEPT !.writable = @ - m, !.writec = L % Size]
    BY <1>1, <1>7
  <2> QED
    BY <1>1, <1>4, <1>7, <2>1 DEF IInv, Types, WPcs
<1>9. Counts'
  <2>1. ring'.writable = Size - (Charged' - Credited')
    BY <1>3, <1>5, <1>6, Fields, CountTypes DEF IInv, Counts
  <2>2. ring'.writec = Charged' % Size
    BY <1>3, <1>5, <1>7
  <2> QED
    BY <1>1, <1>3, <1>5, <1>6, <2>1, <2>2 DEF IInv, Counts
<1>10. Contents'
  BY <1>a, <1>1, <1>3, <1>5, <1>6 DEF IInv, Contents
<1>11. Bounds'
  BY <1>a, <1>1, <1>2, <1>3, <1>5, <1>6, Fields, CountTypes DEF IInv, Bounds
<1>12. Frames' /\ InHand'
  BY <1>a, <1>1, <1>2 DEF IInv, Frames, InHand, Wanted, Writing
<1> QED
  BY <1>8, <1>9, <1>10, <1>11, <1>12 DEF IInv

(* The writer goes on with its frame.                                       *)
LEMMA NotifyReaderOk ==
  ASSUME IInv, NotifyReader
  PROVE  IInv'
<1>a. w.first + w.room \in Nat 
  BY Fields DEF IInv
<1>1. Types'
  BY <1>a DEF IInv, Types, NotifyReader, Woken, WPcs, RPcs
<1>2. Charged' = Charged /\ Announced' = Announced /\ Credited' = Credited
  BY DEF IInv, NotifyReader, Woken, AtW, Written, Charged, Announced, Credited
<1>3. Counts' /\ Contents' /\ (0 <= Credited /\ taken <= Announced /\ Written - Credited <= Size)'
  BY <1>a, <1>2, CountsKept DEF NotifyReader, Woken, AtW, AtR, IInv, Types
<1>4. Bounds'
  BY <1>3 DEF IInv, Bounds, NotifyReader, Woken
<1>5. Frames'
  <2>1. /\ w'.first = w.first + w.room /\ w'.last = w.last
        /\ w'.pc = IF w.first + w.room > w.last THEN "fetch" ELSE "ask"
        /\ w.pc = "notify" /\ control' = control
    BY DEF NotifyReader, AtW, IInv, Types
  <2>2. /\ r'.given = r.given /\ r'.keep = r.keep /\ r'.skip = r.skip
        /\ r'.pc \in Given => r.pc \in Given
    BY DEF NotifyReader, Woken, Given, IInv, Types
  <2> QED
    BY <1>a, <2>1, <2>2, Fields DEF IInv, Frames, Writing, Wanted
<1>6. InHand'
  BY <1>a, <1>1 DEF IInv, Types, Frames, InHand, NotifyReader, Woken, AtW, AtR
<1> QED
  BY <1>1, <1>3, <1>4, <1>5, <1>6 DEF IInv

-----------------------------------------------------------------------------
(* The reading worker                                                       *)

(* A grant of the reader: no more than is readable.                         *)
LEMMA GiveOk ==
  ASSUME IInv, NEW n \in Nat, n <= ring.readable,
         r.pc \in {"ask", "test"}, r' = Give(n),
         UNCHANGED <<ring, w, shape, control, stops, written, taken, copied>>
  PROVE  IInv'
<1>1. ring.readable <= Size
  <2>1. Announced <= Written /\ Credited = taken
    BY Fields, CountTypes DEF IInv, Announced, Credited
  <2> QED
    BY <2>1, Fields, CountTypes DEF IInv, Counts, Bounds
<1>2. n <= Size
  BY <1>1, Fields DEF IInv
<1>3. PICK m \in 0..Size : r' = [r EXCEPT !.given = m, !.pc = "copy"] /\ m <= n /\ m <= Wanted
  BY <1>2, GiveFits DEF IInv
<1>4. r'.given = m /\ r'.pc = "copy" /\ r'.keep = r.keep /\ r'.skip = r.skip
  BY <1>3 DEF IInv, Types
<1>5. Types'
  BY <1>3 DEF IInv, Types, RPcs
<1>6. Charged' = Charged /\ Announced' = Announced /\ Credited' = Credited
  BY <1>4 DEF Charged, Announced, Credited, Written
<1>7. Counts' /\ Contents' /\ (0 <= Credited /\ taken <= Announced /\ Written - Credited <= Size)'
  BY <1>6, CountsKept
<1>8. Bounds'
  BY <1>3, <1>4, <1>7, Fields DEF IInv, Bounds
<1>9. Frames'
  <2>1. r.pc # "off" /\ control # "off"
    BY DEF IInv, Frames
  <2>2. Wanted' = Wanted
    BY <1>4 DEF Wanted
  <2> QED
    BY <1>3, <1>4, <2>1, <2>2 DEF IInv, Frames
<1>10. InHand'
  <2>1. copied' = <<>>
    BY DEF IInv, InHand
  <2>2. Len(copied') = 0 /\ m \in Nat
    BY <2>1, EmptySeq, Fields DEF IInv
  <2> QED
    BY <1>4, <2>1, <2>2 DEF InHand
<1> QED
  BY <1>5, <1>7, <1>8, <1>9, <1>10 DEF IInv

(* A step of the reader to a place where it has been given nothing.         *)
LEMMA IdleOk ==
  ASSUME IInv, NEW pc \in {"test", "dozing", "done"}, r.pc \in {"ask", "test"},
         r' = [r EXCEPT !.pc = pc],
         UNCHANGED <<ring, w, shape, control, stops, written, taken, copied>>
  PROVE  IInv'
<1>1. Types'
  BY DEF IInv, Types, RPcs
<1>2. Charged' = Charged /\ Announced' = Announced /\ Credited' = Credited
  BY DEF IInv, Types, Charged, Announced, Credited, Written
<1>3. Counts' /\ Contents' /\ (0 <= Credited /\ taken <= Announced /\ Written - Credited <= Size)'
  BY <1>2, CountsKept
<1>4. Bounds'
  BY <1>3 DEF IInv, Types, Bounds
<1>5. Frames'
  BY DEF IInv, Types, Frames, Given
<1>6. InHand'
  BY DEF IInv, Types, InHand
<1> QED
  BY <1>1, <1>3, <1>4, <1>5, <1>6 DEF IInv

(* The reader asks what is readable.                                        *)
LEMMA AskReadableOk ==
  ASSUME IInv, AskReadable
  PROVE  IInv'
<1>1. /\ r.pc = "ask"
      /\ r' = IF ring.stopReader THEN ReaderEnds
              ELSE IF ring.readable # 0 THEN Give(ring.readable) ELSE [r EXCEPT !.pc = "test"]
      /\ UNCHANGED <<ring, w, shape, control, stops, written, taken, copied>>
  BY DEF AskReadable, AtR, WriterSide
<1>2. ring.readable \in Nat
  BY Fields, CountTypes DEF IInv, Counts, Bounds
<1>3. CASE ~ring.stopReader /\ ring.readable # 0
  BY <1>1, <1>2, <1>3, GiveOk
<1>4. CASE ring.stopReader
  BY <1>1, <1>4, IdleOk DEF ReaderEnds
<1>5. CASE ~ring.stopReader /\ ~(ring.readable # 0)
  BY <1>1, <1>5, IdleOk
<1> QED
  BY <1>3, <1>4, <1>5

(* The reader tests for samples before it goes to sleep.                    *)
LEMMA TestReadableOk ==
  ASSUME IInv, TestReadable
  PROVE  IInv'
<1>1. /\ r.pc = "test"
      /\ r' = IF ring.stopReader THEN ReaderEnds
              ELSE IF ring.readable > 0 THEN Give(ring.readable) ELSE [r EXCEPT !.pc = "dozing"]
      /\ UNCHANGED <<ring, w, shape, control, stops, written, taken, copied>>
  BY DEF TestReadable, AtR, WriterSide
<1>2. ring.readable \in Nat
  BY Fields, CountTypes DEF IInv, Counts, Bounds
<1>3. CASE ~ring.stopReader /\ ring.readable > 0
  BY <1>1, <1>2, <1>3, GiveOk
<1>4. CASE ring.stopReader
  BY <1>1, <1>4, IdleOk DEF ReaderEnds
<1>5. CASE ~ring.stopReader /\ ~(ring.readable > 0)
  BY <1>1, <1>5, IdleOk
<1> QED
  BY <1>3, <1>4, <1>5

(* The reader begins a frame.                                               *)
LEMMA BeginOk ==
  ASSUME IInv, Begin
  PROVE  IInv'
<1>1. shape \in (Nat \ {0}) \X Int /\ shape[1] + shape[2] > 0
  BY ReshaperAssumption DEF IInv, Types
<1>2. shape[1] \in Nat /\ shape[2] \in Int
  BY <1>1
<1>3. Min({shape[1] + shape[2], shape[1]}) \in Nat /\ Max({shape[2], 0}) \in Nat
  <2>1. PICK a \in Nat, b \in Int : a = shape[1] /\ b = shape[2] /\ a + b \in Nat
    BY <1>1, <1>2
  <2>2. Min({a + b, a}) = IF a + b <= a THEN a + b ELSE a
    BY <2>1, MinMax
  <2>3. Max({b, 0}) = IF b <= 0 THEN 0 ELSE b
    BY MinMax, 0 \in Int
  <2> QED
    BY <2>1, <2>2, <2>3
<1>4. PICK k \in Nat, s \in Nat : r' = [r EXCEPT !.keep = k, !.skip = s, !.pc = "ask"]
  BY <1>3 DEF Begin
<1>5. /\ r.pc = "begin" /\ r'.pc = "ask" /\ r'.given = r.given
      /\ UNCHANGED <<ring, w, shape, control, stops, written, taken, copied>>
  BY <1>4 DEF Begin, AtR, WriterSide, IInv, Types
<1>6. Types'
  BY <1>4, <1>5 DEF IInv, Types, RPcs
<1>7. Charged' = Charged /\ Announced' = Announced /\ Credited' = Credited
  BY <1>5 DEF Charged, Announced, Credited, Written
<1>8. Counts' /\ Contents' /\ (0 <= Credited /\ taken <= Announced /\ Written - Credited <= Size)'
  BY <1>5, <1>7, CountsKept
<1>9. Bounds' /\ Frames' /\ InHand'
  BY <1>5, <1>8 DEF IInv, Bounds, Frames, InHand, Given
<1> QED
  BY <1>6, <1>8, <1>9 DEF IInv

(* The reader goes to sleep.                                                *)
LEMMA ReaderSleepsOk ==
  ASSUME IInv, ReaderSleeps
  PROVE  IInv'
<1>1. Types'
  BY DEF IInv, Types, ReaderSleeps, WriterSide, RPcs
<1>2. Charged' = Charged /\ Announced' = Announced /\ Credited' = Credited
  BY DEF IInv, ReaderSleeps, WriterSide, AtR, Written, Charged, Announced, Credited
<1>3. Counts' /\ Contents' /\ (0 <= Credited /\ taken <= Announced /\ Written - Credited <= Size)'
  BY <1>2, CountsKept DEF ReaderSleeps, WriterSide, AtW, AtR, IInv, Types
<1>4. Bounds'
  BY <1>3 DEF IInv, Bounds, ReaderSleeps, WriterSide
<1>5. Frames'
  BY DEF IInv, Frames, Given, ReaderSleeps, WriterSide, AtR
<1>6. InHand'
  BY <1>1 DEF IInv, Types, Frames, InHand, ReaderSleeps, WriterSide, AtW, AtR
<1> QED
  BY <1>1, <1>3, <1>4, <1>5, <1>6 DEF IInv

(* The reader copies what it has been given, or skips it.                   *)
LEMMA CopyOutOk ==
  ASSUME IInv, CopyOut
  PROVE  IInv'
<1>a. PICK L \in Nat, g \in 0..Size, T \in Nat : L = Written /\ g = r.given /\ T = taken
  BY Fields, CountTypes DEF IInv
<1> DEFINE f == [i \in 1..g |-> ring.cells[(ring.readc + i - 1) % Size]]
<1>1. /\ r.pc = "copy" /\ r' = [r EXCEPT !.pc = "forget"]
      /\ copied' = IF r.keep > 0 THEN f ELSE <<>>
      /\ UNCHANGED <<ring, w, shape, control, stops, written, taken>>
  BY <1>a DEF CopyOut, AtR, WriterSide
<1>2. r'.pc = "forget" /\ r'.given = g /\ r'.keep = r.keep /\ r'.skip = r.skip
  BY <1>a, <1>1 DEF IInv, Types
<1>3. Credited = T /\ Credited' = T /\ Charged' = Charged /\ Announced' = Announced
  BY <1>a, <1>1, <1>2 DEF Credited, Charged, Announced, Written
<1>4. g <= ring.readable /\ T + g <= L
  <2>1. g <= ring.readable /\ ring.readable = Announced - T
    BY <1>a, <1>1 DEF IInv, Bounds, Counts
  <2>2. Announced <= L
    BY <1>a, Fields DEF IInv, Announced
  <2> QED
    BY <1>a, <2>1, <2>2, CountTypes DEF IInv
<1>5. ASSUME NEW i \in 1..g
      PROVE  ring.cells[(ring.readc + i - 1) % Size] = written[T + i]
  <2>1. ring.readc = T % Size
    BY <1>3 DEF IInv, Counts
  <2>2. i - 1 \in Int /\ T \in Int /\ Size \in Nat \ {0} /\ T % Size \in Int
    BY Fields, DivMod DEF IInv
  <2>3. ((T % Size) + (i - 1)) % Size = (T + (i - 1)) % Size
    BY <2>2, ModAdd
  <2>4. (T % Size) + i - 1 = (T % Size) + (i - 1) /\ T + (i - 1) = (T + i) - 1
    BY <2>2
  <2>5. T + i \in (Credited + 1)..Written
    BY <1>a, <1>3, <1>4
  <2>6. ring.cells[((T + i) - 1) % Size] = written[T + i]
    BY <2>5 DEF IInv, Contents
  <2> QED
    BY <2>1, <2>3, <2>4, <2>6
<1>6. copied' \in Seq(Nat) /\ Len(copied') <= g
      /\ \A i \in 1..Len(copied') : copied'[i] = written[T + i]
  <2>1. CASE r.keep > 0
    <3>1. ASSUME NEW i \in 1..g PROVE written[T + i] \in Nat
      <4>1. T + i \in 1..Len(written) /\ written \in Seq(Nat)
        BY <1>a, <1>4 DEF Written, IInv, Types
      <4> QED
        BY <4>1, ElementOfSeq
    <3>2. f \in [1..g -> Nat]
      BY <1>5, <3>1
    <3>3. copied' = f /\ g \in Nat
      BY <1>1, <2>1
    <3> HIDE DEF f
    <3>4. f \in Seq(Nat) /\ Len(f) = g
      BY <3>2, <3>3, SeqDef
    <3>5. \A i \in 1..g : f[i] = written[T + i]
      BY <1>5 DEF f
    <3> QED
      BY <3>3, <3>4, <3>5
  <2>2. CASE ~(r.keep > 0)
    BY <1>1, <2>2
  <2> QED
    BY <2>1, <2>2
<1>7. Types'
  BY <1>1, <1>6 DEF IInv, Types, RPcs
<1>8. Counts' /\ Contents' /\ (0 <= Credited /\ taken <= Announced /\ Written - Credited <= Size)'
  BY <1>a, <1>1, <1>3, CountsKept
<1>9. Bounds' /\ Frames'
  BY <1>a, <1>1, <1>2, <1>4, <1>8 DEF IInv, Bounds, Frames, Given, Wanted
<1>10. InHand'
  BY <1>a, <1>1, <1>2, <1>6 DEF InHand
<1> QED
  BY <1>7, <1>8, <1>9, <1>10 DEF IInv

(* The reader takes its samples from readable.                              *)
LEMMA ForgetOk ==
  ASSUME IInv, Forget
  PROVE  IInv'
<1>a. PICK L \in Nat, g \in 0..Size, T \in Nat : L = Written /\ g = r.given /\ T = taken
  BY Fields, CountTypes DEF IInv
<1>1. /\ r.pc = "forget" /\ r' = [r EXCEPT !.pc = "credit"]
      /\ ring' = [ring EXCEPT !.readable = @ - g]
      /\ taken' = T + g /\ copied' = <<>>
      /\ UNCHANGED <<w, shape, control, stops, written>>
  BY <1>a DEF Forget, AtR, WriterSide
<1>2. r'.pc = "credit" /\ r'.given = g /\ r'.keep = r.keep /\ r'.skip = r.skip
  BY <1>a, <1>1 DEF IInv, Types
<1>3. /\ ring'.readable = ring.readable - g /\ ring'.writable = ring.writable
      /\ ring'.cells = ring.cells /\ ring'.readc = ring.readc /\ ring'.writec = ring.writec
      /\ ring'.maxLatency = ring.maxLatency
  BY <1>1 DEF IInv, Types
<1>4. ring.readable - g \in Int /\ T + g \in Nat
  BY Fields DEF IInv
<1>5. Types'
  BY <1>1, <1>4, EmptySeq DEF IInv, Types, RPcs
<1>6. /\ Written' = Written /\ Charged' = Charged /\ Announced' = Announced
      /\ Credited = T /\ Credited' = T
  BY <1>a, <1>1, <1>2 DEF Written, Charged, Announced, Credited
<1>7. g <= ring.readable /\ ring.readable = Announced - T
  BY <1>a, <1>1 DEF IInv, Bounds, Counts
<1>8. Counts'
  <2>1. ring'.readable = Announced' - taken'
    BY <1>1, <1>3, <1>6, <1>7, CountTypes DEF IInv
  <2> QED
    BY <1>3, <1>6, <2>1 DEF IInv, Counts
<1>9. Contents'
  BY <1>1, <1>3, <1>6 DEF IInv, Contents
<1>10. Bounds'
  <2>1. 0 <= Credited' /\ taken' <= Announced' /\ Written' - Credited' <= Size
    BY <1>a, <1>1, <1>6, <1>7, CountTypes DEF IInv, Bounds
  <2>2. w.pc \in {"copy", "announce"} => ring'.readable + w.room <= ring'.maxLatency
    BY <1>3, Fields DEF IInv, Bounds
  <2> QED
    BY <1>1, <1>2, <1>3, <2>1, <2>2 DEF IInv, Bounds
<1>11. Frames'
  BY <1>a, <1>1, <1>2 DEF IInv, Frames, Given, Wanted
<1>12. InHand'
  BY <1>1, <1>2 DEF InHand
<1> QED
  BY <1>5, <1>8, <1>9, <1>10, <1>11, <1>12 DEF IInv

(* The reader gives its samples to writable and moves its pointer.          *)
LEMMA CreditOk ==
  ASSUME IInv, Credit
  PROVE  IInv'
<1>a. PICK g \in 0..Size, T \in Nat : g = r.given /\ T = taken
  BY Fields DEF IInv
<1>1. /\ r.pc = "credit" /\ r' = [r EXCEPT !.pc = "notify"]
      /\ ring' = [ring EXCEPT !.writable = @ + g, !.readc = (@ + g) % Size]
      /\ UNCHANGED <<w, shape, control, stops, written, taken, copied>>
  BY <1>a DEF Credit, AtR, WriterSide
<1>2. r'.pc = "notify" /\ r'.given = g /\ r'.keep = r.keep /\ r'.skip = r.skip
  BY <1>a, <1>1 DEF IInv, Types
<1>3. /\ ring'.readable = ring.readable /\ ring'.writable = ring.writable + g
      /\ ring'.readc = (ring.readc + g) % Size
      /\ ring'.cells = ring.cells /\ ring'.writec = ring.writec
      /\ ring'.maxLatency = ring.maxLatency
  BY <1>1 DEF IInv, Types
<1>4. ring.writable + g \in Int
  BY Fields DEF IInv
<1>5. /\ Written' = Written /\ Charged' = Charged /\ Announced' = Announced
      /\ Credited = T - g /\ Credited' = T
  BY <1>a, <1>1, <1>2 DEF Written, Charged, Announced, Credited
<1>6. (ring.readc + g) % Size = T % Size /\ T % Size \in Cells
  <2>1. ring.readc = (T - g) % Size
    BY <1>5 DEF IInv, Counts
  <2>2. (((T - g) % Size) + g) % Size = ((T - g) + g) % Size
    <3>1. Size \in Nat \ {0} /\ T - g \in Int /\ g \in Int
      BY Fields DEF IInv
    <3> QED
      BY <3>1, ModAdd
  <2>3. (T - g) + g = T
    OBVIOUS
  <2>4. T % Size \in Cells
    <3>1. Size \in Nat \ {0} /\ T \in Int
      BY Fields DEF IInv
    <3> QED
      BY <3>1, DivMod DEF Cells
  <2> QED
    BY <2>1, <2>2, <2>3, <2>4
<1>7. Types'
  <2>1. ring' = [ring EXCEPT !.writable = @ + g, !.readc = T % Size]
    BY <1>1, <1>6
  <2> QED
    BY <1>1, <1>4, <1>6, <2>1 DEF IInv, Types, RPcs
<1>8. Counts'
  <2>1. ring'.writable = Size - (Charged' - Credited')
    BY <1>3, <1>5, Fields, CountTypes DEF IInv, Counts
  <2>2. ring'.readc = Credited' % Size
    BY <1>3, <1>5, <1>6
  <2> QED
    BY <1>a, <1>1, <1>3, <1>5, <2>1, <2>2 DEF IInv, Counts
<1>9. Contents'
  <2>1. (Credited' + 1)..Written' \subseteq (Credited + 1)..Written
    BY <1>5, CountTypes DEF IInv
  <2> QED
    BY <1>1, <1>3, <2>1 DEF IInv, Contents
<1>10. Bounds'
  BY <1>a, <1>1, <1>2, <1>3, <1>5, Fields, CountTypes DEF IInv, Bounds
<1>11. Frames' /\ InHand'
  BY <1>a, <1>1, <1>2 DEF IInv, Frames, InHand, Given, Wanted
<1> QED
  BY <1>7, <1>8, <1>9, <1>10, <1>11 DEF IInv

(* The reader goes on with its frame.                                       *)
LEMMA NotifyWriterOk ==
  ASSUME IInv, NotifyWriter
  PROVE  IInv'
<1> DEFINE k == IF r.keep > 0 THEN r.keep - r.given ELSE 0
           s == IF r.keep > 0 THEN r.skip ELSE r.skip - r.given
           pc == IF k + s = 0 THEN "swap" ELSE "ask"
<1>1. /\ r.pc = "notify" /\ w' = [w EXCEPT !.pc = Woken(w.pc)]
      /\ r' = [r EXCEPT !.keep = k, !.skip = s, !.pc = pc]
      /\ UNCHANGED <<ring, shape, control, stops, written, taken, copied>>
  BY DEF NotifyWriter, AtR
<1>2. k \in Nat /\ s \in Nat /\ pc \in {"swap", "ask"}
  <2>1. r.given <= Wanted
    BY <1>1 DEF IInv, Frames, Given
  <2> QED
    BY <2>1, Fields DEF IInv, Wanted
<1> HIDE DEF k, s, pc
<1>3. r'.pc \in {"swap", "ask"} /\ r'.given = r.given
  BY <1>1, <1>2 DEF IInv, Types
<1>4. /\ w'.pc = Woken(w.pc) /\ w'.room = w.room /\ w'.first = w.first /\ w'.last = w.last
      /\ w'.seen = w.seen
  BY <1>1 DEF IInv, Types
<1>5. Types'
  BY <1>1, <1>2 DEF IInv, Types, WPcs, RPcs, Woken
<1>6. Charged' = Charged /\ Announced' = Announced /\ Credited' = Credited
  BY <1>1, <1>3, <1>4 DEF Charged, Announced, Credited, Written, Woken
<1>7. Counts' /\ Contents' /\ (0 <= Credited /\ taken <= Announced /\ Written - Credited <= Size)'
  BY <1>1, <1>6, CountsKept
<1>8. Bounds'
  BY <1>1, <1>3, <1>4, <1>7 DEF IInv, Bounds, Woken
<1>9. Frames' /\ InHand'
  BY <1>1, <1>3, <1>4 DEF IInv, Frames, InHand, Writing, Given, Woken
<1> QED
  BY <1>5, <1>7, <1>8, <1>9 DEF IInv

(* The frame goes out.                                                      *)
LEMMA SwapFrameOk ==
  ASSUME IInv, SwapFrame
  PROVE  IInv'
<1>1. Types'
  BY DEF IInv, Types, SwapFrame, WriterSide, ReaderEnds, RPcs
<1>2. Charged' = Charged /\ Announced' = Announced /\ Credited' = Credited
  BY DEF IInv, SwapFrame, WriterSide, ReaderEnds, AtR, Written, Charged, Announced, Credited
<1>3. Counts' /\ Contents' /\ (0 <= Credited /\ taken <= Announced /\ Written - Credited <= Size)'
  BY <1>2, CountsKept DEF SwapFrame, WriterSide, ReaderEnds, AtW, AtR, IInv, Types
<1>4. Bounds'
  BY <1>3 DEF IInv, Bounds, SwapFrame, WriterSide, ReaderEnds
<1>5. Frames'
  BY DEF IInv, Frames, Given, SwapFrame, WriterSide, ReaderEnds, AtR
<1>6. InHand'
  BY DEF IInv, InHand, SwapFrame, WriterSide, ReaderEnds, AtR
<1> QED
  BY <1>1, <1>3, <1>4, <1>5, <1>6 DEF IInv

-----------------------------------------------------------------------------
(* The control thread                                                       *)

(* Both workers start.                                                      *)
LEMMA StartOk ==
  ASSUME IInv, Start
  PROVE  IInv'
<1>1. Types'
  BY DEF IInv, Types, Start, Workers, WPcs, RPcs
<1>2. Charged' = Charged /\ Announced' = Announced /\ Credited' = Credited
  BY DEF IInv, Frames, Start, Workers, Written, Charged, Announced, Credited
<1>3. Counts' /\ Contents' /\ (0 <= Credited /\ taken <= Announced /\ Written - Credited <= Size)'
  BY <1>2, CountsKept DEF Start, Workers, AtW, AtR, IInv, Types
<1>4. Bounds'
  BY <1>3 DEF IInv, Bounds, Start
<1>5. Frames'
  BY <1>1 DEF IInv, Types, Frames, Writing, Given, Wanted, Start, Workers, AtW, AtR
<1>6. InHand'
  BY <1>1 DEF IInv, Types, Frames, InHand, Start, Workers, AtW, AtR
<1> QED
  BY <1>1, <1>3, <1>4, <1>5, <1>6 DEF IInv

(* The stop of the reader is set.                                           *)
LEMMA StopReaderSetsOk ==
  ASSUME IInv, StopReaderSets
  PROVE  IInv'
<1>a. stops + 1 \in 0..MaxStops
  BY Fields DEF IInv, StopReaderSets
<1>1. Types'
  BY <1>a DEF IInv, Types, StopReaderSets, Workers
<1>2. Charged' = Charged /\ Announced' = Announced /\ Credited' = Credited
  BY DEF IInv, StopReaderSets, Workers, Written, Charged, Announced, Credited
<1>3. Counts' /\ Contents' /\ (0 <= Credited /\ taken <= Announced /\ Written - Credited <= Size)'
  BY <1>a, <1>2, CountsKept DEF StopReaderSets, Workers, AtW, AtR, IInv, Types
<1>4. Bounds'
  BY <1>3 DEF IInv, Bounds, StopReaderSets
<1>5. Frames'
  BY DEF IInv, Frames, Wanted, StopReaderSets
<1>6. InHand'
  BY <1>a, <1>1 DEF IInv, Types, Frames, InHand, StopReaderSets, Workers, AtW, AtR
<1> QED
  BY <1>1, <1>3, <1>4, <1>5, <1>6 DEF IInv

(* The reader is notified of its stop.                                      *)
LEMMA StopReaderNotifiesOk ==
  ASSUME IInv, StopReaderNotifies
  PROVE  IInv'
<1>1. Types'
  BY DEF IInv, Types, StopReaderNotifies, Workers, Woken, RPcs
<1>2. Charged' = Charged /\ Announced' = Announced /\ Credited' = Credited
  BY DEF IInv, StopReaderNotifies, Workers, Woken, Written, Charged, Announced, Credited
<1>3. Counts' /\ Contents' /\ (0 <= Credited /\ taken <= Announced /\ Written - Credited <= Size)'
  BY <1>2, CountsKept DEF StopReaderNotifies, Workers, Woken, AtW, AtR, IInv, Types
<1>4. Bounds'
  BY <1>3 DEF IInv, Bounds, StopReaderNotifies, Woken
<1>5. Frames'
  BY DEF IInv, Frames, Given, Wanted, StopReaderNotifies, Woken
<1>6. InHand'
  BY DEF IInv, InHand, StopReaderNotifies, Workers, Woken
<1> QED
  BY <1>1, <1>3, <1>4, <1>5, <1>6 DEF IInv

(* The stop of the writer is set.                                           *)
LEMMA StopWriterSetsOk ==
  ASSUME IInv, StopWriterSets
  PROVE  IInv'
<1>1. Types'
  BY DEF IInv, Types, StopWriterSets, Workers
<1>2. Charged' = Charged /\ Announced' = Announced /\ Credited' = Credited
  BY DEF IInv, StopWriterSets, Workers, Written, Charged, Announced, Credited
<1>3. Counts' /\ Contents' /\ (0 <= Credited /\ taken <= Announced /\ Written - Credited <= Size)'
  BY <1>2, CountsKept DEF StopWriterSets, Workers, AtW, AtR, IInv, Types
<1>4. Bounds'
  BY <1>3 DEF IInv, Bounds, StopWriterSets
<1>5. Frames'
  BY DEF IInv, Frames, Wanted, StopWriterSets
<1>6. InHand'
  BY <1>1 DEF IInv, Types, Frames, InHand, StopWriterSets, Workers, AtW, AtR
<1> QED
  BY <1>1, <1>3, <1>4, <1>5, <1>6 DEF IInv

(* The writer is notified of its stop.                                      *)
LEMMA StopWriterNotifiesOk ==
  ASSUME IInv, StopWriterNotifies
  PROVE  IInv'
<1>1. Types'
  BY DEF IInv, Types, StopWriterNotifies, Workers, Woken, WPcs
<1>2. Charged' = Charged /\ Announced' = Announced /\ Credited' = Credited
  BY DEF IInv, StopWriterNotifies, Workers, Woken, Written, Charged, Announced, Credited
<1>3. Counts' /\ Contents' /\ (0 <= Credited /\ taken <= Announced /\ Written - Credited <= Size)'
  BY <1>2, CountsKept DEF StopWriterNotifies, Workers, Woken, AtW, AtR, IInv, Types
<1>4. Bounds'
  BY <1>3 DEF IInv, Bounds, StopWriterNotifies, Woken
<1>5. Frames'
  BY DEF IInv, Frames, Writing, Wanted, StopWriterNotifies, Woken
<1>6. InHand'
  BY DEF IInv, InHand, StopWriterNotifies, Workers
<1> QED
  BY <1>1, <1>3, <1>4, <1>5, <1>6 DEF IInv

(* Both workers have ended.                                                 *)
LEMMA JoinOk ==
  ASSUME IInv, Join
  PROVE  IInv'
<1>1. Types'
  BY DEF IInv, Types, Join, Workers, WPcs, RPcs
<1>2. Charged' = Charged /\ Announced' = Announced /\ Credited' = Credited
  BY DEF IInv, Join, Workers, AtW, AtR, Written, Charged, Announced, Credited
<1>3. Counts' /\ Contents' /\ (0 <= Credited /\ taken <= Announced /\ Written - Credited <= Size)'
  BY <1>2, CountsKept DEF Join, Workers, AtW, AtR, IInv, Types
<1>4. Bounds'
  BY <1>3 DEF IInv, Bounds, Join
<1>5. Frames'
  BY <1>1 DEF IInv, Types, Frames, Writing, Given, Wanted, Join, Workers, AtW, AtR
<1>6. InHand'
  BY <1>1 DEF IInv, Types, Frames, InHand, Join, Workers, AtW, AtR
<1> QED
  BY <1>1, <1>3, <1>4, <1>5, <1>6 DEF IInv

(* The sizes change.                                                        *)
LEMMA SetShapeOk ==
  ASSUME IInv, NEW s \in Shapes, SetShape(s)
  PROVE  IInv'
<1>a. 2 * s[1] \in Nat
  BY ReshaperAssumption
<1>1. Types'
  BY <1>a DEF IInv, Types, SetShape, Workers
<1>2. Charged' = Charged /\ Announced' = Announced /\ Credited' = Credited
  BY DEF IInv, SetShape, Workers, Written, Charged, Announced, Credited
<1>3. Counts' /\ Contents' /\ (0 <= Credited /\ taken <= Announced /\ Written - Credited <= Size)'
  BY <1>a, <1>2, CountsKept DEF SetShape, Workers, IInv, Types
<1>4. Bounds'
  BY <1>3 DEF IInv, Frames, Bounds, SetShape
<1>5. Frames'
  BY <1>a, <1>1 DEF IInv, Types, Frames, Writing, Given, Wanted, SetShape, Workers
<1>6. InHand'
  BY <1>a, <1>1 DEF IInv, Types, Frames, InHand, SetShape, Workers
<1> QED
  BY <1>1, <1>3, <1>4, <1>5, <1>6 DEF IInv

-----------------------------------------------------------------------------
(* The theorems                                                             *)

(* An empty ring and two workers that are off.                              *)
LEMMA Initially ==
  ASSUME Init
  PROVE  IInv
<1>1. Size \in Nat \ {0} /\ MaxSamples \in Nat /\ MaxStops \in Nat /\ 2 * shape[1] \in Nat
  BY ReshaperAssumption DEF Init
<1>2. 0 % Size = 0 /\ 0 \in Cells
  BY <1>1, ModUnique, (Size * 0) + 0 = 0, 0 \in Int DEF Cells
<1>3. Types
  BY <1>1, <1>2, EmptySeq DEF Init, Types, WPcs, RPcs
<1>4. Written = 0 /\ Charged = 0 /\ Announced = 0 /\ Credited = 0
  BY DEF Init, Written, Charged, Announced, Credited
<1>5. Counts /\ Bounds
  BY <1>1, <1>2, <1>4 DEF Init, Counts, Bounds
<1>6. Frames /\ Contents /\ InHand
  BY <1>1, <1>4 DEF Init, Frames, Contents, InHand, Writing, Given
<1> QED
  BY <1>3, <1>5, <1>6 DEF IInv

(* A step that changes nothing.                                             *)
LEMMA StutterOk ==
  ASSUME IInv, UNCHANGED vars
  PROVE  IInv'
<1>1. UNCHANGED <<ring, w, r, shape, control, stops, written, taken, copied>>
  BY DEF vars
<1>2. Charged' = Charged /\ Announced' = Announced /\ Credited' = Credited
  BY <1>1 DEF Charged, Announced, Credited, Written
<1>3. Counts' /\ Contents' /\ (0 <= Credited /\ taken <= Announced /\ Written - Credited <= Size)'
  BY <1>1, <1>2, CountsKept
<1>4. Types'
  BY <1>1 DEF IInv, Types
<1>5. Bounds' /\ Frames' /\ InHand'
  BY <1>1, <1>3 DEF IInv, Bounds, Frames, InHand, Wanted
<1> QED
  BY <1>3, <1>4, <1>5 DEF IInv

(* Every step keeps the invariant.                                          *)
LEMMA Inductive ==
  ASSUME IInv, [Next]_vars
  PROVE  IInv'
<1>1. CASE Fetch
  BY <1>1, FetchOk
<1>2. CASE Write
  BY <1>2, FetchStopsOk, AskWritableOk, WeighReadableOk, TestWritableOk, WriterSleepsOk,
     CopyInOk, AnnounceOk, ChargeOk, NotifyReaderOk DEF Write
<1>3. CASE Read
  BY <1>3, BeginOk, AskReadableOk, TestReadableOk, ReaderSleepsOk, CopyOutOk, ForgetOk,
     CreditOk, NotifyWriterOk, SwapFrameOk DEF Read
<1>4. CASE Start
  BY <1>4, StartOk
<1>5. CASE StopReaderSets
  BY <1>5, StopReaderSetsOk
<1>6. CASE Stop
  BY <1>6, StopReaderNotifiesOk, StopWriterSetsOk, StopWriterNotifiesOk, JoinOk DEF Stop
<1>7. ASSUME NEW s \in Shapes, SetShape(s) PROVE IInv'
  BY <1>7, SetShapeOk
<1>8. CASE UNCHANGED vars
  BY <1>8, StutterOk
<1> QED
  BY <1>1, <1>2, <1>3, <1>4, <1>5, <1>6, <1>7, <1>8 DEF Next

(* The counters, the pointers and the cells agree with what has been written *)
(* and taken, whatever the workers and the control thread are in the middle  *)
(* of (RingBuffer::write, readAndSkip).                                      *)
THEOREM Invariant == Spec => []IInv
<1>1. Init => IInv
  BY Initially
<1>2. IInv /\ [Next]_vars => IInv'
  BY Inductive
<1> QED
  BY <1>1, <1>2, PTL DEF Spec

(* readable never leaves 0..RING_BUF_SZ; writable does leave it, by less      *)
(* than a grant, between the write's two updates, and is never negative.      *)
THEOREM TypeCorrect == Spec => []TypeOK
<1>1. ASSUME IInv PROVE TypeOK
  <2>1. /\ Announced <= Written /\ Charged <= Announced /\ Written - Charged <= Size
        /\ Credited <= taken
    BY <1>1, Fields, CountTypes DEF IInv, Charged, Announced, Credited
  <2>2. ring.readable \in 0..Size
    BY <1>1, <2>1, Fields, CountTypes DEF IInv, Counts, Bounds
  <2>3. 0 <= ring.writable
    <3>1. CASE w.pc = "charge" \/ w.pc = "announce"
      BY <1>1, <3>1, Fields DEF IInv, Bounds
    <3>2. CASE ~(w.pc = "charge" \/ w.pc = "announce")
      <4>1. Charged = Written
        BY <1>1, <3>2, CountTypes DEF IInv, Charged
      <4> QED
        BY <1>1, <4>1, Fields, CountTypes DEF IInv, Counts, Bounds
    <3> QED
      BY <3>1, <3>2
  <2>4. ring.writable \in 0..(2 * Size)
    BY <1>1, <2>1, <2>3, Fields, CountTypes DEF IInv, Counts, Bounds
  <2>5. taken \in 0..Len(written)
    BY <1>1, <2>1, Fields, CountTypes DEF IInv, Bounds, Written
  <2>6. ring \in [cells : [Cells -> 0..MaxSamples], readc : Cells, writec : Cells,
                  readable : 0..Size, writable : 0..(2 * Size), maxLatency : Nat,
                  stopReader : BOOLEAN, stopWriter : BOOLEAN]
    BY <1>1, <2>2, <2>4 DEF IInv, Types
  <2> QED
    BY <1>1, <2>5, <2>6 DEF IInv, Types, TypeOK
<1> QED
  BY <1>1, Invariant, PTL

(* The reader copies exactly the samples that were written next, whatever the *)
(* size of the ring, the shapes and the stops (memcpy from _readc, up to the  *)
(* end of the ring and on from its beginning).                                *)
THEOREM ReadsInOrder == Spec => []ReadsWhatWasWritten
<1>1. ASSUME IInv PROVE ReadsWhatWasWritten
  <2>1. Len(copied) \in Nat /\ copied \in Seq(Nat) /\ written \in Seq(Nat) /\ taken \in Nat
    BY <1>1 DEF IInv, Types
  <2>2. taken + Len(copied) <= Len(written)
    <3>1. /\ taken <= Announced /\ Announced <= Written
          /\ Announced \in Int /\ Written = Len(written) /\ Written \in Nat
      <4>1. Announced \in Int /\ Written = Len(written) /\ Written \in Nat
        BY <1>1, <2>1, CountTypes DEF IInv, Written
      <4>2. taken <= Announced /\ w.room \in Nat
        BY <1>1, Fields DEF IInv, Bounds
      <4>3. Announced <= Written
        BY <4>1, <4>2 DEF Announced
      <4> QED
        BY <4>1, <4>2, <4>3
    <3>2. CASE r.pc = "forget"
      <4>1. Len(copied) <= r.given /\ r.given <= ring.readable /\ ring.readable = Announced - taken
        BY <1>1, <3>2 DEF IInv, InHand, Bounds, Counts
      <4>2. r.given \in Int
        BY <1>1, Fields DEF IInv
      <4> QED
        BY <2>1, <3>1, <4>1, <4>2
    <3>3. CASE r.pc # "forget"
      <4>1. Len(copied) = 0
        BY <1>1, <3>3 DEF IInv, InHand
      <4> QED
        BY <2>1, <3>1, <4>1
    <3> QED
      BY <3>2, <3>3
  <2> DEFINE s == SubSeq(written, taken + 1, taken + Len(copied))
  <2>3. /\ s \in Seq(Nat) /\ Len(s) = Len(copied)
        /\ \A i \in 1..Len(copied) : s[i] = written[taken + i]
    <3>1. taken + 1 \in 1..(Len(written) + 1) /\ taken + Len(copied) \in taken..Len(written)
      BY <2>1, <2>2
    <3>2. \A i \in 1..Len(copied) : (taken + 1) + i - 1 = taken + i
      BY <2>1
    <3> QED
      BY <2>1, <2>2, <3>1, <3>2, SubSeqProperties
  <2> HIDE DEF s
  <2>4. \A i \in 1..Len(copied) : copied[i] = s[i]
    BY <1>1, <2>3 DEF IInv, InHand
  <2>5. copied = s
    BY <2>1, <2>3, <2>4, SeqEqual
  <2> QED
    BY <2>2, <2>5 DEF ReadsWhatWasWritten, s
<1> QED
  BY <1>1, Invariant, PTL

(* What is readable only grows up to the latency allowed: the room that is    *)
(* being filled was weighed against it, and neither the reader nor a change   *)
(* of the sizes takes that back (getWritable, setMaxLatency).                 *)
THEOREM LatencyKept == Spec => LatencyBounded
<1>1. ASSUME IInv, [Next]_vars, ring'.readable > ring.readable
      PROVE  ring'.readable <= ring'.maxLatency
  <2>1. CASE Announce
    <3>1. /\ ring'.readable = ring.readable + w.room /\ ring'.maxLatency = ring.maxLatency
          /\ w.pc = "announce"
      BY <1>1, <2>1 DEF Announce, AtW, IInv, Types
    <3> QED
      BY <1>1, <3>1 DEF IInv, Bounds
  <2>2. CASE ~Announce
    <3>1. ring'.readable <= ring.readable
      <4>1. ring.readable \in Int /\ r.given \in Nat
        BY <1>1, Fields DEF IInv
      <4>2. CASE Forget
        BY <1>1, <4>1, <4>2 DEF Forget, IInv, Types
      <4>3. CASE ~Forget
        <5>1. ring'.readable = ring.readable
          BY <1>1, <2>2, <4>3 DEF Next, vars, Write, Read, Stop, Fetch, FetchStops, AskWritable,
             WeighReadable, TestWritable, WriterSleeps, CopyIn, Charge, NotifyReader, Begin,
             AskReadable, TestReadable, ReaderSleeps, CopyOut, Credit, NotifyWriter, SwapFrame,
             Start, StopReaderSets, StopReaderNotifies, StopWriterSets, StopWriterNotifies,
             Join, SetShape, WriterSide, IInv, Types
        <5> QED
          BY <4>1, <5>1
      <4> QED
        BY <4>2, <4>3
    <3>2. ring.readable \in Int /\ ring'.readable \in Int
      BY <1>1, Inductive DEF IInv, Types
    <3> QED
      BY <1>1, <3>1, <3>2
  <2> QED
    BY <2>1, <2>2
<1>2. IInv /\ [Next]_vars =>
        [ring'.readable > ring.readable => ring'.readable <= ring'.maxLatency]_vars
  BY <1>1
<1> QED
  BY <1>2, Invariant, PTL DEF Spec, LatencyBounded

-----------------------------------------------------------------------------
(* Sleeping and waking                                                      *)

(* Nobody sleeps at the start.                                              *)
LEMMA InitSleep == Init => SleepInv
BY DEF Init, SleepInv, NoLostWakeup, AtR, AtW

(* Room depends on the two counters and the latency.                        *)
LEMMA RoomKept ==
  ASSUME UNCHANGED <<ring.readable, ring.writable, ring.maxLatency>>
  PROVE  Room(ring.writable, ring.readable)' = Room(ring.writable, ring.readable)
BY DEF Room

(* What is announced and not taken is never less than nothing.              *)
LEMMA ReadableNat == ASSUME IInv PROVE ring.readable \in Nat
<1>1. Announced \in Int /\ taken \in Int /\ taken <= Announced
  BY CountTypes, Fields DEF IInv, Bounds
<1>2. ring.readable = Announced - taken
  BY DEF IInv, Counts
<1> QED
  BY <1>1, <1>2

(* A step keeps the notifiers on their way.                                 *)
LEMMA StepSleep ==
  ASSUME IInv, SleepInv, [Next]_vars
  PROVE  SleepInv'
<1>0. /\ r \in [pc : RPcs, keep : Nat, skip : Nat, given : 0..Size]
      /\ w \in [pc : WPcs, first : Nat, last : Nat, seen : Nat, room : 0..Size]
      /\ ring \in [cells : [Cells -> 0..MaxSamples], readc : Cells, writec : Cells,
                    readable : Int, writable : Int, maxLatency : Nat,
                    stopReader : BOOLEAN, stopWriter : BOOLEAN]
  BY DEF IInv, Types
<1> USE DEF SleepInv, NoLostWakeup, AtR, AtW
<1>1. CASE Fetch
  BY <1>0, <1>1, RoomKept DEF Fetch, ReaderSide
<1>2. CASE FetchStops
  BY <1>0, <1>2, RoomKept DEF FetchStops, ReaderSide
<1>3. CASE AskWritable
  BY <1>0, <1>3, RoomKept DEF AskWritable, ReaderSide, GiveUp
<1>4. CASE WeighReadable
  BY <1>0, <1>4, RoomKept DEF WeighReadable, ReaderSide, Grant
<1>5. CASE TestWritable
  BY <1>0, <1>5, RoomKept DEF TestWritable, ReaderSide, GiveUp, Grant
<1>6. CASE WriterSleeps
  BY <1>0, <1>6, RoomKept DEF WriterSleeps, ReaderSide
<1>7. CASE CopyIn
  BY <1>0, <1>7, RoomKept DEF CopyIn, ReaderSide
<1>8. CASE Announce
  BY <1>0, <1>8, RoomKept DEF Announce, ReaderSide
<1>9. CASE Charge
  BY <1>0, <1>9, RoomKept DEF Charge, ReaderSide
<1>10. CASE NotifyReader
  BY <1>0, <1>10, RoomKept DEF NotifyReader, Woken
<1>11. CASE Begin
  BY <1>0, <1>11, RoomKept DEF Begin, WriterSide
<1>12. CASE AskReadable
  BY <1>0, <1>12, RoomKept DEF AskReadable, WriterSide, Give, ReaderEnds
<1>13. CASE TestReadable
  <2>1. UNCHANGED <<ring, w, shape>> /\ r.pc = "test"
    BY <1>13 DEF TestReadable, WriterSide
  <2>2. r'.pc \in {"done", "copy", "dozing"} /\ (r'.pc = "dozing" => ~(ring.readable > 0))
    BY <1>0, <1>13 DEF TestReadable, Give, ReaderEnds
  <2>3. ring.readable \in Nat
    BY ReadableNat
  <2> QED
    BY <2>1, <2>2, <2>3, RoomKept
<1>14. CASE ReaderSleeps
  BY <1>0, <1>14, RoomKept DEF ReaderSleeps, WriterSide
<1>15. CASE CopyOut
  BY <1>0, <1>15, RoomKept DEF CopyOut, WriterSide
<1>16. CASE Forget
  BY <1>0, <1>16, RoomKept DEF Forget, WriterSide
<1>17. CASE Credit
  BY <1>0, <1>17, RoomKept DEF Credit, WriterSide
<1>18. CASE NotifyWriter
  BY <1>0, <1>18, RoomKept DEF NotifyWriter, Woken
<1>19. CASE SwapFrame
  BY <1>0, <1>19, RoomKept DEF SwapFrame, WriterSide, ReaderEnds
<1>20. CASE Start
  BY <1>0, <1>20, RoomKept DEF Start, Workers
<1>21. CASE StopReaderSets
  BY <1>0, <1>21, RoomKept DEF StopReaderSets
<1>22. CASE StopReaderNotifies
  BY <1>0, <1>22, RoomKept DEF StopReaderNotifies, Woken
<1>23. CASE StopWriterSets
  BY <1>0, <1>23, RoomKept DEF StopWriterSets
<1>24. CASE StopWriterNotifies
  BY <1>0, <1>24, RoomKept DEF StopWriterNotifies, Woken
<1>25. CASE Join
  BY <1>0, <1>25, RoomKept DEF Join, Workers
<1>26. ASSUME NEW s \in Shapes, SetShape(s) PROVE SleepInv'
  BY <1>0, <1>26 DEF SetShape, IInv, Frames
<1>27. CASE UNCHANGED vars
  BY <1>27, RoomKept DEF vars
<1> QED
  BY <1>1, <1>2, <1>3, <1>4, <1>5, <1>6, <1>7, <1>8, <1>9, <1>10, <1>11, <1>12, <1>13, <1>14,
     <1>15, <1>16, <1>17, <1>18, <1>19, <1>20, <1>21, <1>22, <1>23, <1>24, <1>25, <1>26, <1>27
     DEF Next, Write, Read, Stop

(* It holds together with the ring's invariant.                             *)
LEMMA SleepInvariant == Spec => [](IInv /\ SleepInv)
<1>1. Init => IInv /\ SleepInv
  BY Initially, InitSleep
<1>2. (IInv /\ SleepInv) /\ [Next]_vars => (IInv /\ SleepInv)'
  BY Inductive, StepSleep
<1> QED
  BY <1>1, <1>2, PTL DEF Spec

(* NoLostWakeup: neither worker sleeps past its notification, although the    *)
(* room the writer waits for is changed under the other mutex too; the safety *)
(* that NobodySleepsOnWork rests on.                                         *)
THEOREM NotifierOnItsWay == Spec => []NoLostWakeup
<1>1. SleepInv => NoLostWakeup
  BY DEF SleepInv
<1> QED
  BY <1>1, SleepInvariant, PTL

(* With both asleep the ring would be empty, and an empty ring has room, for  *)
(* any latency that the sizes allow (getWritable).                            *)
LEMMA OneAwake == ASSUME IInv, SleepInv PROVE NeverBothAsleep
<1> SUFFICES ASSUME r.pc = "asleep", w.pc = "asleep" PROVE FALSE
  BY DEF NeverBothAsleep, AtR, AtW
<1>1. ring.readable = 0
  <2>1. ~(ring.readable > 0)
    BY DEF SleepInv, NoLostWakeup, AtR
  <2> QED
    BY <2>1, ReadableNat
<1>2. /\ Written \in Int /\ taken \in Int
      /\ Announced = Written /\ Charged = Written /\ Credited = taken
  BY CountTypes, Fields DEF IInv, Announced, Charged, Credited
<1>3. Size \in Nat \ {0} /\ shape[1] \in Nat \ {0}
  <2>1. shape \in Shapes
    BY DEF IInv, Types
  <2> QED
    BY <2>1, ReshaperAssumption
<1>4. ring.writable = Size
  <2>1. ring.readable = Announced - taken /\ ring.writable = Size - (Charged - Credited)
    BY DEF IInv, Counts
  <2> QED
    BY <1>1, <1>2, <1>3, <2>1
<1>5. ring.maxLatency \in Nat \ {0}
  BY <1>3 DEF SleepInv
<1>6. Room(Size, 0) > 0
  <2> DEFINE m == Min({Size, ring.maxLatency - 0})
  <2>1. m = IF Size <= ring.maxLatency THEN Size ELSE ring.maxLatency
    BY <1>3, <1>5, MinMax, ring.maxLatency - 0 = ring.maxLatency
  <2>2. Room(Size, 0) = Max({m, 0})
    BY DEF Room
  <2> HIDE DEF m
  <2>3. m \in Nat \ {0}
    BY <1>3, <1>5, <2>1
  <2>4. Max({m, 0}) = m
    BY <2>3, MinMax, 0 \in Int
  <2> QED
    BY <2>2, <2>3, <2>4
<1> QED
  BY <1>1, <1>4, <1>6 DEF SleepInv, NoLostWakeup, AtW

(* NeverBothAsleep: the ring has no state in which each worker waits for the   *)
(* other, whatever its size, the shapes and the stops.                        *)
THEOREM OneOfThemAwake == Spec => []NeverBothAsleep
BY SleepInvariant, OneAwake, PTL
=============================================================================
