----------------------------- MODULE ChainProofs -----------------------------
(***************************************************************************)
(* Proofs about Chain, for any number of processors: the members keep their   *)
(* types and exactly the enabled blocks are started, however many are         *)
(* enabled; and the enabled blocks are in series as long as no more than two  *)
(* are enabled at once.                                                      *)
(***************************************************************************)
EXTENDS Chain, Integers, FiniteSetTheorems, SequenceTheorems, WellFoundedInduction, TLAPS

(* What every chain keeps, whatever its blocks read.                        *)
Fit(c) == /\ c \in Chains
          /\ IsInjective(c.links)
          /\ c.states \subseteq ToSet(c.links) /\ IsFiniteSet(c.states)
          /\ StartsEnabled(c)

AtMostTwo(S) == \A x, y, z \in S : x = y \/ x = z \/ y = z

-----------------------------------------------------------------------------
(* Numbers                                                                  *)

(* Every set of numbers that is not empty has a least one.                  *)
LEMMA Least ==
  ASSUME NEW T \in SUBSET Nat, T # {}
  PROVE  \E x \in T : \A y \in T : x <= y
<1>1. IsWellFoundedOn(OpToRel(<, Nat), Nat)
  BY NatLessThanWellFounded, Zenon
<1>2. PICK x \in T : \A y \in T : ~(<<y, x>> \in OpToRel(<, Nat))
  BY <1>1, WFMin, Zenon
<1>3. ASSUME NEW y \in T PROVE x <= y
  <2>1. ~(<<y, x>> \in OpToRel(<, Nat))
    BY <1>2, Zenon
  <2>2. ~(y < x)
    BY <2>1, Zenon DEF OpToRel
  <2> QED
    BY <2>2
<1> QED
  BY <1>3

(* The least and the greatest member of a set of numbers.                   *)
LEMMA MinIs ==
  ASSUME NEW T \in SUBSET Nat, T # {}
  PROVE  Min(T) \in T /\ \A y \in T : Min(T) <= y
BY Least DEF Min

LEMMA MaxOfOne == ASSUME NEW q \in Nat PROVE Max({q}) = q
BY DEF Max

LEMMA MaxOfTwo == ASSUME NEW q \in Nat, NEW p \in Nat, q < p PROVE Max({q, p}) = p
<1>1. \E x \in {q, p} : \A y \in {q, p} : x >= y
  OBVIOUS
<1>2. Max({q, p}) \in {q, p} /\ \A y \in {q, p} : Max({q, p}) >= y
  BY <1>1 DEF Max
<1> QED
  BY <1>2

-----------------------------------------------------------------------------
(* The list                                                                 *)

(* A block of the list has one place.                                       *)
LEMMA Placed ==
  ASSUME NEW c, Fit(c), NEW b \in ToSet(c.links)
  PROVE  /\ Position(c, b) \in DOMAIN c.links /\ c.links[Position(c, b)] = b
         /\ b \in Blocks
         /\ \A i \in DOMAIN c.links : c.links[i] = b => i = Position(c, b)
<1>1. \E i \in DOMAIN c.links : c.links[i] = b
  BY DEF ToSet
<1>2. Position(c, b) \in DOMAIN c.links /\ c.links[Position(c, b)] = b
  BY <1>1 DEF Position
<1>3. c.links \in Seq(Blocks)
  BY DEF Fit, Chains
<1> QED
  BY <1>2, <1>3 DEF Fit, IsInjective

LEMMA Places ==
  ASSUME NEW c, Fit(c)
  PROVE  /\ c.links \in Seq(Blocks) /\ Len(c.links) \in Nat /\ DOMAIN c.links = 1..Len(c.links)
         /\ Enabled(c) \subseteq DOMAIN c.links /\ Enabled(c) \in SUBSET Nat
         /\ \A i \in DOMAIN c.links : c.links[i] \in Blocks
<1>1. c.links \in Seq(Blocks)
  BY DEF Fit, Chains
<1> QED
  BY <1>1 DEF Enabled

(* The first of some places holds a block; NoBlock is none.                 *)
LEMMA FirstOfPlaces ==
  ASSUME NEW c, Fit(c), NEW P \in SUBSET DOMAIN c.links
  PROVE  /\ P = {} => FirstOf(c, P) = NoBlock
         /\ P # {} => Min(P) \in P /\ FirstOf(c, P) = c.links[Min(P)] /\ FirstOf(c, P) \in Blocks
<1>1. P \in SUBSET Nat
  BY Places
<1>2. P # {} => Min(P) \in P
  BY <1>1, MinIs
<1> QED
  BY <1>2, Places DEF FirstOf

LEMMA Neighbours ==
  ASSUME NEW c, Fit(c), NEW b
  PROVE  /\ BlockBefore(c, b) \in Blocks \cup {NoBlock}
         /\ BlockAfter(c, b) \in Blocks \cup {NoBlock}
         /\ Upstream(c, b) \in Streams
<1> DEFINE B == {i \in Enabled(c) : i < Position(c, b)}
           A == {i \in Enabled(c) : i > Position(c, b)}
<1>1. B \in SUBSET DOMAIN c.links /\ A \in SUBSET DOMAIN c.links
  BY Places
<1>2. BlockBefore(c, b) = FirstOf(c, B) /\ BlockAfter(c, b) = FirstOf(c, A)
  BY DEF BlockBefore, BlockAfter
<1> HIDE DEF A, B
<1>3. BlockBefore(c, b) \in Blocks \cup {NoBlock} /\ BlockAfter(c, b) \in Blocks \cup {NoBlock}
  BY <1>1, <1>2, FirstOfPlaces
<1>4. c.in \in Inputs
  BY DEF Fit, Chains
<1> QED
  BY <1>3, <1>4 DEF Upstream, Streams

-----------------------------------------------------------------------------
(* Enabling and disabling one block                                         *)

(* Redirecting what follows a block changes only what is read.              *)
LEMMA Redirected ==
  ASSUME NEW c, c \in Chains, NEW b, BlockAfter(c, b) \in Blocks \cup {NoBlock}, NEW s \in Streams
  PROVE  /\ Redirect(c, b, s) \in Chains
         /\ Redirect(c, b, s).links = c.links /\ Redirect(c, b, s).states = c.states
         /\ Redirect(c, b, s).in = c.in /\ Redirect(c, b, s).running = c.running
         /\ Redirect(c, b, s).started = c.started
<1>1. CASE BlockAfter(c, b) = NoBlock
  <2>1. Redirect(c, b, s) = [c EXCEPT !.out = s, !.consumer = s]
    BY <1>1 DEF Redirect, OutputChanged
  <2> QED
    BY <2>1 DEF Chains
<1>2. CASE BlockAfter(c, b) # NoBlock
  <2>1. Redirect(c, b, s) = [c EXCEPT !.reads = [@ EXCEPT ![BlockAfter(c, b)] = s]]
    BY <1>2 DEF Redirect, SetBlockInput
  <2> QED
    BY <2>1 DEF Chains
<1> QED
  BY <1>1, <1>2

(* enableBlock turns the block on and starts it if the chain runs.          *)
LEMMA EnableFits ==
  ASSUME NEW c, Fit(c), NEW b \in ToSet(c.links)
  PROVE  /\ Fit(EnableIn(c, b))
         /\ EnableIn(c, b).links = c.links /\ EnableIn(c, b).in = c.in
         /\ EnableIn(c, b).states = c.states \cup {b}
<1>1. CASE b \in c.states
  BY <1>1 DEF EnableIn
<1>2. CASE b \notin c.states
  <2> DEFINE r == Redirect(c, b, b)
             u == Upstream(c, b)
             e == EnableIn(c, b)
  <2>1. b \in Blocks /\ b \in Streams /\ c \in Chains /\ u \in Streams
    BY Placed, Neighbours DEF Streams, Fit
  <2>2. /\ r \in Chains /\ r.links = c.links /\ r.states = c.states
        /\ r.in = c.in /\ r.running = c.running /\ r.started = c.started
    BY <2>1, Redirected, Neighbours
  <2>3. e = [r EXCEPT !.reads = [@ EXCEPT ![b] = u], !.states = @ \cup {b},
                      !.started = IF c.running THEN @ \cup {b} ELSE @]
    <3>1. e = [[r EXCEPT !.reads = [@ EXCEPT ![b] = u]] EXCEPT !.states = @ \cup {b},
                      !.started = IF c.running THEN @ \cup {b} ELSE @]
      BY <1>2 DEF EnableIn, SetBlockInput
    <3> HIDE DEF r, u, e
    <3> QED
      BY <2>2, <3>1 DEF Chains
  <2> HIDE DEF r, u, e
  <2>4. /\ e \in Chains /\ e.links = c.links /\ e.in = c.in /\ e.running = c.running
        /\ e.states = c.states \cup {b}
        /\ e.started = IF c.running THEN c.started \cup {b} ELSE c.started
    BY <2>1, <2>2, <2>3 DEF Chains
  <2>5. IsFiniteSet(c.states \cup {b})
    BY FS_AddElement DEF Fit
  <2>6. Fit(e)
    BY <2>4, <2>5 DEF Fit, StartsEnabled
  <2> QED
    BY <2>4, <2>6 DEF e
<1> QED
  BY <1>1, <1>2

(* disableBlock stops the block and turns it off.                           *)
LEMMA DisableFits ==
  ASSUME NEW c, Fit(c), NEW b \in ToSet(c.links)
  PROVE  /\ Fit(DisableIn(c, b))
         /\ DisableIn(c, b).links = c.links /\ DisableIn(c, b).in = c.in
         /\ DisableIn(c, b).states = c.states \ {b}
<1>1. CASE b \notin c.states
  BY <1>1 DEF DisableIn
<1>2. CASE b \in c.states
  <2> DEFINE f == [c EXCEPT !.states = @ \ {b}, !.started = @ \ {b}]
             r == Redirect(f, b, Upstream(f, b))
  <2>1. r = DisableIn(c, b)
    BY <1>2 DEF DisableIn
  <2>2. /\ f \in Chains /\ f.links = c.links /\ f.states = c.states \ {b}
        /\ f.in = c.in /\ f.running = c.running /\ f.started = c.started \ {b}
    BY DEF Fit, Chains
  <2> HIDE DEF f
  <2>3. IsFiniteSet(c.states \ {b})
    BY FS_RemoveElement DEF Fit
  <2>4. Fit(f)
    BY <2>2, <2>3 DEF Fit, StartsEnabled
  <2>5. /\ r \in Chains /\ r.links = f.links /\ r.states = f.states
        /\ r.in = f.in /\ r.running = f.running /\ r.started = f.started
    BY <2>2, <2>4, Redirected, Neighbours
  <2> HIDE DEF r
  <2>6. Fit(r)
    BY <2>4, <2>5 DEF Fit, StartsEnabled
  <2> QED
    BY <2>1, <2>2, <2>5, <2>6
<1> QED
  BY <1>1, <1>2

-----------------------------------------------------------------------------
(* Enabling and disabling every block                                       *)

LEMMA SwitchFits ==
  ASSUME NEW c, Fit(c), NEW b \in ToSet(c.links), NEW on \in BOOLEAN
  PROVE  /\ Fit(SetBlockEnabled(c, b, on))
         /\ SetBlockEnabled(c, b, on).links = c.links /\ SetBlockEnabled(c, b, on).in = c.in
BY EnableFits, DisableFits DEF SetBlockEnabled

(* What the loop over the first n links has done to c after each round.      *)
IsLoop(g, c, s, on, n) ==
  /\ g = [i \in 0..n |-> g[i]]
  /\ \A i \in 0..n : g[i] = IF i = 0 THEN c ELSE SetBlockEnabled(g[i - 1], s[i], on)

(* The loop over the links is a function of how many of them it has done.    *)
(* Were there none up to some length, there would be a least such length,    *)
(* and the function for the length before it could be extended.             *)
LEMMA LoopExists ==
  ASSUME NEW c, NEW s, NEW on, NEW n \in Nat
  PROVE  \E g : IsLoop(g, c, s, on, n)
<1> DEFINE Loop(g, k) == IsLoop(g, c, s, on, k)
           T == {k \in Nat : ~\E g : Loop(g, k)}
<1>1. SUFFICES ASSUME T # {} PROVE FALSE
  <2>1. n \in T \/ \E g : Loop(g, n)
    OBVIOUS
  <2> QED
    BY <1>1, <2>1
<1>2. PICK k \in T : \A y \in T : k <= y
  <2>1. T \in SUBSET Nat
    OBVIOUS
  <2> HIDE DEF T
  <2> QED
    BY <1>1, <2>1, Least
<1>3. k \in Nat /\ ~\E g : Loop(g, k)
  BY <1>2
<1>4. k # 0
  <2>1. Loop([i \in 0..0 |-> c], 0)
    BY DEF IsLoop
  <2> QED
    BY <1>3, <2>1
<1>5. PICK g : Loop(g, k - 1)
  <2>1. k - 1 \in Nat /\ ~(k <= k - 1)
    BY <1>3, <1>4
  <2>2. k - 1 \notin T
    BY <1>2, <2>1
  <2> QED
    BY <2>1, <2>2
<1> DEFINE h == [i \in 0..k |-> IF i = k THEN SetBlockEnabled(g[k - 1], s[k], on) ELSE g[i]]
<1>6. \A i \in 0..(k - 1) : g[i] = IF i = 0 THEN c ELSE SetBlockEnabled(g[i - 1], s[i], on)
  BY <1>5 DEF IsLoop
<1>7. \A i \in 0..k : h[i] = IF i = k THEN SetBlockEnabled(g[k - 1], s[k], on) ELSE g[i]
  OBVIOUS
<1>8. \A i \in 1..k : i - 1 \in 0..(k - 1) /\ h[i - 1] = g[i - 1]
  BY <1>3, <1>7
<1>9. \A i \in 0..k : h[i] = IF i = 0 THEN c ELSE SetBlockEnabled(h[i - 1], s[i], on)
  <2> HIDE DEF h
  <2>1. TAKE i \in 0..k
  <2>2. CASE i = 0
    BY <1>3, <1>4, <1>6, <1>7, <2>2
  <2>3. CASE i = k
    BY <1>3, <1>4, <1>7, <1>8, <2>3
  <2>4. CASE i # 0 /\ i # k
    BY <1>3, <1>6, <1>7, <1>8, <2>4
  <2> QED
    BY <2>2, <2>3, <2>4
<1>10. Loop(h, k)
  <2>1. h = [i \in 0..k |-> h[i]]
    OBVIOUS
  <2> QED
    BY <1>9, <2>1 DEF IsLoop
<1> QED
  BY <1>3, <1>10

LEMMA SetAllIsLoop ==
  ASSUME NEW c, Fit(c), NEW on
  PROVE  \E g : /\ g[0] = c /\ SetAllBlocks(c, on) = g[Len(c.links)]
                /\ \A i \in 1..Len(c.links) :
                     g[i] = SetBlockEnabled(g[i - 1], c.links[i], on)
<1> DEFINE n == Len(c.links)
           f[i \in 0..n] ==
             IF i = 0 THEN c ELSE SetBlockEnabled(f[i - 1], c.links[i], on)
<1>1. n \in Nat
  BY Places
<1>2. f = [i \in 0..n |-> IF i = 0 THEN c ELSE SetBlockEnabled(f[i - 1], c.links[i], on)]
  <2>1. PICK g : IsLoop(g, c, c.links, on, n)
    <3> HIDE DEF f, n
    <3> QED
      BY <1>1, LoopExists
  <2>2. g = [i \in 0..n |-> IF i = 0 THEN c ELSE SetBlockEnabled(g[i - 1], c.links[i], on)]
    BY <2>1 DEF IsLoop
  <2> QED
    BY <2>2 DEF f
<1>3. SetAllBlocks(c, on) = f[n]
  BY DEF SetAllBlocks
<1> HIDE DEF f
<1>4. f[0] = c /\ \A i \in 1..n : f[i] = SetBlockEnabled(f[i - 1], c.links[i], on)
  BY <1>1, <1>2
<1> QED
  BY <1>3, <1>4

(* What every round of the loop keeps, the whole loop keeps.                *)
LEMMA AllFit ==
  ASSUME NEW c, Fit(c), NEW on \in BOOLEAN
  PROVE  Fit(SetAllBlocks(c, on)) /\ SetAllBlocks(c, on).links = c.links
<1> DEFINE n == Len(c.links)
<1>1. n \in Nat /\ DOMAIN c.links = 1..n
  BY Places
<1>2. PICK f : /\ f[0] = c /\ SetAllBlocks(c, on) = f[n]
               /\ \A i \in 1..n : f[i] = SetBlockEnabled(f[i - 1], c.links[i], on)
  BY SetAllIsLoop
<1> DEFINE Kept(d) == Fit(d) /\ d.links = c.links
           T == {i \in 0..n : ~Kept(f[i])}
<1> HIDE DEF n
<1>3. f[0] = c /\ \A i \in 1..n : f[i] = SetBlockEnabled(f[i - 1], c.links[i], on)
  BY <1>2
<1>4. ASSUME NEW i \in 1..n, Kept(f[i - 1]) PROVE Kept(f[i])
  <2>1. c.links[i] \in ToSet(c.links)
    BY <1>1 DEF ToSet
  <2> QED
    BY <1>3, <1>4, <2>1, SwitchFits
<1>5. T = {}
  <2>1. SUFFICES ASSUME T # {} PROVE FALSE
    OBVIOUS
  <2>2. PICK k \in T : \A y \in T : k <= y
    <3>1. T \in SUBSET Nat
      BY <1>1
    <3> HIDE DEF T
    <3> QED
      BY <2>1, <3>1, Least
  <2>3. k \in 1..n /\ k - 1 \in 0..n /\ ~(k <= k - 1)
    BY <1>1, <1>3, <2>2
  <2> QED
    BY <1>4, <2>2, <2>3
<1> QED
  BY <1>1, <1>2, <1>5

-----------------------------------------------------------------------------
(* Adding and removing a block                                              *)

(* push_back adds one block that is not in the list.                        *)
LEMMA PushBack ==
  ASSUME NEW S, NEW s \in Seq(S), NEW x \in S, IsInjective(s), x \notin ToSet(s)
  PROVE  /\ Append(s, x) \in Seq(S) /\ IsInjective(Append(s, x))
         /\ Len(Append(s, x)) = Len(s) + 1 /\ Append(s, x)[Len(s) + 1] = x
         /\ \A i \in 1..Len(s) : Append(s, x)[i] = s[i]
         /\ ToSet(s) \subseteq ToSet(Append(s, x)) /\ x \in ToSet(Append(s, x))
<1>1. DOMAIN s = 1..Len(s) /\ Len(s) \in Nat
  OBVIOUS
<1> DEFINE t == Append(s, x)
<1>2. /\ t \in Seq(S) /\ Len(t) = Len(s) + 1
      /\ \A i \in 1..Len(s) : t[i] = s[i]
      /\ t[Len(s) + 1] = x
  BY AppendProperties
<1>3. DOMAIN t = 1..(Len(s) + 1)
  BY <1>2
<1> HIDE DEF t
<1>4. IsInjective(t)
  BY <1>1, <1>2, <1>3 DEF IsInjective, ToSet
<1>5. ToSet(s) \subseteq ToSet(t) /\ x \in ToSet(t)
  BY <1>1, <1>2, <1>3 DEF ToSet
<1> QED
  BY <1>2, <1>4, <1>5 DEF t

(* erase takes one out: what follows it moves up.                           *)
LEMMA Erased ==
  ASSUME NEW S, NEW s \in Seq(S), NEW i \in DOMAIN s, IsInjective(s)
  PROVE  /\ RemoveAt(s, i) \in Seq(S) /\ IsInjective(RemoveAt(s, i))
         /\ Len(RemoveAt(s, i)) = Len(s) - 1
         /\ \A j \in 1..(Len(s) - 1) : RemoveAt(s, i)[j] = IF j < i THEN s[j] ELSE s[j + 1]
         /\ ToSet(s) \ {s[i]} \subseteq ToSet(RemoveAt(s, i))
<1>1. i \in 1..Len(s) /\ DOMAIN s = 1..Len(s) /\ Len(s) \in Nat
  OBVIOUS
<1> DEFINE a == SubSeq(s, 1, i - 1)
           b == SubSeq(s, i + 1, Len(s))
           t == RemoveAt(s, i)
<1>2. a \in Seq(S) /\ Len(a) = i - 1 /\ \A j \in 1..(i - 1) : a[j] = s[j]
  BY <1>1, SubSeqProperties
<1>3. b \in Seq(S) /\ Len(b) = Len(s) - i /\ \A j \in 1..(Len(s) - i) : b[j] = s[i + j]
  BY <1>1, SubSeqProperties
<1>4. t = a \o b
  BY DEF RemoveAt
<1> HIDE DEF a, b, t
<1>5. t \in Seq(S) /\ Len(t) = Len(s) - 1
  <2>1. t \in Seq(S) /\ Len(t) = Len(a) + Len(b)
    BY <1>2, <1>3, <1>4, ConcatProperties
  <2> QED
    BY <1>1, <1>2, <1>3, <2>1
<1>6. ASSUME NEW j \in 1..(Len(s) - 1) PROVE t[j] = IF j < i THEN s[j] ELSE s[j + 1]
  <2>1. t[j] = IF j <= Len(a) THEN a[j] ELSE b[j - Len(a)]
    BY <1>1, <1>2, <1>3, <1>4, ConcatProperties
  <2>2. CASE j < i
    BY <1>1, <1>2, <2>1, <2>2
  <2>3. CASE ~(j < i)
    <3>1. j - Len(a) \in 1..(Len(s) - i) /\ i + (j - Len(a)) = j + 1
      BY <1>1, <1>2, <2>3
    <3> QED
      BY <1>1, <1>2, <1>3, <2>1, <2>3, <3>1
  <2> QED
    BY <2>2, <2>3
<1>7. DOMAIN t = 1..(Len(s) - 1)
  BY <1>5
<1>8. IsInjective(t)
  <2> SUFFICES ASSUME NEW j \in 1..(Len(s) - 1), NEW k \in 1..(Len(s) - 1), t[j] = t[k]
               PROVE  j = k
    BY <1>7 DEF IsInjective
  <2> DEFINE From(m) == IF m < i THEN m ELSE m + 1
  <2>1. From(j) \in DOMAIN s /\ From(k) \in DOMAIN s
    BY <1>1
  <2>2. t[j] = s[From(j)] /\ t[k] = s[From(k)]
    BY <1>6
  <2> HIDE DEF From
  <2>3. From(j) = From(k)
    BY <2>1, <2>2 DEF IsInjective
  <2> QED
    BY <1>1, <2>3 DEF From
<1>9. ASSUME NEW x \in ToSet(s), x # s[i] PROVE x \in ToSet(t)
  <2>1. PICK k \in 1..Len(s) : x = s[k]
    BY <1>1 DEF ToSet
  <2>2. CASE k < i
    <3>1. k \in 1..(Len(s) - 1) /\ t[k] = x
      BY <1>1, <1>6, <2>1, <2>2
    <3> QED
      BY <1>7, <3>1 DEF ToSet
  <2>3. CASE k > i
    <3>1. k - 1 \in 1..(Len(s) - 1) /\ t[k - 1] = x
      BY <1>1, <1>6, <2>1, <2>3
    <3> QED
      BY <1>7, <3>1 DEF ToSet
  <2> QED
    BY <1>1, <1>9, <2>1, <2>2, <2>3
<1> QED
  BY <1>5, <1>6, <1>8, <1>9 DEF t

(* A chain with one block more, which is not enabled.                       *)
Added(c, b) == [c EXCEPT !.links = Append(@, b)]

LEMMA AddedFits ==
  ASSUME NEW c, Fit(c), NEW b \in Blocks, ~Exists(c, b)
  PROVE  /\ Fit(Added(c, b)) /\ b \notin c.states /\ b \in ToSet(Added(c, b).links)
         /\ Added(c, b) = [c EXCEPT !.links = Append(c.links, b)]
<1>1. b \notin ToSet(c.links)
  BY Places DEF Exists, Contains, ToSet
<1>2. /\ Append(c.links, b) \in Seq(Blocks) /\ IsInjective(Append(c.links, b))
      /\ ToSet(c.links) \subseteq ToSet(Append(c.links, b)) /\ b \in ToSet(Append(c.links, b))
  BY <1>1, PushBack, Places DEF Fit
<1> DEFINE a == Added(c, b)
<1>3. /\ a \in Chains /\ a.links = Append(c.links, b) /\ a.states = c.states
      /\ a.started = c.started /\ a.running = c.running
  BY <1>2 DEF Fit, Chains, Added
<1> HIDE DEF a
<1>4. Fit(a)
  BY <1>2, <1>3 DEF Fit, StartsEnabled
<1>5. b \notin c.states
  BY <1>1 DEF Fit
<1> QED
  BY <1>2, <1>3, <1>4, <1>5 DEF a, Added

(* A chain without one of its blocks, which is not enabled.                 *)
Removed(c, b) == [c EXCEPT !.links = RemoveAt(@, Position(c, b))]

LEMMA RemovedFits ==
  ASSUME NEW c, Fit(c), NEW b \in ToSet(c.links), b \notin c.states
  PROVE  Fit(Removed(c, b)) /\ Removed(c, b).links = RemoveAt(c.links, Position(c, b))
<1> DEFINE p == Position(c, b)
           r == Removed(c, b)
<1>1. p \in DOMAIN c.links /\ c.links[p] = b
  BY Placed
<1>2. /\ RemoveAt(c.links, p) \in Seq(Blocks) /\ IsInjective(RemoveAt(c.links, p))
      /\ ToSet(c.links) \ {b} \subseteq ToSet(RemoveAt(c.links, p))
  <2> HIDE DEF p
  <2> QED
    BY <1>1, Erased, Places DEF Fit
<1>3. /\ r \in Chains /\ r.links = RemoveAt(c.links, p) /\ r.states = c.states
      /\ r.started = c.started /\ r.running = c.running
  BY <1>2 DEF Fit, Chains, Removed
<1> HIDE DEF r, p
<1>4. Fit(r)
  BY <1>2, <1>3 DEF Fit, StartsEnabled
<1> QED
  BY <1>3, <1>4 DEF r, p

(* Telling the consumer of an output changes neither list nor states.       *)
LEMMA OutputFits ==
  ASSUME NEW c, Fit(c), NEW s \in Streams
  PROVE  Fit(OutputChanged(c, s)) /\ OutputChanged(c, s).links = c.links
BY DEF Fit, Chains, StartsEnabled, OutputChanged

-----------------------------------------------------------------------------
(* The types, and what is started                                           *)

LEMMA InitFits == Init => Fit(chain)
<1>1. SUFFICES ASSUME Init PROVE Fit(chain)
  OBVIOUS
<1>2. chain \in Chains /\ chain.links = <<>> /\ chain.states = {} /\ chain.started = {}
  BY <1>1 DEF Init, Chains, Streams
<1>3. IsFiniteSet({}) /\ IsInjective(<<>>)
  BY FS_EmptySet DEF IsInjective
<1> QED
  BY <1>2, <1>3 DEF Fit, StartsEnabled

LEMMA AddBlockFits ==
  ASSUME Fit(chain), NEW b \in Blocks, NEW enable \in BOOLEAN, AddBlock(b, enable)
  PROVE  Fit(chain')
<1> DEFINE a == Added(chain, b)
           c == IF enable THEN EnableIn(a, b) ELSE a
<1>1. chain' = OutputChanged(c, c.out)
  BY DEF AddBlock, Added
<1>2. Fit(a) /\ b \in ToSet(a.links)
  BY AddedFits DEF AddBlock
<1> HIDE DEF a
<1>3. Fit(c)
  BY <1>2, EnableFits
<1> HIDE DEF c
<1>4. c.out \in Streams
  BY <1>3 DEF Fit, Chains
<1> QED
  BY <1>1, <1>3, <1>4, OutputFits

LEMMA RemoveBlockFits ==
  ASSUME Fit(chain), NEW b \in Blocks, RemoveBlock(b)
  PROVE  Fit(chain')
<1> DEFINE c == DisableIn(chain, b)
<1>1. chain' = Removed(c, b)
  BY DEF RemoveBlock, Removed
<1>2. b \in ToSet(chain.links)
  BY Places DEF RemoveBlock, Exists, Contains, ToSet
<1>3. Fit(c) /\ b \in ToSet(c.links) /\ b \notin c.states
  BY <1>2, DisableFits
<1> HIDE DEF c
<1> QED
  BY <1>1, <1>3, RemovedFits

LEMMA SwitchBlockFits ==
  ASSUME Fit(chain), NEW b \in Blocks, EnableBlock(b) \/ DisableBlock(b)
  PROVE  Fit(chain')
<1>1. b \in ToSet(chain.links)
  BY Places DEF EnableBlock, DisableBlock, Exists, Contains, ToSet
<1> QED
  BY <1>1, SwitchFits DEF EnableBlock, DisableBlock

LEMMA SetInputFits ==
  ASSUME Fit(chain), NEW s \in Inputs, SetInput(s)
  PROVE  Fit(chain')
<1> DEFINE c == [chain EXCEPT !.in = s]
<1>1. /\ c \in Chains /\ c.links = chain.links /\ c.states = chain.states
      /\ c.started = chain.started /\ c.running = chain.running
  BY DEF Fit, Chains
<1>2. chain' = IF Enabled(c) = {} THEN OutputChanged(c, s)
               ELSE SetBlockInput(c, FirstOf(c, Enabled(c)), s)
  BY DEF SetInput
<1> HIDE DEF c
<1>3. Fit(c)
  BY <1>1 DEF Fit, StartsEnabled
<1>4. CASE Enabled(c) = {}
  BY <1>2, <1>3, <1>4, OutputFits DEF Streams
<1>5. CASE Enabled(c) # {}
  <2> DEFINE f == FirstOf(c, Enabled(c))
  <2>1. f \in Blocks
    BY <1>3, <1>5, Places, FirstOfPlaces
  <2> HIDE DEF f
  <2>2. chain' = [c EXCEPT !.reads = [@ EXCEPT ![f] = s]]
    BY <1>2, <1>5 DEF SetBlockInput, f
  <2> QED
    BY <1>3, <2>1, <2>2 DEF Fit, Chains, StartsEnabled, Streams
<1> QED
  BY <1>4, <1>5

LEMMA StartStopFits == ASSUME Fit(chain), Start \/ Stop PROVE Fit(chain')
BY DEF Fit, Chains, StartsEnabled, Start, Stop

LEMMA StepFits == Fit(chain) /\ [Next]_vars => Fit(chain)'
<1>1. SUFFICES ASSUME Fit(chain), [Next]_vars PROVE Fit(chain')
  OBVIOUS
<1>2. CASE UNCHANGED vars
  BY <1>1, <1>2 DEF vars
<1>3. CASE \E b \in Blocks : \/ \E enable \in BOOLEAN : AddBlock(b, enable)
                             \/ RemoveBlock(b) \/ EnableBlock(b) \/ DisableBlock(b)
  BY <1>1, <1>3, AddBlockFits, RemoveBlockFits, SwitchBlockFits
<1>4. CASE EnableAllBlocks \/ DisableAllBlocks
  BY <1>1, <1>4, AllFit DEF EnableAllBlocks, DisableAllBlocks
<1>5. CASE \E s \in Inputs : SetInput(s)
  BY <1>1, <1>5, SetInputFits
<1>6. CASE Start \/ Stop
  BY <1>1, <1>6, StartStopFits
<1> QED
  BY <1>1, <1>2, <1>3, <1>4, <1>5, <1>6 DEF Next

(* The members of the chain keep their types: blockBefore and blockAfter     *)
(* return a block of the chain or none, whatever is enabled, and no block     *)
(* and no consumer is ever given a null stream.                             *)
THEOREM TypeCorrect == Spec => []TypeOK
<1>1. Fit(chain) => TypeOK
  BY DEF Fit, TypeOK
<1> QED
  BY <1>1, InitFits, StepFits, PTL DEF Spec

(* Whatever is added, removed, enabled and disabled while the chain runs or   *)
(* while it does not, a running chain has exactly its enabled blocks started, *)
(* and a stopped one none.                                                   *)
THEOREM StartedRight == Spec => []StartedIfEnabled
<1>1. Fit(chain) => StartedIfEnabled
  BY DEF Fit, StartedIfEnabled
<1> QED
  BY <1>1, InitFits, StepFits, PTL DEF Spec

-----------------------------------------------------------------------------
(* A series of at most two blocks                                           *)

LEMMA Shapes ==
  ASSUME NEW c, Fit(c), AtMostTwo(c.states)
  PROVE  \/ Enabled(c) = {}
         \/ \E q \in DOMAIN c.links : Enabled(c) = {q}
         \/ \E q, p \in DOMAIN c.links : q < p /\ Enabled(c) = {q, p}
<1>1. \A i, j, k \in Enabled(c) : i = j \/ i = k \/ j = k
  BY DEF AtMostTwo, Enabled, Fit, IsInjective
<1>2. Enabled(c) \subseteq DOMAIN c.links /\ Enabled(c) \subseteq Nat
  BY Places
<1>3. ASSUME NEW q \in Enabled(c), NEW p \in Enabled(c), q # p
      PROVE  Enabled(c) = {q, p}
  BY <1>1, <1>3
<1>4. CASE \E q, p \in Enabled(c) : q # p
  <2>1. PICK q, p \in Enabled(c) : q # p
    BY <1>4
  <2>2. Enabled(c) = {q, p} /\ Enabled(c) = {p, q} /\ (q < p \/ p < q)
    BY <1>2, <1>3, <2>1
  <2> QED
    BY <1>2, <2>2
<1>5. CASE \A q, p \in Enabled(c) : q = p
  <2>1. ASSUME NEW q \in Enabled(c) PROVE Enabled(c) = {q}
    BY <1>5
  <2> QED
    BY <1>2, <2>1
<1> QED
  BY <1>4, <1>5

LEMMA NoneInSeries ==
  ASSUME NEW c, Enabled(c) = {}
  PROVE  Series(c) <=> c.out = c.in /\ c.consumer = c.in
BY DEF Series, Nearest

(* Which places of the list L of c hold an enabled block: one, or two.      *)
Alone(c, L, q) == L = c.links /\ Len(L) \in Nat /\ q \in 1..Len(L) /\ Enabled(c) = {q}
Pair(c, L, q, p) == /\ L = c.links /\ Len(L) \in Nat
                    /\ q \in 1..Len(L) /\ p \in 1..Len(L) /\ q < p
                    /\ Enabled(c) = {q, p}

LEMMA OneInSeries ==
  ASSUME NEW c, NEW L, NEW q, Alone(c, L, q)
  PROVE  Series(c) <=> c.reads[L[q]] = c.in /\ c.out = L[q] /\ c.consumer = L[q]
<1>1. {i \in Enabled(c) : i < q} = {} /\ {i \in Enabled(c) : i < Len(L) + 1} = {q}
  BY DEF Alone
<1>2. Nearest(c, q) = c.in /\ Nearest(c, Len(L) + 1) = L[q]
  BY <1>1, MaxOfOne DEF Nearest, Alone
<1> QED
  BY <1>2 DEF Series, Alone

LEMMA TwoInSeries ==
  ASSUME NEW c, NEW L, NEW q, NEW p, Pair(c, L, q, p)
  PROVE  Series(c) <=> /\ c.reads[L[q]] = c.in /\ c.reads[L[p]] = L[q]
                       /\ c.out = L[p] /\ c.consumer = L[p]
<1>1. /\ {i \in Enabled(c) : i < q} = {} /\ {i \in Enabled(c) : i < p} = {q}
      /\ {i \in Enabled(c) : i < Len(L) + 1} = {q, p}
  BY DEF Pair
<1>2. Max({q}) = q /\ Max({q, p}) = p
  BY MaxOfOne, MaxOfTwo DEF Pair
<1>3. /\ Nearest(c, q) = c.in /\ Nearest(c, p) = L[q]
      /\ Nearest(c, Len(L) + 1) = L[p]
  BY <1>1, <1>2 DEF Nearest, Pair
<1> QED
  BY <1>3 DEF Series, Pair

(* The places of the enabled blocks when one more, or one fewer, is enabled.  *)
LEMMA MoreEnabled ==
  ASSUME NEW c, Fit(c), NEW b \in ToSet(c.links), NEW d, d.links = c.links
  PROVE  /\ d.states = c.states \cup {b} => Enabled(d) = Enabled(c) \cup {Position(c, b)}
         /\ d.states = c.states \ {b} => Enabled(d) = Enabled(c) \ {Position(c, b)}
         /\ b \in c.states <=> Position(c, b) \in Enabled(c)
BY Placed DEF Enabled

(* What enableBlock and disableBlock wire.                                  *)
LEMMA EnableWires ==
  ASSUME NEW c, Fit(c), NEW b \in ToSet(c.links), b \notin c.states
  PROVE  LET e == EnableIn(c, b)
             u == Upstream(c, b)
             a == BlockAfter(c, b)
         IN  /\ a = NoBlock => /\ e.reads = [c.reads EXCEPT ![b] = u]
                               /\ e.out = b /\ e.consumer = b
             /\ a # NoBlock => /\ e.reads = [[c.reads EXCEPT ![a] = b] EXCEPT ![b] = u]
                               /\ e.out = c.out /\ e.consumer = c.consumer
<1> DEFINE u == Upstream(c, b)
           a == BlockAfter(c, b)
           e == EnableIn(c, b)
           r == Redirect(c, b, b)
<1>1. e = [[r EXCEPT !.reads = [@ EXCEPT ![b] = u]] EXCEPT !.states = @ \cup {b},
                      !.started = IF c.running THEN @ \cup {b} ELSE @]
  BY DEF EnableIn, SetBlockInput
<1>2. r = IF a # NoBlock THEN [c EXCEPT !.reads = [@ EXCEPT ![a] = b]]
          ELSE [c EXCEPT !.out = b, !.consumer = b]
  BY DEF Redirect, SetBlockInput, OutputChanged
<1>3. c \in Chains /\ b \in Blocks
  BY Placed DEF Fit
<1> HIDE DEF e, u, a, r
<1>4. CASE a = NoBlock
  <2>1. /\ r.reads = c.reads /\ r.out = b /\ r.consumer = b
        /\ r \in Chains
    BY <1>2, <1>3, <1>4 DEF Chains, Streams
  <2>2. e.reads = [c.reads EXCEPT ![b] = u] /\ e.out = b /\ e.consumer = b
    BY <1>1, <2>1 DEF Chains
  <2> QED
    BY <1>4, <2>2 DEF e, u, a
<1>5. CASE a # NoBlock
  <2>1. /\ r.reads = [c.reads EXCEPT ![a] = b] /\ r.out = c.out /\ r.consumer = c.consumer
        /\ r \in Chains
    BY <1>2, <1>3, <1>5, Neighbours DEF Chains, Streams, a
  <2>2. /\ e.reads = [[c.reads EXCEPT ![a] = b] EXCEPT ![b] = u]
        /\ e.out = c.out /\ e.consumer = c.consumer
    BY <1>1, <2>1 DEF Chains
  <2> QED
    BY <1>5, <2>2 DEF e, u, a
<1> QED
  BY <1>4, <1>5

Off(c, b) == [c EXCEPT !.states = @ \ {b}, !.started = @ \ {b}]

LEMMA DisableWires ==
  ASSUME NEW c, Fit(c), NEW b \in ToSet(c.links), b \in c.states
  PROVE  LET d == DisableIn(c, b)
             u == Upstream(Off(c, b), b)
             a == BlockAfter(Off(c, b), b)
         IN  /\ a = NoBlock => d.reads = c.reads /\ d.out = u /\ d.consumer = u
             /\ a # NoBlock => /\ d.reads = [c.reads EXCEPT ![a] = u]
                               /\ d.out = c.out /\ d.consumer = c.consumer
<1> DEFINE f == Off(c, b)
           u == Upstream(f, b)
           a == BlockAfter(f, b)
           d == DisableIn(c, b)
<1>1. d = Redirect(f, b, u)
  BY DEF DisableIn, Off
<1>2. d = IF a # NoBlock THEN [f EXCEPT !.reads = [@ EXCEPT ![a] = u]]
          ELSE [f EXCEPT !.out = u, !.consumer = u]
  BY <1>1 DEF Redirect, SetBlockInput, OutputChanged
<1>3. c \in Chains
  BY DEF Fit
<1> HIDE DEF d, u, a
<1>4. /\ a = NoBlock => d.reads = c.reads /\ d.out = u /\ d.consumer = u
      /\ a # NoBlock => /\ d.reads = [c.reads EXCEPT ![a] = u]
                        /\ d.out = c.out /\ d.consumer = c.consumer
  BY <1>2, <1>3 DEF Chains, Off
<1> QED
  BY <1>4 DEF d, u, a

(* With at most two blocks enabled, enableBlock keeps them in series.       *)
LEMMA EnableSeries ==
  ASSUME NEW c, Fit(c), Series(c), NEW b \in ToSet(c.links),
         AtMostTwo(c.states \cup {b})
  PROVE  Series(EnableIn(c, b))
<1>1. CASE b \in c.states
  BY <1>1 DEF EnableIn
<1>2. CASE b \notin c.states
  <2> DEFINE e == EnableIn(c, b)
             p == Position(c, b)
             L == c.links
  <2>1. /\ p \in 1..Len(L) /\ L[p] = b /\ b \in Blocks /\ Len(L) \in Nat
        /\ c.reads \in [Blocks -> Streams \cup {NoStream}] /\ NoBlock \notin Blocks
        /\ DOMAIN L = 1..Len(L)
    BY Placed, Places, ChainAssumption DEF Fit, Chains, NoBlock
  <2>2. e.links = L /\ e.in = c.in /\ e.states = c.states \cup {b}
    BY EnableFits
  <2>3. Enabled(e) = Enabled(c) \cup {p} /\ p \notin Enabled(c)
    BY <1>2, <2>2, MoreEnabled
  <2>4. /\ BlockBefore(c, b) = FirstOf(c, {i \in Enabled(c) : i < p})
        /\ BlockAfter(c, b) = FirstOf(c, {i \in Enabled(c) : i > p})
    BY DEF BlockBefore, BlockAfter
  <2>5. /\ BlockAfter(c, b) = NoBlock => /\ e.reads = [c.reads EXCEPT ![b] = Upstream(c, b)]
                                         /\ e.out = b /\ e.consumer = b
        /\ BlockAfter(c, b) # NoBlock =>
             /\ e.reads = [[c.reads EXCEPT ![BlockAfter(c, b)] = b] EXCEPT ![b] = Upstream(c, b)]
             /\ e.out = c.out /\ e.consumer = c.consumer
    BY <1>2, EnableWires
  <2>6. Enabled(c) = {} \/ \E q \in 1..Len(L) : Enabled(c) = {q}
    <3>1. \A i, j \in Enabled(c) : i = j
      BY <1>2, <2>1 DEF AtMostTwo, Enabled, Fit, IsInjective
    <3> QED
      BY <2>1, <3>1, Places
  <2> HIDE DEF e, p
  <2>7. CASE Enabled(c) = {}
    <3>1. BlockBefore(c, b) = NoBlock /\ BlockAfter(c, b) = NoBlock
      BY <2>4, <2>7 DEF FirstOf
    <3>2. e.reads[b] = c.in /\ e.out = b /\ e.consumer = b
      BY <2>1, <2>5, <3>1 DEF Upstream
    <3>3. Alone(e, L, p)
      BY <2>1, <2>2, <2>3, <2>7 DEF Alone
    <3>4. Series(e)
      BY <2>1, <2>2, <3>2, <3>3, OneInSeries
    <3> QED
      BY <3>4 DEF e
  <2>8. CASE \E q \in 1..Len(L) : Enabled(c) = {q}
    <3>1. PICK q \in 1..Len(L) : Enabled(c) = {q}
      BY <2>8
    <3>2. c.reads[L[q]] = c.in /\ c.out = L[q] /\ c.consumer = L[q]
      <4>1. Alone(c, L, q)
        BY <2>1, <3>1 DEF Alone
      <4> QED
        BY <4>1, OneInSeries
    <3>3. L[q] \in Blocks /\ q # p /\ L[q] # b
      BY <1>2, <2>1, <2>3, <3>1, Places DEF Enabled
    <3>4. Min({q}) = q
      BY MinIs
    <3>5. CASE q < p
      <4>1. {i \in Enabled(c) : i < p} = {q} /\ {i \in Enabled(c) : i > p} = {}
        BY <2>1, <3>1, <3>5
      <4>2. BlockBefore(c, b) = L[q] /\ BlockAfter(c, b) = NoBlock
        BY <2>4, <3>4, <4>1 DEF FirstOf
      <4>3. e.reads[b] = L[q] /\ e.reads[L[q]] = c.in /\ e.out = b /\ e.consumer = b
        BY <2>1, <2>5, <3>2, <3>3, <4>2 DEF Upstream
      <4>4. Pair(e, L, q, p)
        BY <2>1, <2>2, <2>3, <3>1, <3>5 DEF Pair
      <4>5. Series(e)
        BY <2>1, <2>2, <4>3, <4>4, TwoInSeries
      <4> QED
        BY <4>5 DEF e
    <3>6. CASE p < q
      <4>1. {i \in Enabled(c) : i < p} = {} /\ {i \in Enabled(c) : i > p} = {q}
        BY <2>1, <3>1, <3>6
      <4>2. BlockBefore(c, b) = NoBlock /\ BlockAfter(c, b) = L[q]
        BY <2>4, <3>4, <4>1 DEF FirstOf
      <4>3. e.reads[b] = c.in /\ e.reads[L[q]] = b /\ e.out = L[q] /\ e.consumer = L[q]
        BY <2>1, <2>5, <3>2, <3>3, <4>2 DEF Upstream
      <4>4. Pair(e, L, p, q)
        BY <2>1, <2>2, <2>3, <3>1, <3>6 DEF Pair
      <4>5. Series(e)
        BY <2>1, <2>2, <4>3, <4>4, TwoInSeries
      <4> QED
        BY <4>5 DEF e
    <3> QED
      BY <2>1, <3>3, <3>5, <3>6
  <2> QED
    BY <2>6, <2>7, <2>8
<1> QED
  BY <1>1, <1>2

(* So does disableBlock.                                                    *)
LEMMA DisableSeries ==
  ASSUME NEW c, Fit(c), Series(c), NEW b \in ToSet(c.links), AtMostTwo(c.states)
  PROVE  Series(DisableIn(c, b))
<1>1. CASE b \notin c.states
  BY <1>1 DEF DisableIn
<1>2. CASE b \in c.states
  <2> DEFINE d == DisableIn(c, b)
             p == Position(c, b)
             L == c.links
             f == Off(c, b)
  <2>1. /\ p \in 1..Len(L) /\ L[p] = b /\ b \in Blocks /\ Len(L) \in Nat
        /\ c.reads \in [Blocks -> Streams \cup {NoStream}] /\ NoBlock \notin Blocks
        /\ DOMAIN L = 1..Len(L)
    BY Placed, Places, ChainAssumption DEF Fit, Chains, NoBlock
  <2>2. d.links = L /\ d.in = c.in /\ d.states = c.states \ {b}
    BY DisableFits
  <2>3. f.links = L /\ f.in = c.in /\ f.states = c.states \ {b} /\ Position(f, b) = p
    BY DEF Fit, Chains, Position, Off
  <2>4. /\ Enabled(d) = Enabled(c) \ {p} /\ p \in Enabled(c)
        /\ Enabled(f) = Enabled(c) \ {p}
    <3> HIDE DEF f, d, p
    <3> QED
      BY <1>2, <2>2, <2>3, MoreEnabled DEF p
  <2>5. /\ BlockBefore(f, b) = FirstOf(f, {i \in Enabled(d) : i < p})
        /\ BlockAfter(f, b) = FirstOf(f, {i \in Enabled(d) : i > p})
    <3> HIDE DEF f, d, p
    <3> QED
      BY <2>3, <2>4 DEF BlockBefore, BlockAfter
  <2>6. /\ BlockAfter(f, b) = NoBlock => /\ d.reads = c.reads
                                         /\ d.out = Upstream(f, b) /\ d.consumer = Upstream(f, b)
        /\ BlockAfter(f, b) # NoBlock =>
             /\ d.reads = [c.reads EXCEPT ![BlockAfter(f, b)] = Upstream(f, b)]
             /\ d.out = c.out /\ d.consumer = c.consumer
    BY <1>2, DisableWires
  <2> HIDE DEF d, p, f
  <2>7. CASE Enabled(c) = {p}
    <3>1. Enabled(d) = {}
      BY <2>4, <2>7
    <3>2. BlockBefore(f, b) = NoBlock /\ BlockAfter(f, b) = NoBlock
      BY <2>5, <3>1 DEF FirstOf
    <3>3. d.out = c.in /\ d.consumer = c.in
      BY <2>3, <2>6, <3>2 DEF Upstream
    <3>4. Series(d)
      BY <2>2, <3>1, <3>3, NoneInSeries
    <3> QED
      BY <3>4 DEF d
  <2>8. ASSUME NEW q \in 1..Len(L), q # p, Enabled(c) = {q, p}
        PROVE  Series(d)
    <3>1. Enabled(d) = {q} /\ Min({q}) = q /\ L[q] \in Blocks
      <4>1. q \in Nat /\ L[q] \in Blocks
        BY <2>1, Places
      <4>2. Min({q}) \in {q}
        <5>1. {q} \in SUBSET Nat /\ {q} # {}
          BY <4>1
        <5> QED
          BY <5>1, MinIs
      <4> QED
        BY <2>4, <2>8, <4>1, <4>2
    <3>4. Alone(d, L, q)
      BY <2>1, <2>2, <3>1 DEF Alone
    <3>2. CASE q < p
      <4>1. c.reads[L[q]] = c.in
        <5>1. Pair(c, L, q, p)
          BY <2>1, <2>8, <3>2 DEF Pair
        <5> QED
          BY <5>1, TwoInSeries
      <4>2. {i \in Enabled(d) : i < p} = {q} /\ {i \in Enabled(d) : i > p} = {}
        BY <2>1, <3>1, <3>2
      <4>3. BlockBefore(f, b) = L[q] /\ BlockAfter(f, b) = NoBlock
        BY <2>3, <2>5, <3>1, <4>2 DEF FirstOf
      <4>4. d.reads[L[q]] = c.in /\ d.out = L[q] /\ d.consumer = L[q]
        BY <2>1, <2>6, <3>1, <4>1, <4>3 DEF Upstream
      <4> QED
        BY <2>2, <3>4, <4>4, OneInSeries
    <3>3. CASE p < q
      <4>1. c.out = L[q] /\ c.consumer = L[q]
        <5>1. Pair(c, L, p, q)
          BY <2>1, <2>8, <3>3 DEF Pair
        <5> QED
          BY <5>1, TwoInSeries
      <4>2. {i \in Enabled(d) : i < p} = {} /\ {i \in Enabled(d) : i > p} = {q}
        BY <2>1, <3>1, <3>3
      <4>3. BlockBefore(f, b) = NoBlock /\ BlockAfter(f, b) = L[q]
        BY <2>3, <2>5, <3>1, <4>2 DEF FirstOf
      <4>4. d.reads[L[q]] = c.in /\ d.out = L[q] /\ d.consumer = L[q]
        BY <2>1, <2>3, <2>6, <3>1, <4>1, <4>3 DEF Upstream
      <4> QED
        BY <2>2, <3>4, <4>4, OneInSeries
    <3> QED
      BY <2>1, <2>8, <3>2, <3>3
  <2>9. Enabled(c) = {p} \/ \E q \in 1..Len(L) : q # p /\ Enabled(c) = {q, p}
    <3>1. \/ \E q \in 1..Len(L) : Enabled(c) = {q}
          \/ \E q, r \in 1..Len(L) : q < r /\ Enabled(c) = {q, r}
      BY <2>1, <2>4, Shapes
    <3> QED
      BY <2>1, <2>4, <3>1
  <2> QED
    BY <2>7, <2>8, <2>9 DEF d
<1> QED
  BY <1>1, <1>2

(* So does enabling every block of a list of at most two, or disabling all.   *)
LEMMA AllSeries ==
  ASSUME NEW c, Fit(c), Series(c), NEW on \in BOOLEAN,
         AtMostTwo(IF on THEN ToSet(c.links) ELSE c.states)
  PROVE  Series(SetAllBlocks(c, on)) /\ AtMostTwo(SetAllBlocks(c, on).states)
<1> DEFINE n == Len(c.links)
           M == IF on THEN ToSet(c.links) ELSE c.states
<1>1. n \in Nat /\ DOMAIN c.links = 1..n
  BY Places
<1>2. PICK f : /\ f[0] = c /\ SetAllBlocks(c, on) = f[n]
               /\ \A i \in 1..n : f[i] = SetBlockEnabled(f[i - 1], c.links[i], on)
  BY SetAllIsLoop
<1> DEFINE Kept(d) == Fit(d) /\ d.links = c.links /\ Series(d) /\ d.states \subseteq M
           T == {i \in 0..n : ~Kept(f[i])}
<1> HIDE DEF n, M
<1>3. f[0] = c /\ \A i \in 1..n : f[i] = SetBlockEnabled(f[i - 1], c.links[i], on)
  BY <1>2
<1>4. ASSUME NEW i \in 1..n, Kept(f[i - 1]) PROVE Kept(f[i])
  <2> DEFINE d == f[i - 1]
             b == c.links[i]
  <2>1. Fit(d) /\ d.links = c.links /\ Series(d) /\ d.states \subseteq M
    BY <1>4
  <2>2. b \in ToSet(d.links) /\ f[i] = SetBlockEnabled(d, b, on)
    BY <1>1, <1>3, <2>1 DEF ToSet
  <2> HIDE DEF d, b
  <2>3. CASE on
    <3>1. d.states \cup {b} \subseteq M
      BY <2>1, <2>2, <2>3 DEF M
    <3>2. AtMostTwo(d.states \cup {b})
      BY <3>1 DEF AtMostTwo, M
    <3>3. f[i] = EnableIn(d, b)
      BY <2>2, <2>3 DEF SetBlockEnabled
    <3> QED
      BY <2>1, <2>2, <3>1, <3>2, <3>3, EnableFits, EnableSeries
  <2>4. CASE ~on
    <3>1. AtMostTwo(d.states)
      BY <2>1 DEF AtMostTwo, M
    <3>2. f[i] = DisableIn(d, b)
      BY <2>2, <2>4 DEF SetBlockEnabled
    <3>3. Fit(f[i]) /\ f[i].links = c.links /\ f[i].states \subseteq M
      BY <2>1, <2>2, <3>2, DisableFits
    <3>4. Series(f[i])
      BY <2>1, <2>2, <3>1, <3>2, DisableSeries
    <3> QED
      BY <3>3, <3>4
  <2> QED
    BY <2>3, <2>4
<1>5. Kept(c)
  BY DEF Fit, M
<1>6. T = {}
  <2>1. SUFFICES ASSUME T # {} PROVE FALSE
    OBVIOUS
  <2>2. PICK k \in T : \A y \in T : k <= y
    <3>1. T \in SUBSET Nat
      BY <1>1
    <3> HIDE DEF T
    <3> QED
      BY <2>1, <3>1, Least
  <2>3. k # 0
    BY <1>3, <1>5, <2>2
  <2>4. k \in 1..n /\ k - 1 \in 0..n /\ ~(k <= k - 1)
    BY <1>1, <2>2, <2>3
  <2>5. Kept(f[k - 1])
    BY <2>2, <2>4
  <2>6. Kept(f[k])
    BY <1>4, <2>4, <2>5
  <2> QED
    BY <2>2, <2>6
<1>7. Kept(f[n])
  BY <1>1, <1>6
<1> QED
  BY <1>2, <1>7 DEF AtMostTwo, M

(* A list with another block at its end, which is not enabled, or without one *)
(* that is not enabled, holds the same series.                              *)
LEMMA AddedSeries ==
  ASSUME NEW c, Fit(c), Series(c), AtMostTwo(c.states), NEW b \in Blocks, ~Exists(c, b)
  PROVE  Series(Added(c, b))
<1> DEFINE a == Added(c, b)
           L == c.links
<1>1. /\ L \in Seq(Blocks) /\ Len(L) \in Nat /\ DOMAIN L = 1..Len(L)
      /\ Enabled(c) \subseteq 1..Len(L)
  BY Places
<1>2. b \notin ToSet(L) /\ b \notin c.states
  BY Places, AddedFits DEF Exists, Contains, ToSet
<1>3. /\ Len(a.links) = Len(L) + 1 /\ a.links[Len(L) + 1] = b
      /\ \A i \in 1..Len(L) : a.links[i] = L[i]
      /\ DOMAIN a.links = 1..(Len(L) + 1)
  <2>1. a.links = Append(L, b)
    BY DEF Added, Fit, Chains
  <2> HIDE DEF a
  <2> QED
    BY <1>1, <1>2, <2>1, PushBack DEF Fit
<1>4. /\ a.states = c.states /\ a.in = c.in /\ a.out = c.out
      /\ a.reads = c.reads /\ a.consumer = c.consumer
  BY DEF Added, Fit, Chains
<1> HIDE DEF a
<1>5. Enabled(a) = Enabled(c)
  BY <1>1, <1>2, <1>3, <1>4 DEF Enabled
<1>6. CASE Enabled(c) = {}
  <2>1. c.out = c.in /\ c.consumer = c.in
    BY <1>6, NoneInSeries
  <2>2. Series(a)
    BY <1>4, <1>5, <1>6, <2>1, NoneInSeries
  <2> QED
    BY <2>2 DEF a
<1>7. ASSUME NEW q \in 1..Len(L), Enabled(c) = {q} PROVE Series(a)
  <2>1. c.reads[L[q]] = c.in /\ c.out = L[q] /\ c.consumer = L[q]
    <3>1. Alone(c, L, q)
      BY <1>1, <1>7 DEF Alone
    <3> QED
      BY <3>1, OneInSeries
  <2>2. a.links[q] = L[q] /\ Alone(a, a.links, q)
    BY <1>1, <1>3, <1>5, <1>7 DEF Alone
  <2> QED
    BY <1>4, <2>1, <2>2, OneInSeries
<1>8. ASSUME NEW q \in 1..Len(L), NEW p \in 1..Len(L), q < p, Enabled(c) = {q, p}
      PROVE  Series(a)
  <2>1. /\ c.reads[L[q]] = c.in /\ c.reads[L[p]] = L[q]
        /\ c.out = L[p] /\ c.consumer = L[p]
    <3>1. Pair(c, L, q, p)
      BY <1>1, <1>8 DEF Pair
    <3> QED
      BY <3>1, TwoInSeries
  <2>2. a.links[q] = L[q] /\ a.links[p] = L[p] /\ Pair(a, a.links, q, p)
    BY <1>1, <1>3, <1>5, <1>8 DEF Pair
  <2> QED
    BY <1>4, <2>1, <2>2, TwoInSeries
<1> QED
  BY <1>1, <1>6, <1>7, <1>8, Shapes DEF a

LEMMA RemovedSeries ==
  ASSUME NEW c, Fit(c), Series(c), AtMostTwo(c.states),
         NEW b \in ToSet(c.links), b \notin c.states
  PROVE  Series(Removed(c, b))
<1> DEFINE r == Removed(c, b)
           L == c.links
           x == Position(c, b)
           To(i) == IF i < x THEN i ELSE i - 1
<1>1. /\ L \in Seq(Blocks) /\ Len(L) \in Nat /\ DOMAIN L = 1..Len(L)
      /\ Enabled(c) \subseteq 1..Len(L)
  BY Places
<1>2. x \in 1..Len(L) /\ L[x] = b /\ x \notin Enabled(c)
  BY <1>1, Placed DEF Enabled
<1>3. /\ Len(r.links) = Len(L) - 1
      /\ \A i \in 1..(Len(L) - 1) : r.links[i] = IF i < x THEN L[i] ELSE L[i + 1]
      /\ DOMAIN r.links = 1..(Len(L) - 1)
  <2>1. r.links = RemoveAt(L, x) /\ RemoveAt(L, x) \in Seq(Blocks)
    BY <1>1, <1>2, Erased, RemovedFits DEF Fit
  <2>2. /\ Len(RemoveAt(L, x)) = Len(L) - 1
        /\ \A i \in 1..(Len(L) - 1) : RemoveAt(L, x)[i] = IF i < x THEN L[i] ELSE L[i + 1]
    <3>1. IsInjective(L) /\ x \in DOMAIN L
      BY <1>1, <1>2 DEF Fit
    <3> HIDE DEF x, L
    <3> QED
      BY <1>1, <3>1, Erased
  <2>3. DOMAIN RemoveAt(L, x) = 1..(Len(L) - 1)
    BY <2>1, <2>2
  <2> HIDE DEF r, x
  <2> QED
    BY <2>1, <2>2, <2>3
<1>4. /\ r.states = c.states /\ r.in = c.in /\ r.out = c.out
      /\ r.reads = c.reads /\ r.consumer = c.consumer
  BY DEF Removed, Fit, Chains
<1> HIDE DEF r, x
<1>5. \A i \in Enabled(c) : /\ To(i) \in 1..Len(r.links) /\ r.links[To(i)] = L[i]
                            /\ To(i) \in Enabled(r)
  <2>1. TAKE i \in Enabled(c)
  <2>2. i \in 1..Len(L) /\ i # x /\ L[i] \in c.states
    BY <1>1, <1>2 DEF Enabled
  <2>3. To(i) \in 1..(Len(L) - 1)
    BY <1>1, <1>2, <2>2
  <2>4. r.links[To(i)] = L[i]
    BY <1>1, <1>2, <1>3, <2>2, <2>3
  <2> HIDE DEF To
  <2>5. To(i) \in Enabled(r)
    BY <1>3, <1>4, <2>2, <2>3, <2>4 DEF Enabled
  <2> QED
    BY <1>3, <2>3, <2>4, <2>5
<1>6. \A j \in Enabled(r) : \E i \in Enabled(c) : j = To(i)
  <2>1. TAKE j \in Enabled(r)
  <2>2. j \in 1..(Len(L) - 1) /\ r.links[j] \in c.states
    BY <1>3, <1>4 DEF Enabled
  <2>3. CASE j < x
    <3>1. j \in Enabled(c) /\ j = To(j)
      BY <1>1, <1>2, <1>3, <2>2, <2>3 DEF Enabled
    <3> QED
      BY <3>1
  <2>4. CASE ~(j < x)
    <3>1. j + 1 \in Enabled(c) /\ j = To(j + 1)
      BY <1>1, <1>2, <1>3, <2>2, <2>4 DEF Enabled
    <3> QED
      BY <3>1
  <2> QED
    BY <2>3, <2>4
<1>7. Len(r.links) \in Nat
  BY <1>1, <1>2, <1>3
<1>8. CASE Enabled(c) = {}
  <2>1. Enabled(r) = {}
    BY <1>6, <1>8
  <2>2. c.out = c.in /\ c.consumer = c.in
    BY <1>8, NoneInSeries
  <2>3. Series(r)
    BY <1>4, <2>1, <2>2, NoneInSeries
  <2> QED
    BY <2>3 DEF r
<1>9. ASSUME NEW q \in 1..Len(L), Enabled(c) = {q} PROVE Series(r)
  <2>1. c.reads[L[q]] = c.in /\ c.out = L[q] /\ c.consumer = L[q]
    <3>1. Alone(c, L, q)
      BY <1>1, <1>9 DEF Alone
    <3> QED
      BY <3>1, OneInSeries
  <2>2. Enabled(r) = {To(q)} /\ To(q) \in 1..Len(r.links) /\ r.links[To(q)] = L[q]
    BY <1>5, <1>6, <1>9
  <2> HIDE DEF To
  <2>3. Alone(r, r.links, To(q))
    BY <1>7, <2>2 DEF Alone
  <2> QED
    BY <1>4, <2>1, <2>2, <2>3, OneInSeries
<1>10. ASSUME NEW q \in 1..Len(L), NEW p \in 1..Len(L), q < p, Enabled(c) = {q, p}
       PROVE  Series(r)
  <2>1. /\ c.reads[L[q]] = c.in /\ c.reads[L[p]] = L[q]
        /\ c.out = L[p] /\ c.consumer = L[p]
    <3>1. Pair(c, L, q, p)
      BY <1>1, <1>10 DEF Pair
    <3> QED
      BY <3>1, TwoInSeries
  <2>2. /\ Enabled(r) = {To(q), To(p)}
        /\ To(q) \in 1..Len(r.links) /\ r.links[To(q)] = L[q]
        /\ To(p) \in 1..Len(r.links) /\ r.links[To(p)] = L[p]
    BY <1>5, <1>6, <1>10
  <2>3. To(q) < To(p)
    BY <1>2, <1>10
  <2> HIDE DEF To
  <2>4. Pair(r, r.links, To(q), To(p))
    BY <1>7, <2>2, <2>3 DEF Pair
  <2> QED
    BY <1>4, <2>1, <2>2, <2>4, TwoInSeries
<1> QED
  BY <1>1, <1>8, <1>9, <1>10, Shapes DEF r

(* So does giving the chain another input.                                  *)
LEMMA SetInputSeries ==
  ASSUME Fit(chain), Series(chain), AtMostTwo(chain.states), NEW s \in Inputs, SetInput(s)
  PROVE  Series(chain') /\ chain'.states = chain.states
<1> DEFINE c == [chain EXCEPT !.in = s]
           L == chain.links
<1>0. PICK d : d = chain'
  OBVIOUS
<1>1. /\ L \in Seq(Blocks) /\ Len(L) \in Nat /\ DOMAIN L = 1..Len(L)
      /\ Enabled(chain) \subseteq 1..Len(L) /\ chain.reads \in [Blocks -> Streams \cup {NoStream}]
  BY Places DEF Fit, Chains
<1>2. /\ c \in Chains /\ c.links = L /\ c.states = chain.states /\ c.in = s
      /\ c.out = chain.out /\ c.reads = chain.reads /\ c.consumer = chain.consumer
  BY DEF Fit, Chains
<1>3. d = IF Enabled(c) = {} THEN OutputChanged(c, s)
               ELSE SetBlockInput(c, FirstOf(c, Enabled(c)), s)
  BY <1>0 DEF SetInput
<1> HIDE DEF c
<1>4. Enabled(c) = Enabled(chain)
  BY <1>2 DEF Enabled
<1>5. CASE Enabled(chain) = {}
  <2>1. d = [c EXCEPT !.out = s, !.consumer = s]
    BY <1>3, <1>4, <1>5 DEF OutputChanged
  <2>2. /\ d.links = L /\ d.states = chain.states /\ d.in = s
        /\ d.out = s /\ d.consumer = s
    BY <1>2, <2>1 DEF Chains
  <2>3. Enabled(d) = {}
    BY <1>5, <2>2 DEF Enabled
  <2> QED
    BY <1>0, <2>2, <2>3, NoneInSeries
<1>6. ASSUME NEW f \in Blocks, FirstOf(c, Enabled(c)) = f, Enabled(chain) # {}
      PROVE  /\ d.links = L /\ d.states = chain.states /\ d.in = s
             /\ d.out = chain.out /\ d.consumer = chain.consumer
             /\ d.reads = [chain.reads EXCEPT ![f] = s]
             /\ Enabled(d) = Enabled(chain)
  <2>1. d = [c EXCEPT !.reads = [@ EXCEPT ![f] = s]]
    BY <1>3, <1>4, <1>6 DEF SetBlockInput
  <2>2. /\ d.links = L /\ d.states = chain.states /\ d.in = s
        /\ d.out = chain.out /\ d.consumer = chain.consumer
        /\ d.reads = [chain.reads EXCEPT ![f] = s]
    BY <1>2, <2>1 DEF Chains
  <2> QED
    BY <2>2 DEF Enabled
<1>7. ASSUME NEW q \in 1..Len(L), Enabled(chain) = {q}
      PROVE  Series(d) /\ d.states = chain.states
  <2>1. chain.out = L[q] /\ chain.consumer = L[q]
    <3>1. Alone(chain, L, q)
      BY <1>1, <1>7 DEF Alone
    <3> QED
      BY <3>1, OneInSeries
  <2>2. Min({q}) = q /\ L[q] \in Blocks
    BY <1>1 DEF Min
  <2>3. FirstOf(c, Enabled(c)) = L[q]
    BY <1>2, <1>4, <1>7, <2>2 DEF FirstOf
  <2>4. /\ d.links = L /\ d.states = chain.states /\ d.in = s
        /\ d.out = chain.out /\ d.consumer = chain.consumer
        /\ d.reads = [chain.reads EXCEPT ![L[q]] = s]
        /\ Enabled(d) = {q}
    BY <1>6, <1>7, <2>2, <2>3
  <2>5. Alone(d, L, q)
    BY <1>1, <2>4 DEF Alone
  <2>6. d.reads[L[q]] = s
    BY <1>1, <2>2, <2>4
  <2>7. d.in = s /\ d.out = L[q] /\ d.consumer = L[q] /\ d.states = chain.states
    BY <2>1, <2>4
  <2> QED
    BY <2>5, <2>6, <2>7, OneInSeries
<1>8. ASSUME NEW q \in 1..Len(L), NEW p \in 1..Len(L), q < p, Enabled(chain) = {q, p}
      PROVE  Series(d) /\ d.states = chain.states
  <2>1. chain.reads[L[p]] = L[q] /\ chain.out = L[p] /\ chain.consumer = L[p]
    <3>1. Pair(chain, L, q, p)
      BY <1>1, <1>8 DEF Pair
    <3> QED
      BY <3>1, TwoInSeries
  <2>2. L[q] \in Blocks /\ L[p] \in Blocks /\ L[q] # L[p]
    BY <1>1, <1>8 DEF Fit, IsInjective
  <2>3. Min({q, p}) = q
    <3>1. {q, p} \in SUBSET Nat
      OBVIOUS
    <3>2. Min({q, p}) \in {q, p} /\ \A y \in {q, p} : Min({q, p}) <= y
      BY <3>1, MinIs
    <3> QED
      BY <1>8, <3>2
  <2>4. FirstOf(c, Enabled(c)) = L[q]
    BY <1>2, <1>4, <1>8, <2>3 DEF FirstOf
  <2>5. /\ d.links = L /\ d.states = chain.states /\ d.in = s
        /\ d.out = chain.out /\ d.consumer = chain.consumer
        /\ d.reads = [chain.reads EXCEPT ![L[q]] = s]
        /\ Enabled(d) = {q, p}
    BY <1>6, <1>8, <2>2, <2>4
  <2>6. Pair(d, L, q, p)
    BY <1>1, <1>8, <2>5 DEF Pair
  <2>7. d.reads[L[q]] = s /\ d.reads[L[p]] = L[q]
    BY <1>1, <2>1, <2>2, <2>5
  <2>8. d.in = s /\ d.out = L[p] /\ d.consumer = L[p] /\ d.states = chain.states
    BY <2>1, <2>5
  <2> QED
    BY <2>6, <2>7, <2>8, TwoInSeries
<1> QED
  BY <1>0, <1>1, <1>5, <1>7, <1>8, Shapes

-----------------------------------------------------------------------------
(* The series                                                               *)

InStep(c) == Fit(c) /\ Series(c) /\ AtMostTwo(c.states)

(* One more than fewer than two is at most two.                             *)
LEMMA OneMore ==
  ASSUME NEW S, IsFiniteSet(S), Cardinality(S) < 2, NEW b
  PROVE  AtMostTwo(S \cup {b})
<1>1. \A x, y \in S : x = y
  <2>1. SUFFICES ASSUME NEW x \in S, NEW y \in S, x # y PROVE FALSE
    OBVIOUS
  <2>2. IsFiniteSet(S \ {x}) /\ Cardinality(S \ {x}) = Cardinality(S) - 1
    BY FS_RemoveElement
  <2>3. /\ IsFiniteSet((S \ {x}) \ {y})
        /\ Cardinality((S \ {x}) \ {y}) = Cardinality(S \ {x}) - 1
    BY <2>1, <2>2, FS_RemoveElement
  <2>4. Cardinality(S) \in Nat /\ Cardinality((S \ {x}) \ {y}) \in Nat
    BY <2>3, FS_CardinalityType
  <2> QED
    BY <2>2, <2>3, <2>4
<1> QED
  BY <1>1 DEF AtMostTwo

LEMMA AddBlockSeries ==
  ASSUME MaxEnabled <= 2, InStep(chain), NEW b \in Blocks, NEW enable \in BOOLEAN,
         AddBlock(b, enable)
  PROVE  Series(chain') /\ AtMostTwo(chain'.states)
<1> DEFINE a == Added(chain, b)
           c == IF enable THEN EnableIn(a, b) ELSE a
<1>1. chain' = OutputChanged(c, c.out)
  BY DEF AddBlock, Added
<1>2. Fit(a) /\ b \in ToSet(a.links) /\ a.states = chain.states
  <2>1. Fit(chain) /\ ~Exists(chain, b)
    BY DEF InStep, AddBlock
  <2> QED
    BY <2>1, AddedFits DEF Added, Fit, Chains
<1>3. Series(a)
  BY AddedSeries DEF InStep, AddBlock
<1> HIDE DEF a
<1>4. enable => AtMostTwo(a.states \cup {b})
  <2>1. enable => Cardinality(chain.states) < 2
    <3>1. enable => Cardinality(chain.states) < MaxEnabled
      BY DEF AddBlock
    <3>2. Cardinality(chain.states) \in Nat
      BY FS_CardinalityType DEF InStep, Fit
    <3> QED
      BY <3>1, <3>2, ChainAssumption
  <2> QED
    BY <1>2, <2>1, OneMore DEF InStep, Fit
<1>5. Fit(c) /\ Series(c) /\ AtMostTwo(c.states)
  <2>1. CASE enable
    BY <1>2, <1>3, <1>4, <2>1, EnableFits, EnableSeries
  <2>2. CASE ~enable
    BY <1>2, <1>3, <2>2 DEF InStep
  <2> QED
    BY <2>1, <2>2
<1> HIDE DEF c
<1>6. chain' = c
  <2>1. c.consumer = c.out /\ c \in Chains
    BY <1>5 DEF Series, Fit
  <2>2. [c EXCEPT !.out = c.out, !.consumer = c.out] = c
    BY <2>1 DEF Chains
  <2> QED
    BY <1>1, <2>2 DEF OutputChanged
<1> QED
  BY <1>5, <1>6

LEMMA RemoveBlockSeries ==
  ASSUME InStep(chain), NEW b \in Blocks, RemoveBlock(b)
  PROVE  Series(chain') /\ AtMostTwo(chain'.states)
<1> DEFINE c == DisableIn(chain, b)
<1>1. chain' = Removed(c, b)
  BY DEF RemoveBlock, Removed
<1>2. b \in ToSet(chain.links)
  BY Places DEF InStep, RemoveBlock, Exists, Contains, ToSet
<1>3. Fit(c) /\ b \in ToSet(c.links) /\ c.states = chain.states \ {b}
  BY <1>2, DisableFits DEF InStep
<1>4. Series(c)
  BY <1>2, DisableSeries DEF InStep
<1> HIDE DEF c
<1>5. AtMostTwo(c.states)
  BY <1>3 DEF InStep, AtMostTwo
<1>6. Series(Removed(c, b))
  BY <1>3, <1>4, <1>5, RemovedSeries
<1>7. Removed(c, b).states = c.states
  BY <1>3 DEF Removed, Fit, Chains
<1> QED
  BY <1>1, <1>5, <1>6, <1>7

LEMMA SwitchBlockSeries ==
  ASSUME MaxEnabled <= 2, InStep(chain), NEW b \in Blocks, EnableBlock(b) \/ DisableBlock(b)
  PROVE  Series(chain') /\ AtMostTwo(chain'.states)
<1>1. b \in ToSet(chain.links)
  BY Places DEF InStep, EnableBlock, DisableBlock, Exists, Contains, ToSet
<1>2. CASE EnableBlock(b)
  <2>1. Cardinality(chain.states) \in Nat
    BY FS_CardinalityType DEF InStep, Fit
  <2>2. Cardinality(chain.states) < 2
    BY <1>2, <2>1, ChainAssumption DEF EnableBlock
  <2>3. AtMostTwo(chain.states \cup {b})
    BY <2>2, OneMore DEF InStep, Fit
  <2>4. chain' = EnableIn(chain, b)
    BY <1>2 DEF EnableBlock, SetBlockEnabled
  <2> QED
    BY <1>1, <2>3, <2>4, EnableFits, EnableSeries DEF InStep
<1>3. CASE DisableBlock(b)
  <2>1. chain' = DisableIn(chain, b)
    BY <1>3 DEF DisableBlock, SetBlockEnabled
  <2>2. AtMostTwo(chain.states \ {b})
    BY DEF InStep, AtMostTwo
  <2> QED
    BY <1>1, <2>1, <2>2, DisableFits, DisableSeries DEF InStep
<1> QED
  BY <1>2, <1>3

LEMMA SwitchAllSeries ==
  ASSUME MaxEnabled <= 2, InStep(chain), EnableAllBlocks \/ DisableAllBlocks
  PROVE  Series(chain') /\ AtMostTwo(chain'.states)
<1>1. CASE EnableAllBlocks
  <2>1. /\ Len(chain.links) \in Nat /\ DOMAIN chain.links = 1..Len(chain.links)
        /\ Len(chain.links) <= 2
    BY <1>1, Places, ChainAssumption DEF InStep, EnableAllBlocks
  <2>2. AtMostTwo(ToSet(chain.links))
    <3>1. DOMAIN chain.links \subseteq {1, 2}
      BY <2>1
    <3> QED
      BY <3>1 DEF AtMostTwo, ToSet
  <2> QED
    BY <1>1, <2>2, AllSeries DEF InStep, EnableAllBlocks
<1>2. CASE DisableAllBlocks
  BY <1>2, AllSeries DEF InStep, DisableAllBlocks
<1> QED
  BY <1>1, <1>2

LEMMA StartStopSeries ==
  ASSUME InStep(chain), Start \/ Stop
  PROVE  Series(chain') /\ AtMostTwo(chain'.states)
<1>1. /\ chain'.links = chain.links /\ chain'.states = chain.states /\ chain'.in = chain.in
      /\ chain'.out = chain.out /\ chain'.reads = chain.reads /\ chain'.consumer = chain.consumer
  BY DEF InStep, Fit, Chains, Start, Stop
<1>2. Enabled(chain') = Enabled(chain)
  BY <1>1 DEF Enabled
<1> QED
  BY <1>1, <1>2 DEF InStep, Series, Nearest

LEMMA InitInStep == Init => InStep(chain)
<1>1. SUFFICES ASSUME Init PROVE InStep(chain)
  OBVIOUS
<1>2. /\ chain.links = <<>> /\ chain.states = {}
      /\ chain.out = chain.in /\ chain.consumer = chain.in
  BY <1>1 DEF Init
<1>3. Enabled(chain) = {}
  BY <1>2 DEF Enabled
<1> QED
  BY <1>1, <1>2, <1>3, InitFits, NoneInSeries DEF InStep, AtMostTwo

LEMMA StepInStep == MaxEnabled <= 2 /\ InStep(chain) /\ [Next]_vars => InStep(chain)'
<1>1. SUFFICES ASSUME MaxEnabled <= 2, InStep(chain), [Next]_vars
               PROVE  Series(chain') /\ AtMostTwo(chain'.states)
  BY StepFits DEF InStep
<1>2. CASE UNCHANGED vars
  BY <1>1, <1>2 DEF vars, InStep
<1>3. CASE \E b \in Blocks : \/ \E enable \in BOOLEAN : AddBlock(b, enable)
                             \/ RemoveBlock(b) \/ EnableBlock(b) \/ DisableBlock(b)
  BY <1>1, <1>3, AddBlockSeries, RemoveBlockSeries, SwitchBlockSeries
<1>4. CASE EnableAllBlocks \/ DisableAllBlocks
  BY <1>1, <1>4, SwitchAllSeries
<1>5. CASE \E s \in Inputs : SetInput(s)
  BY <1>1, <1>5, SetInputSeries DEF InStep
<1>6. CASE Start \/ Stop
  BY <1>1, <1>6, StartStopSeries
<1> QED
  BY <1>1, <1>2, <1>3, <1>4, <1>5, <1>6 DEF Next

(* As long as no more than two blocks are enabled at once, each reads what    *)
(* the one before it in the list writes, the first the chain's input, and the *)
(* consumer the last one's output, after any sequence of operations.  With    *)
(* three it is false: blockBefore returns the first enabled block of the list.*)
THEOREM SeriesOfTwo == MaxEnabled <= 2 => (Spec => []InSeries)
<1>1. InStep(chain) => InSeries
  BY DEF InStep, InSeries
<1>2. SUFFICES ASSUME MaxEnabled <= 2 PROVE Spec => []InSeries
  OBVIOUS
<1>3. InStep(chain) /\ [Next]_vars => InStep(chain)'
  BY <1>2, StepInStep
<1> QED
  BY <1>1, <1>3, InitInStep, PTL DEF Spec
=============================================================================
