---------------------------- MODULE StreamsLists -----------------------------
(***************************************************************************)
(* Proofs about the lists of Streams, and so about ChunkedBuffer: for      *)
(* every size of a chunk, every sequence of calls and whatever the rows    *)
(* are, a list gives what was put into it.                                 *)
(***************************************************************************)
EXTENDS Streams, SequenceTheorems, WellFoundedInduction, TLAPS

-----------------------------------------------------------------------------
(* Induction over a set, which has no operator to instantiate.             *)
LEMMA LeastNumber ==
    ASSUME NEW T \in SUBSET Nat, T # {}
    PROVE  \E x \in T : \A y \in T : x <= y
<1> DEFINE R == {ss \in Nat \X Nat : ss[1] < ss[2]}
<1>1. IsWellFoundedOn(R, Nat)
  BY NatLessThanWellFounded DEF OpToRel
<1>2. \A x, y \in Nat : <<y, x>> \in R <=> y < x
  OBVIOUS
<1> HIDE DEF R
<1>3. PICK x \in T : \A y \in T : ~(<<y, x>> \in R)
  BY <1>1, WFMin
<1>4. \A y \in T : ~(y < x)
  BY <1>2, <1>3
<1> QED BY <1>4

LEMMA Induction ==
    ASSUME NEW S, 0 \in S, \A n \in Nat : n \in S => n + 1 \in S
    PROVE  Nat \subseteq S
<1> DEFINE T == Nat \ S
<1> SUFFICES ASSUME T # {} PROVE FALSE
  OBVIOUS
<1>1. PICK x \in T : \A y \in T : x <= y
  BY LeastNumber
<1>2. x \in Nat /\ x # 0
  OBVIOUS
<1>3. x - 1 \in Nat /\ x - 1 \notin T
  BY <1>1, <1>2
<1>4. x - 1 \in S /\ (x - 1) + 1 = x
  BY <1>2, <1>3
<1> QED BY <1>3, <1>4

LEMMA Times ==
    ASSUME NEW k \in Nat, NEW i \in Nat, NEW j \in Nat
    PROVE  /\ i * k \in Nat
           /\ (i + 1) * k = i * k + k
           /\ i <= j => i * k <= j * k
OBVIOUS

(* An index is a chunk and a slot of it, which \div and % give.            *)
LEMMA DivMod ==
    ASSUME NEW k \in Nat \ {0}, NEW q \in Nat, NEW r \in 0..(k - 1)
    PROVE  (q * k + r) \div k = q /\ (q * k + r) % k = r
OBVIOUS

LEMMA Quotient ==
    ASSUME NEW k \in Nat \ {0}, NEW i \in Nat
    PROVE  \E q \in Nat : \E r \in 0..(k - 1) : i = q * k + r
<1> DEFINE S == {n \in Nat : \E q \in Nat : \E r \in 0..(k - 1) : n = q * k + r}
<1>1. 0 \in S
  <2>1. 0 = 0 * k + 0 /\ 0 \in 0..(k - 1)
    OBVIOUS
  <2> QED BY <2>1
<1>2. ASSUME NEW n \in Nat, n \in S PROVE n + 1 \in S
  <2>1. PICK q \in Nat : \E r \in 0..(k - 1) : n = q * k + r
    BY <1>2
  <2>2. PICK r \in 0..(k - 1) : n = q * k + r
    BY <2>1
  <2>3. q * k \in Nat /\ (q + 1) * k = q * k + k
    BY Times
  <2>4. CASE r = k - 1
    <3> DEFINE p == q + 1
    <3>1. n + 1 = p * k + 0 /\ p \in Nat /\ 0 \in 0..(k - 1)
      BY <2>2, <2>3, <2>4
    <3> HIDE DEF p
    <3> QED BY <3>1
  <2>5. CASE r # k - 1
    <3> DEFINE p == r + 1
    <3>1. n + 1 = q * k + p /\ p \in 0..(k - 1)
      BY <2>2, <2>3, <2>5
    <3> HIDE DEF p
    <3> QED BY <3>1
  <2> QED BY <2>4, <2>5
<1> HIDE DEF S
<1>3. i \in S
  BY <1>1, <1>2, Induction
<1> QED BY <1>3 DEF S

(* What FlattenSeq's recursion gives, for the function that satisfies it.  *)
LEMMA FlattenIs ==
    ASSUME NEW s, Len(s) \in Nat \ {0}, NEW g,
           g = [i \in 1..Len(s) |-> IF i = 1 THEN s[i] ELSE g[i-1] \o s[i]]
    PROVE  FlattenSeq(s) = g[Len(s)]
<1> DEFINE n == Len(s)
           Satisfies(f) == f = [i \in 1..n |-> IF i = 1 THEN s[i] ELSE f[i-1] \o s[i]]
           flatten == CHOOSE f : Satisfies(f)
<1>1. FlattenSeq(s) = flatten[n]
  BY DEF FlattenSeq
<1>2. Satisfies(flatten)
  <2>1. Satisfies(g)
    OBVIOUS
  <2> HIDE DEF Satisfies
  <2> QED BY <2>1
<1> DEFINE S == {m \in Nat : m + 1 \in 1..n => flatten[m + 1] = g[m + 1]}
<1> HIDE DEF flatten
<1>3. 0 \in S
  <2>1. 1 \in 1..n
    OBVIOUS
  <2>2. flatten[1] = s[1] /\ g[1] = s[1]
    BY <1>2, <2>1
  <2> QED BY <2>2
<1>4. ASSUME NEW m \in Nat, m \in S PROVE m + 1 \in S
  <2> SUFFICES ASSUME (m + 1) + 1 \in 1..n PROVE flatten[(m + 1) + 1] = g[(m + 1) + 1]
    BY DEF S
  <2>1. m + 1 \in 1..n /\ ((m + 1) + 1) - 1 = m + 1 /\ (m + 1) + 1 # 1
    OBVIOUS
  <2>2. flatten[m + 1] = g[m + 1]
    BY <1>4, <2>1
  <2>3. flatten[(m + 1) + 1] = flatten[m + 1] \o s[(m + 1) + 1]
    BY <1>2, <2>1
  <2>4. g[(m + 1) + 1] = g[m + 1] \o s[(m + 1) + 1]
    BY <2>1
  <2> QED BY <2>2, <2>3, <2>4
<1>5. n - 1 \in Nat /\ (n - 1) + 1 = n /\ n \in 1..n
  OBVIOUS
<1> HIDE DEF S, n
<1>6. n - 1 \in S
  BY <1>3, <1>4, <1>5, Induction
<1>7. flatten[n] = g[n]
  BY <1>5, <1>6 DEF S
<1> QED BY <1>1, <1>7 DEF n
-----------------------------------------------------------------------------
(* A list holds h, a sequence of whatever rows: its last chunk has         *)
(* current_chunk_count of them, the others are full, and the slots that    *)
(* were built have the rows of h in order.                                 *)
IsSequence(h) == \E S : h \in Seq(S)
IsBuffer(b) ==
    b = [chunks |-> b.chunks, current_chunk_count |-> b.current_chunk_count,
         total_size |-> b.total_size]
HasChunks(b) == \E W : b.chunks \in Seq([Slots -> W])
Filled(b, h) ==
    \A c \in 1..Len(b.chunks) : \A i \in 0..(CountInChunk(b, c) - 1) :
        b.chunks[c][i] = h[(c - 1) * ChunkSize + i + 1]
FillsChunks(b, h) ==
    /\ IsBuffer(b) /\ HasChunks(b) /\ IsSequence(h)
    /\ b.total_size = Len(h) /\ Filled(b, h)
InLastChunk(b, h) == Len(h) = (Len(b.chunks) - 1) * ChunkSize + b.current_chunk_count
HasRoom(b, h) ==
    /\ FillsChunks(b, h) /\ InLastChunk(b, h)
    /\ Len(b.chunks) # 0 /\ b.current_chunk_count \in 0..(ChunkSize - 1)
Holds(b, h) ==
    /\ FillsChunks(b, h)
    /\ IF Len(b.chunks) = 0 THEN b.current_chunk_count = 0 /\ Len(h) = 0
       ELSE InLastChunk(b, h) /\ b.current_chunk_count \in 1..ChunkSize

LEMMA Appended ==
    ASSUME NEW h, IsSequence(h), NEW x, NEW g, g = Append(h, x)
    PROVE  /\ IsSequence(g) /\ Len(h) \in Nat /\ Len(g) = Len(h) + 1
           /\ \A i \in 1..Len(h) : g[i] = h[i]
           /\ g[Len(h) + 1] = x
<1>1. PICK S : h \in Seq(S)
  BY DEF IsSequence
<1> DEFINE T == S \cup {x}
<1>2. h \in Seq(T) /\ x \in T
  BY <1>1, SeqMonotonic
<1> HIDE DEF T
<1>3. g \in Seq(T) /\ Len(h) \in Nat
  BY <1>2
<1> QED BY <1>2, <1>3 DEF IsSequence

LEMMA SizesOf ==
    ASSUME NEW b, NEW h, FillsChunks(b, h)
    PROVE  Len(b.chunks) \in Nat /\ Len(h) \in Nat
BY LenProperties DEF FillsChunks, HasChunks, IsSequence

(* emplace_back: a new chunk, when there is none or the last is full.      *)
LEMMA AllocatedHasRoom ==
    ASSUME NEW b, NEW h, Holds(b, h), b.chunks = << >> \/ b.current_chunk_count = ChunkSize
    PROVE  HasRoom(Allocated(b), h)
<1> DEFINE a == Allocated(b)
           fresh == [i \in Slots |-> Raw]
           n == Len(b.chunks)
<1>1. FillsChunks(b, h) /\ ChunkSize \in Nat \ {0}
  BY ChunkSizeAssumption DEF Holds
<1>2. /\ a.chunks = Append(b.chunks, fresh) /\ a.current_chunk_count = 0
      /\ a.total_size = b.total_size /\ IsBuffer(a)
  <2>1. PICK cs, cc, ts : b = [chunks |-> cs, current_chunk_count |-> cc, total_size |-> ts]
    BY <1>1 DEF FillsChunks, IsBuffer
  <2>2. b.chunks = cs /\ b.total_size = ts
    BY <2>1
  <2>3. a = [b EXCEPT !.chunks = Append(cs, fresh), !.current_chunk_count = 0]
    BY <2>2 DEF Allocated
  <2> DEFINE new == Append(cs, fresh)
  <2> HIDE DEF a, new
  <2>4. a = [chunks |-> new, current_chunk_count |-> 0, total_size |-> ts]
    BY <2>1, <2>3 DEF new
  <2> QED BY <2>2, <2>4 DEF IsBuffer, new
<1>3. PICK W : b.chunks \in Seq([Slots -> W])
  BY <1>1 DEF FillsChunks, HasChunks
<1> DEFINE V == W \cup {Raw}
<1>4. b.chunks \in Seq([Slots -> V]) /\ fresh \in [Slots -> V]
  <2>1. [Slots -> W] \subseteq [Slots -> V]
    OBVIOUS
  <2>2. fresh \in [Slots -> V]
    OBVIOUS
  <2> HIDE DEF V, fresh
  <2> QED BY <1>3, <2>1, <2>2, SeqMonotonic
<1> HIDE DEF V, fresh, a
<1>5. /\ a.chunks \in Seq([Slots -> V]) /\ n \in Nat /\ Len(a.chunks) = n + 1
      /\ \A c \in 1..n : a.chunks[c] = b.chunks[c]
  BY <1>2, <1>4
<1>6. Filled(a, h)
  <2> SUFFICES ASSUME NEW c \in 1..(n + 1), NEW i \in 0..(CountInChunk(a, c) - 1)
               PROVE  a.chunks[c][i] = h[(c - 1) * ChunkSize + i + 1]
    BY <1>5 DEF Filled
  <2>1. c \in 1..n /\ i \in 0..(ChunkSize - 1)
    BY <1>1, <1>2, <1>5 DEF CountInChunk
  <2>2. i \in 0..(CountInChunk(b, c) - 1)
    BY <1>5, <2>1 DEF CountInChunk, Holds
  <2> QED BY <1>1, <1>5, <2>1, <2>2 DEF FillsChunks, Filled
<1>7. InLastChunk(a, h)
  <2>1. CASE n = 0
    <3>1. Len(h) = 0 /\ (n + 1 - 1) * ChunkSize + 0 = 0
      BY <1>1, <2>1 DEF Holds
    <3> QED BY <1>2, <1>5, <3>1 DEF InLastChunk
  <2>2. CASE n # 0
    <3>1. b.current_chunk_count = ChunkSize /\ Len(h) = (n - 1) * ChunkSize + ChunkSize
      BY <1>4, <2>2 DEF Holds, InLastChunk
    <3>2. ((n - 1) + 1) * ChunkSize = (n - 1) * ChunkSize + ChunkSize
      BY <1>1, <1>5, <2>2, Times
    <3>3. (n - 1) * ChunkSize \in Nat
      BY <1>1, <1>5, <2>2, Times
    <3>4. (n + 1) - 1 = (n - 1) + 1
      BY <1>5
    <3> HIDE DEF n
    <3> QED BY <1>1, <1>2, <1>5, <3>1, <3>2, <3>3, <3>4 DEF InLastChunk
  <2> QED BY <2>1, <2>2
<1>8. HasChunks(a) /\ a.total_size = Len(h) /\ IsSequence(h)
  BY <1>1, <1>2, <1>5 DEF HasChunks, FillsChunks
<1>9. Len(a.chunks) # 0 /\ a.current_chunk_count \in 0..(ChunkSize - 1)
  BY <1>1, <1>2, <1>5
<1> QED BY <1>2, <1>6, <1>7, <1>8, <1>9 DEF HasRoom, FillsChunks, a

(* ... and the row in the slot after the last.                             *)
LEMMA BuiltHolds ==
    ASSUME NEW b, NEW h, HasRoom(b, h), NEW x
    PROVE  Holds(Built(b, x), Append(h, x))
<1> DEFINE a == Built(b, x)
           g == Append(h, x)
           n == Len(b.chunks)
           k == b.current_chunk_count
<1>1. /\ FillsChunks(b, h) /\ ChunkSize \in Nat \ {0} /\ n \in Nat \ {0} /\ Len(h) \in Nat
      /\ k \in 0..(ChunkSize - 1) /\ Len(h) = (n - 1) * ChunkSize + k
  BY ChunkSizeAssumption, SizesOf DEF HasRoom, InLastChunk
<1>2. PICK W : b.chunks \in Seq([Slots -> W])
  BY <1>1 DEF FillsChunks, HasChunks
<1> DEFINE last == [b.chunks[n] EXCEPT ![k] = x]
           V == W \cup {x}
<1>3. /\ a.chunks = [b.chunks EXCEPT ![n] = last] /\ a.current_chunk_count = k + 1
      /\ a.total_size = b.total_size + 1 /\ IsBuffer(a)
  <2>1. PICK cs, cc, ts : b = [chunks |-> cs, current_chunk_count |-> cc, total_size |-> ts]
    BY <1>1 DEF FillsChunks, IsBuffer
  <2>2. b.chunks = cs /\ b.total_size = ts /\ k = cc
    BY <2>1
  <2> DEFINE new == [cs EXCEPT ![n] = last]
  <2>3. a = [b EXCEPT !.chunks = new, !.current_chunk_count = cc + 1, !.total_size = ts + 1]
    BY <2>2 DEF Built
  <2> HIDE DEF a, new, n, k, last
  <2>4. a = [chunks |-> new, current_chunk_count |-> cc + 1, total_size |-> ts + 1]
    BY <2>1, <2>3
  <2> QED BY <2>2, <2>4 DEF IsBuffer, new
<1>4. b.chunks[n] \in [Slots -> W]
  BY <1>1, <1>2, ElementOfSeq
<1>5. last \in [Slots -> V] /\ last[k] = x /\ \A i \in Slots : i # k => last[i] = b.chunks[n][i]
  BY <1>1, <1>4 DEF Slots
<1>6. b.chunks \in Seq([Slots -> V])
  <2>1. [Slots -> W] \subseteq [Slots -> V]
    OBVIOUS
  <2> HIDE DEF V
  <2> QED BY <1>2, <2>1, SeqMonotonic
<1> HIDE DEF V, last, a, g
<1>7. /\ a.chunks \in Seq([Slots -> V]) /\ Len(a.chunks) = n /\ a.chunks[n] = last
      /\ \A c \in 1..n : c # n => a.chunks[c] = b.chunks[c]
  BY <1>1, <1>3, <1>5, <1>6, ExceptSeq
<1>8. /\ IsSequence(g) /\ Len(g) = Len(h) + 1 /\ g[Len(h) + 1] = x
      /\ \A i \in 1..Len(h) : g[i] = h[i]
  <2>1. IsSequence(h) /\ g = Append(h, x)
    BY <1>1 DEF FillsChunks, g
  <2>2. /\ IsSequence(g) /\ Len(g) = Len(h) + 1 /\ g[Len(h) + 1] = x
    BY <2>1, Appended
  <2>3. \A i \in 1..Len(h) : g[i] = h[i]
    BY <2>1, Appended
  <2> QED BY <2>2, <2>3
<1>9. Filled(a, g)
  <2> SUFFICES ASSUME NEW c \in 1..n, NEW i \in 0..(CountInChunk(a, c) - 1)
               PROVE  a.chunks[c][i] = g[(c - 1) * ChunkSize + i + 1]
    BY <1>7 DEF Filled
  <2> DEFINE p == (c - 1) * ChunkSize
             e == (n - 1) * ChunkSize
  <2>1. /\ p \in Nat /\ e \in Nat
        /\ c # n => p + ChunkSize <= e
    <3>1. p \in Nat /\ e \in Nat /\ c * ChunkSize = p + ChunkSize
      <4>1. c - 1 \in Nat /\ n - 1 \in Nat /\ (c - 1) + 1 = c
        BY <1>1
      <4> QED BY <1>1, <4>1, Times
    <3>2. c # n => c * ChunkSize <= e
      <4>1. c \in Nat /\ n - 1 \in Nat /\ (c # n => c <= n - 1)
        BY <1>1
      <4> QED BY <1>1, <4>1, Times
    <3> HIDE DEF p, e
    <3> QED BY <3>1, <3>2
  <2> HIDE DEF p, e
  <2>2. Len(h) = e + k
    BY <1>1 DEF e
  <2>3. CASE c = n /\ i = k
    <3>1. p + i + 1 = Len(h) + 1
      BY <2>2, <2>3 DEF p, e
    <3> QED BY <1>5, <1>7, <1>8, <2>3, <3>1 DEF p
  <2>4. CASE c = n /\ i # k
    <3>1. i \in 0..(k - 1) /\ i \in Slots /\ p = e
      BY <1>1, <1>3, <1>7, <2>4 DEF CountInChunk, Slots, p, e
    <3>2. i \in 0..(CountInChunk(b, c) - 1)
      BY <2>4, <3>1 DEF CountInChunk
    <3>3. b.chunks[c][i] = h[p + i + 1]
      BY <1>1, <3>2 DEF FillsChunks, Filled, p
    <3>4. p + i + 1 \in 1..Len(h)
      <4>1. k \in Nat /\ i \in Nat /\ i + 1 <= k
        BY <1>1, <3>1
      <4> HIDE DEF k, n
      <4> QED BY <2>1, <2>2, <3>1, <4>1
    <3> QED BY <1>5, <1>7, <1>8, <2>4, <3>1, <3>3, <3>4 DEF p
  <2>5. CASE c # n
    <3>1. i \in 0..(ChunkSize - 1)
      BY <1>7, <2>5 DEF CountInChunk
    <3>2. i \in 0..(CountInChunk(b, c) - 1)
      BY <2>5, <3>1 DEF CountInChunk
    <3>3. b.chunks[c][i] = h[p + i + 1]
      BY <1>1, <3>2 DEF FillsChunks, Filled, p
    <3>4. p + i + 1 \in 1..Len(h)
      <4>1. k \in Nat /\ ChunkSize \in Nat /\ i \in Nat /\ i + 1 <= ChunkSize
        BY <1>1, <3>1
      <4>2. p + ChunkSize <= e
        BY <2>1, <2>5
      <4> HIDE DEF k, n
      <4> QED BY <2>1, <2>2, <4>1, <4>2
    <3> QED BY <1>7, <1>8, <2>5, <3>3, <3>4 DEF p
  <2> QED BY <2>3, <2>4, <2>5
<1>10. a.total_size = Len(g) /\ HasChunks(a)
  BY <1>1, <1>3, <1>7, <1>8 DEF FillsChunks, HasChunks
<1>11. InLastChunk(a, g) /\ a.current_chunk_count \in 1..ChunkSize
  <2> DEFINE e == (n - 1) * ChunkSize
  <2>1. e \in Nat /\ Len(h) = e + k
    <3>1. n - 1 \in Nat /\ ChunkSize \in Nat
      BY <1>1
    <3>2. e \in Nat
      BY <3>1, Times
    <3>3. Len(h) = e + k
      BY <1>1
    <3> HIDE DEF e, k
    <3> QED BY <3>2, <3>3
  <2>2. InLastChunk(a, g) <=> Len(g) = e + a.current_chunk_count
    BY <1>7 DEF InLastChunk
  <2>3. /\ Len(g) = Len(h) + 1 /\ a.current_chunk_count = k + 1
        /\ k \in Nat /\ ChunkSize \in Nat /\ k < ChunkSize
    BY <1>1, <1>3, <1>8
  <2> HIDE DEF e, k, n
  <2>4. Len(g) = e + (k + 1)
    BY <2>1, <2>3
  <2>5. k + 1 \in 1..ChunkSize
    BY <2>3
  <2> QED BY <2>2, <2>3, <2>4, <2>5
<1> QED BY <1>1, <1>3, <1>7, <1>8, <1>9, <1>10, <1>11 DEF Holds, FillsChunks, a, g

LEMMA EmplaceBackHolds ==
    ASSUME NEW b, NEW h, Holds(b, h), NEW x
    PROVE  Holds(EmplaceBack(b, x), Append(h, x))
<1>1. CASE b.chunks = << >> \/ b.current_chunk_count = ChunkSize
  BY <1>1, AllocatedHasRoom, BuiltHolds DEF EmplaceBack
<1>2. CASE ~(b.chunks = << >> \/ b.current_chunk_count = ChunkSize)
  <2>1. Len(b.chunks) # 0
    <3>1. PICK W : b.chunks \in Seq(W)
      BY DEF Holds, FillsChunks, HasChunks
    <3> QED BY <1>2, <3>1, EmptySeq
  <2>2. HasRoom(b, h)
    BY <1>2, <2>1, ChunkSizeAssumption DEF Holds, HasRoom
  <2> QED BY <1>2, <2>2, BuiltHolds DEF EmplaceBack
<1> QED BY <1>1, <1>2
(* Nothing is in a fresh, a cleared or a moved-from list.                 *)
LEMMA EmptyHolds ==
    ASSUME NEW b, IsBuffer(b)
    PROVE  Holds(Buffer, << >>) /\ Holds(Cleared(b), << >>) /\ Holds(MovedFrom(b), << >>)
<1>1. Cleared(b) = Buffer
  BY DEF Cleared, Buffer
<1>2. MovedFrom(b) = Buffer
  <2>1. PICK cs, cc, ts : b = [chunks |-> cs, current_chunk_count |-> cc, total_size |-> ts]
    BY DEF IsBuffer
  <2> DEFINE a == MovedFrom(b)
  <2>2. a = [b EXCEPT !.chunks = << >>, !.current_chunk_count = 0, !.total_size = 0]
    BY DEF MovedFrom
  <2> HIDE DEF a
  <2>3. a = [chunks |-> << >>, current_chunk_count |-> 0, total_size |-> 0]
    BY <2>1, <2>2
  <2> QED BY <2>3 DEF Buffer, a
<1>3. IsBuffer(Buffer) /\ HasChunks(Buffer) /\ IsSequence(<< >>)
  <2>1. Buffer.chunks = << >> /\ IsBuffer(Buffer)
    BY DEF Buffer, IsBuffer
  <2>2. << >> \in Seq([Slots -> {}]) /\ << >> \in Seq({})
    OBVIOUS
  <2> QED BY <2>1, <2>2 DEF HasChunks, IsSequence
<1>4. Buffer.current_chunk_count = 0 /\ Len(Buffer.chunks) = 0 /\ Buffer.total_size = Len(<< >>)
      /\ Len(<< >>) = 0
  BY DEF Buffer
<1>5. Filled(Buffer, << >>)
  BY <1>4 DEF Filled
<1>6. Holds(Buffer, << >>)
  BY <1>3, <1>4, <1>5 DEF Holds, FillsChunks
<1> QED BY <1>1, <1>2, <1>6

(* Where the index of a row is.                                            *)
LEMMA RowAt ==
    ASSUME NEW b, NEW h, Holds(b, h), NEW i \in 0..(Len(h) - 1)
    PROVE  At(b, i) = h[i + 1]
<1> DEFINE n == Len(b.chunks)
           k == b.current_chunk_count
           K == ChunkSize
<1>1. FillsChunks(b, h) /\ K \in Nat \ {0} /\ n \in Nat /\ Len(h) \in Nat
  BY ChunkSizeAssumption, SizesOf DEF Holds
<1>2. n # 0
  BY <1>1 DEF Holds
<1>3. k \in 1..K /\ Len(h) = (n - 1) * K + k
  BY <1>2 DEF Holds, InLastChunk
<1>4. PICK q \in Nat : \E r \in 0..(K - 1) : i = q * K + r
  <2>1. i \in Nat
    BY <1>1
  <2> QED BY <1>1, <2>1, Quotient
<1>5. PICK r \in 0..(K - 1) : i = q * K + r
  BY <1>4
<1>6. i \div K = q /\ i % K = r
  BY <1>1, <1>5, DivMod
<1> DEFINE e == (n - 1) * K
           p == q * K
<1>7. /\ p \in Nat /\ e \in Nat
      /\ q <= n - 1 => p <= e
      /\ q < n - 1 => p + K <= e
      /\ n <= q => e + K <= p
  <2>1. n - 1 \in Nat /\ (n - 1) + 1 = n /\ q + 1 \in Nat
    BY <1>1, <1>2
  <2>2. /\ p \in Nat /\ e \in Nat /\ n * K = e + K /\ (q + 1) * K = p + K
        /\ q <= n - 1 => p <= e
        /\ q + 1 <= n - 1 => (q + 1) * K <= e
        /\ n <= q => n * K <= p
    BY <1>1, <2>1, Times
  <2> HIDE DEF p, e
  <2> QED BY <1>1, <2>2
<1> HIDE DEF p, e, n, k
<1>8. i = p + r /\ Len(h) = e + k
  BY <1>3, <1>5 DEF p, e
<1>9. q + 1 \in 1..n
  BY <1>1, <1>3, <1>7, <1>8
<1>10. r \in 0..(CountInChunk(b, q + 1) - 1)
  <2>1. CASE q + 1 = n
    <3>1. p = e
      BY <1>1, <2>1 DEF p, e
    <3>2. r < k
      BY <1>1, <1>3, <1>7, <1>8, <3>1
    <3> QED BY <1>1, <1>3, <2>1, <3>2 DEF CountInChunk, n, k
  <2>2. CASE q + 1 # n
    BY <2>2 DEF CountInChunk, n
  <2> QED BY <2>1, <2>2
<1>11. b.chunks[q + 1][r] = h[((q + 1) - 1) * K + r + 1]
  BY <1>1, <1>9, <1>10 DEF FillsChunks, Filled, n
<1>12. ((q + 1) - 1) * K + r + 1 = i + 1
  <2>1. (q + 1) - 1 = q
    OBVIOUS
  <2> QED BY <1>5, <2>1
<1> QED BY <1>6, <1>11, <1>12 DEF At

LEMMA IteratedIs ==
    ASSUME NEW b, NEW h, Holds(b, h)
    PROVE  Iterated(b) = h
<1>1. b.total_size = Len(h) /\ Len(h) \in Nat
  BY SizesOf DEF Holds, FillsChunks
<1>2. h = [i \in 1..Len(h) |-> h[i]]
  <2>1. PICK S : h \in Seq(S)
    BY DEF Holds, FillsChunks, IsSequence
  <2> QED BY <2>1
<1>3. \A i \in 1..Len(h) : At(b, i - 1) = h[i]
  <2> SUFFICES ASSUME NEW i \in 1..Len(h) PROVE At(b, i - 1) = h[i]
    OBVIOUS
  <2> DEFINE j == i - 1
  <2>1. j \in 0..(Len(h) - 1) /\ j + 1 = i
    BY <1>1
  <2> HIDE DEF j
  <2>2. At(b, j) = h[j + 1]
    BY <2>1, RowAt
  <2> QED BY <2>1, <2>2 DEF j
<1> QED BY <1>1, <1>2, <1>3 DEF Iterated

LEMMA Concatenated ==
    ASSUME NEW S, NEW u \in Seq(S), NEW v \in Seq(S)
    PROVE  /\ u \o v \in Seq(S) /\ Len(u \o v) = Len(u) + Len(v)
           /\ \A m \in 1..Len(u) : (u \o v)[m] = u[m]
           /\ \A m \in 1..Len(v) : (u \o v)[Len(u) + m] = v[m]
OBVIOUS

(* Appending the rows of one chunk after another gives them all.           *)
LEMMA Pieces ==
    ASSUME NEW h, IsSequence(h), NEW i \in 0..Len(h), NEW j \in i..Len(h),
           NEW s, s = [m \in 1..(j - i) |-> h[i + m]]
    PROVE  SubSeq(h, 1, i) \o s = SubSeq(h, 1, j)
<1>1. PICK S : h \in Seq(S)
  BY DEF IsSequence
<1>2. Len(h) \in Nat /\ i \in Nat /\ j \in Nat /\ \A m \in 1..Len(h) : h[m] \in S
  BY <1>1, LenProperties, ElementOfSeq
<1> DEFINE u == SubSeq(h, 1, i)
           v == SubSeq(h, 1, j)
<1>3. /\ u \in Seq(S) /\ Len(u) = i /\ \A m \in 1..i : u[m] = h[m]
      /\ v \in Seq(S) /\ Len(v) = j /\ \A m \in 1..j : v[m] = h[m]
  BY <1>1, <1>2, SubSeqProperties
<1>4. s \in Seq(S) /\ Len(s) = j - i /\ \A m \in 1..(j - i) : s[m] = h[i + m]
  <2>1. j - i \in Nat /\ \A m \in 1..(j - i) : i + m \in 1..Len(h)
    BY <1>2
  <2>2. \A m \in 1..(j - i) : s[m] = h[i + m] /\ s[m] \in S
    BY <1>2, <2>1
  <2>3. s = [m \in 1..(j - i) |-> s[m]]
    BY <2>2
  <2>4. s \in Seq(S)
    BY <2>1, <2>2, <2>3
  <2>5. Len(s) = j - i
    BY <2>1
  <2> QED BY <2>2, <2>4, <2>5
<1> DEFINE w == u \o s
<1> HIDE DEF u, v
<1>5. /\ w \in Seq(S) /\ Len(w) = Len(u) + Len(s)
      /\ \A m \in 1..Len(u) : w[m] = u[m]
      /\ \A m \in 1..Len(s) : w[Len(u) + m] = s[m]
  <2>1. u \in Seq(S) /\ s \in Seq(S)
    BY <1>3, <1>4
  <2> QED BY <2>1, Concatenated
<1> HIDE DEF w
<1>6. Len(w) = j
  BY <1>2, <1>3, <1>4, <1>5
<1>7. ASSUME NEW m \in 1..j PROVE w[m] = v[m]
  <2>1. m \in Nat /\ v[m] = h[m] /\ Len(u) = i /\ Len(s) = j - i
    BY <1>2, <1>3, <1>4
  <2>2. CASE m <= i
    BY <1>2, <1>3, <1>5, <2>1, <2>2
  <2>3. CASE ~(m <= i)
    <3> DEFINE p == m - i
    <3>1. p \in 1..(j - i) /\ i + p = m
      BY <1>2, <2>1, <2>3
    <3> HIDE DEF p
    <3>2. w[i + p] = s[p] /\ s[p] = h[i + p]
      BY <1>4, <1>5, <2>1, <3>1
    <3> QED BY <2>1, <3>1, <3>2
  <2> QED BY <2>2, <2>3
<1>8. w = v
  BY <1>3, <1>5, <1>6, <1>7, SeqEqual
<1> QED BY <1>8 DEF u, v, w

LEMMA VectorIs ==
    ASSUME NEW b, NEW h, Holds(b, h)
    PROVE  ToVector(b) = h
<1> DEFINE n == Len(b.chunks)
           k == b.current_chunk_count
           K == ChunkSize
           s == [c \in DOMAIN b.chunks |->
                    [i \in 1..CountInChunk(b, c) |-> b.chunks[c][i - 1]]]
           End(c) == IF c = n THEN Len(h) ELSE c * K
           g == [c \in 1..n |-> SubSeq(h, 1, End(c))]
<1>1. /\ FillsChunks(b, h) /\ IsSequence(h) /\ K \in Nat \ {0} /\ n \in Nat /\ Len(h) \in Nat
      /\ DOMAIN b.chunks = 1..n
  <2>1. PICK W : b.chunks \in Seq(W)
    BY DEF Holds, FillsChunks, HasChunks
  <2> QED BY <2>1, ChunkSizeAssumption, SizesOf, LenProperties DEF Holds, FillsChunks
<1>2. Len(s) = n
  BY <1>1
<1>3. CASE n = 0
  <2>1. Len(h) = 0
    BY <1>3 DEF Holds
  <2>2. h = << >>
    <3>1. PICK S : h \in Seq(S)
      BY <1>1 DEF IsSequence
    <3> QED BY <2>1, <3>1, EmptySeq
  <2>3. s = << >>
    BY <1>1, <1>3
  <2>4. FlattenSeq(s) = s
    BY <1>2, <1>3 DEF FlattenSeq
  <2> QED BY <2>2, <2>3, <2>4 DEF ToVector
<1>4. CASE n # 0
  <2>1. k \in 1..K /\ Len(h) = (n - 1) * K + k
    BY <1>4 DEF Holds, InLastChunk
  <2>2. \A c \in 1..n : /\ (c - 1) * K \in 0..Len(h) /\ End(c) \in ((c - 1) * K)..Len(h)
                        /\ End(c) - (c - 1) * K = CountInChunk(b, c)
    <3> SUFFICES ASSUME NEW c \in 1..n
                 PROVE  /\ (c - 1) * K \in 0..Len(h) /\ End(c) \in ((c - 1) * K)..Len(h)
                        /\ End(c) - (c - 1) * K = CountInChunk(b, c)
      OBVIOUS
    <3> DEFINE p == (c - 1) * K
               e == (n - 1) * K
    <3>1. c - 1 \in Nat /\ n - 1 \in Nat /\ c \in Nat /\ (c - 1) + 1 = c /\ c - 1 <= n - 1
      BY <1>1
    <3>2. p \in Nat /\ e \in Nat /\ c * K = p + K /\ p <= e /\ (c <= n - 1 => c * K <= e)
      BY <1>1, <3>1, Times
    <3>3. c # n => c <= n - 1
      BY <1>1
    <3> HIDE DEF p, e
    <3>4. Len(h) = e + k
      BY <2>1 DEF e
    <3>5. c = n => p = e
      BY DEF p, e
    <3>6. p \in 0..Len(h) /\ End(c) \in p..Len(h) /\ End(c) - p = CountInChunk(b, c)
      <4>1. CASE c = n
        <5>1. End(c) = Len(h) /\ CountInChunk(b, c) = k
          BY <4>1 DEF CountInChunk
        <5>2. k \in Nat /\ k >= 1
          BY <1>1, <2>1
        <5> HIDE DEF End, K, k
        <5> QED BY <3>2, <3>4, <3>5, <4>1, <5>1, <5>2
      <4>2. CASE c # n
        <5>1. End(c) = p + K /\ CountInChunk(b, c) = K
          BY <3>2, <4>2 DEF CountInChunk
        <5>2. p + K <= e
          BY <3>2, <3>3, <4>2
        <5> HIDE DEF End
        <5>3. K \in Nat /\ k \in Nat
          BY <1>1, <2>1
        <5> HIDE DEF K, k
        <5> QED BY <3>2, <3>4, <5>1, <5>2, <5>3
      <4> QED BY <4>1, <4>2
    <3> QED BY <3>6 DEF p
  <2>3. \A c \in 1..n : s[c] = [m \in 1..(End(c) - (c - 1) * K) |-> h[(c - 1) * K + m]]
    <3> SUFFICES ASSUME NEW c \in 1..n
                 PROVE  s[c] = [m \in 1..(End(c) - (c - 1) * K) |-> h[(c - 1) * K + m]]
      OBVIOUS
    <3> DEFINE p == (c - 1) * K
    <3>1. s[c] = [m \in 1..CountInChunk(b, c) |-> b.chunks[c][m - 1]]
      BY <1>1
    <3> HIDE DEF End
    <3>5. p \in 0..Len(h) /\ End(c) \in p..Len(h) /\ End(c) - p = CountInChunk(b, c)
      BY <2>2
    <3>2. CountInChunk(b, c) = End(c) - p /\ p \in Nat /\ End(c) \in Nat
      <4> HIDE DEF p
      <4> QED BY <1>1, <3>5
    <3>3. ASSUME NEW m \in 1..CountInChunk(b, c) PROVE b.chunks[c][m - 1] = h[p + m]
      <4> DEFINE i == m - 1
      <4>1. i \in 0..(CountInChunk(b, c) - 1) /\ m = i + 1
        BY <3>2
      <4> HIDE DEF i
      <4>2. b.chunks[c][i] = h[p + i + 1]
        BY <1>1, <4>1 DEF FillsChunks, Filled
      <4>3. p + i + 1 = p + m
        BY <3>2, <4>1
      <4> QED BY <4>2, <4>3 DEF i
    <3> HIDE DEF s, p
    <3>4. s[c] = [m \in 1..(End(c) - p) |-> h[p + m]]
      BY <3>1, <3>2, <3>3
    <3> QED BY <3>4 DEF p
  <2>4. g = [c \in 1..n |-> IF c = 1 THEN s[c] ELSE g[c-1] \o s[c]]
    <3> SUFFICES ASSUME NEW c \in 1..n
                 PROVE  SubSeq(h, 1, End(c)) = IF c = 1 THEN s[c] ELSE g[c-1] \o s[c]
      OBVIOUS
    <3> DEFINE i == (c - 1) * K
               j == End(c)
               t == s[c]
    <3>1. i \in 0..Len(h) /\ j \in i..Len(h) /\ t = [m \in 1..(j - i) |-> h[i + m]]
      BY <2>2, <2>3
    <3> HIDE DEF i, j, t
    <3>2. SubSeq(h, 1, i) \o t = SubSeq(h, 1, j)
      BY <1>1, <3>1, Pieces
    <3>3. CASE c = 1
      <4>1. i = 0
        BY <1>1, <3>3 DEF i
      <4>2. PICK S : h \in Seq(S)
        BY <1>1 DEF IsSequence
      <4>3. j \in 0..Len(h) /\ t = [m \in 1..j |-> h[m]]
        BY <1>1, <3>1, <4>1
      <4>4. SubSeq(h, 1, j) = t
        BY <1>1, <4>2, <4>3
      <4> QED BY <3>3, <4>4 DEF j, t
    <3>4. CASE c # 1
      <4>1. c - 1 \in 1..n /\ c - 1 # n
        BY <1>1, <3>4
      <4>2. g[c - 1] = SubSeq(h, 1, i)
        BY <4>1 DEF i
      <4> QED BY <3>2, <3>4, <4>2 DEF j, t
    <3> QED BY <3>3, <3>4
  <2> HIDE DEF s
  <2>5. FlattenSeq(s) = g[Len(s)]
    <3> HIDE DEF g
    <3>1. Len(s) \in Nat \ {0} /\ g = [c \in 1..Len(s) |-> IF c = 1 THEN s[c] ELSE g[c-1] \o s[c]]
      BY <1>1, <1>2, <1>4, <2>4
    <3> QED BY <3>1, FlattenIs
  <2>6. g[n] = h
    <3>1. n \in 1..n /\ End(n) = Len(h)
      BY <1>1, <1>4
    <3>2. PICK S : h \in Seq(S)
      BY <1>1 DEF IsSequence
    <3> QED BY <3>1, <3>2, SubSeqFull
  <2> QED BY <1>2, <2>5, <2>6 DEF ToVector, s
<1> QED BY <1>3, <1>4
-----------------------------------------------------------------------------
(* Every list of the application holds what was put into it.               *)
ListsInv ==
    /\ buffer = [b \in Buffers |-> buffer[b]] /\ held = [b \in Buffers |-> held[b]]
    /\ \A b \in Buffers : Holds(buffer[b], held[b])

LEMMA OneListChanged ==
    ASSUME ListsInv, NEW b \in Buffers, NEW x, NEW h, Holds(x, h),
           buffer' = [buffer EXCEPT ![b] = x], held' = [held EXCEPT ![b] = h]
    PROVE  ListsInv'
<1>1. /\ buffer' = [d \in Buffers |-> buffer'[d]] /\ held' = [d \in Buffers |-> held'[d]]
      /\ \A d \in Buffers : /\ buffer'[d] = IF d = b THEN x ELSE buffer[d]
                            /\ held'[d] = IF d = b THEN h ELSE held[d]
  BY DEF ListsInv
<1>2. \A d \in Buffers : Holds(buffer'[d], held'[d])
  BY <1>1 DEF ListsInv
<1> QED BY <1>1, <1>2 DEF ListsInv

LEMMA RowAdded ==
    ASSUME ListsInv, NEW b \in Buffers, NEW x,
           buffer' = [buffer EXCEPT ![b] = EmplaceBack(@, x)],
           held' = [held EXCEPT ![b] = Append(@, x)]
    PROVE  ListsInv'
<1>1. Holds(EmplaceBack(buffer[b], x), Append(held[b], x))
  BY EmplaceBackHolds DEF ListsInv
<1> QED BY <1>1, OneListChanged

LEMMA DiscardKeeps ==
    ASSUME ListsInv, NEW b \in Buffers, Discard(b)
    PROVE  ListsInv'
<1>1. Holds(Cleared(buffer[b]), << >>)
  BY EmptyHolds DEF ListsInv, Holds, FillsChunks
<1> QED BY <1>1, OneListChanged DEF Discard

(* Assigning from another list: its rows change places, and none is left.  *)
LEMMA MoveAssignKeeps ==
    ASSUME ListsInv, NEW b \in Buffers, NEW other \in Buffers, b # other, MoveAssign(b, other)
    PROVE  ListsInv'
<1> DEFINE x == MovedFrom(buffer[other])
<1>1. Holds(x, << >>)
  BY EmptyHolds DEF ListsInv, Holds, FillsChunks
<1>2. /\ buffer' = [buffer EXCEPT ![b] = buffer[other], ![other] = x]
      /\ held' = [held EXCEPT ![b] = held[other], ![other] = << >>]
  BY DEF MoveAssign
<1> HIDE DEF x
<1>3. /\ buffer' = [d \in Buffers |-> buffer'[d]] /\ held' = [d \in Buffers |-> held'[d]]
      /\ \A d \in Buffers :
            /\ buffer'[d] = IF d = other THEN x ELSE IF d = b THEN buffer[other] ELSE buffer[d]
            /\ held'[d] = IF d = other THEN << >> ELSE IF d = b THEN held[other] ELSE held[d]
  BY <1>2 DEF ListsInv
<1>4. \A d \in Buffers : Holds(buffer'[d], held'[d])
  BY <1>1, <1>3 DEF ListsInv
<1> QED BY <1>3, <1>4 DEF ListsInv

LEMMA FetchKeepsLists ==
    ASSUME ListsInv, NEW c \in Consumers, Fetch(c)
    PROVE  ListsInv'
<1> DEFINE step == ReaderNext(c)
           row == <<IF consumer[c].own THEN consumer[c].of ELSE step.st.of, step.at>>
<1>1. \/ UNCHANGED <<buffer, held>>
      \/ /\ buffer' = [buffer EXCEPT !["local"] = EmplaceBack(@, row)]
         /\ held' = [held EXCEPT !["local"] = Append(@, row)]
  BY DEF Fetch
<1>2. CASE UNCHANGED <<buffer, held>>
  BY <1>2 DEF ListsInv
<1> HIDE DEF row
<1>3. "local" \in Buffers
  BY DEF Buffers
<1> QED BY <1>1, <1>2, <1>3, RowAdded

LEMMA DestroyKeepsLists ==
    ASSUME ListsInv, NEW c \in Consumers, Destroy(c)
    PROVE  ListsInv'
<1>1. \/ UNCHANGED <<buffer, held>> \/ MoveAssign("list", "local") \/ Discard("local")
  BY DEF Destroy
<1>2. CASE UNCHANGED <<buffer, held>>
  BY <1>2 DEF ListsInv
<1>3. "list" \in Buffers /\ "local" \in Buffers /\ "list" # "local"
  BY DEF Buffers
<1> QED BY <1>1, <1>2, <1>3, MoveAssignKeeps, DiscardKeeps

LEMMA ListsInit == Init => ListsInv
<1> SUFFICES ASSUME Init PROVE ListsInv
  OBVIOUS
<1>1. Holds(Buffer, << >>)
  BY EmptyHolds DEF IsBuffer, Buffer
<1> QED BY <1>1 DEF Init, ListsInv

LEMMA ListsNext == ListsInv /\ [Next]_vars => ListsInv'
<1> SUFFICES ASSUME ListsInv, [Next]_vars PROVE ListsInv'
  OBVIOUS
<1> DEFINE Kept == UNCHANGED <<buffer, held>>
<1>1. Kept => ListsInv'
  BY DEF ListsInv
<1>2. CASE UNCHANGED vars
  BY <1>1, <1>2 DEF vars
<1>3. ASSUME NEW s, StatementCallback(s) PROVE Kept
  BY <1>3 DEF StatementCallback
<1>4. ASSUME NEW t, RequestStop(t) PROVE Kept
  BY <1>4 DEF RequestStop
<1>5. ASSUME NEW c \in Consumers, NEW s, NEW t,
             \/ ExecuteList(c, s) \/ ExecuteFirst(c, s) \/ Stream(c, s)
             \/ StreamWithOptions(c, s, t) \/ ConnectionStream(c, t) \/ QueryBuilderStream(c)
      PROVE  Kept
  BY <1>5 DEF ExecuteList, ExecuteFirst, Stream, StreamWithOptions, ConnectionStream,
              QueryBuilderStream, Prepared, OnOwnStatement, Executes
<1>6. ASSUME NEW c \in Consumers,
             \/ ExecuteRefused(c) \/ ExecuteReturns(c) \/ Advance(c) \/ MoveStream(c)
             \/ StreamCallback(c)
      PROVE  Kept
  BY <1>6 DEF ExecuteRefused, ExecuteReturns, Advance, MoveStream, StreamCallback
<1>7. ASSUME NEW b \in {"list", "kept"}, PushBack(b) \/ TakeVector(b) PROVE ListsInv'
  <2>1. b \in Buffers
    BY DEF Buffers
  <2> QED BY <1>7, <2>1, RowAdded, DiscardKeeps DEF PushBack, TakeVector
<1>8. CASE Keep
  <2>1. "kept" \in Buffers /\ "list" \in Buffers /\ "kept" # "list"
    BY DEF Buffers
  <2> QED BY <1>8, <2>1, MoveAssignKeeps DEF Keep
<1> HIDE DEF Kept
<1> QED BY <1>1, <1>2, <1>3, <1>4, <1>5, <1>6, <1>7, <1>8, FetchKeepsLists, DestroyKeepsLists
        DEF Next

(* A list holds what was put into it, by index and as a vector, for every  *)
(* size of its chunks and in every use (chunked_buffer.h).                 *)
THEOREM ListsHoldTheirRows == Spec => []BufferHoldsRows
<1>1. ListsInv => BufferHoldsRows
  <2> SUFFICES ASSUME ListsInv, NEW b \in Buffers
               PROVE  /\ buffer[b].total_size = Len(held[b])
                      /\ Iterated(buffer[b]) = held[b]
                      /\ ToVector(buffer[b]) = held[b]
    BY DEF BufferHoldsRows
  <2>1. Holds(buffer[b], held[b])
    BY DEF ListsInv
  <2> QED BY <2>1, IteratedIs, VectorIs DEF Holds, FillsChunks
<1> QED BY <1>1, ListsInit, ListsNext, PTL DEF Spec
=============================================================================
