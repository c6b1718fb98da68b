--------------------------- MODULE KnowledgeProofs ---------------------------
(***************************************************************************)
(* Proofs about Knowledge, for any documents, files, uploads and workers,    *)
(* and for any sizes of chunks and overlaps.                                *)
(***************************************************************************)
EXTENDS Knowledge, FiniteSetTheorems, SequenceTheorems,
        WellFoundedInduction, TLAPS

-----------------------------------------------------------------------------
(* Induction, which the recursion of Rebuild needs *)

\* A set of natural numbers has a least element.
LEMMA LeastElement ==
    ASSUME NEW T \in SUBSET Nat, T # {}
    PROVE  \E n \in T : \A m \in T : n <= m
<1>1. \E n \in T : \A m \in T : ~ (<<m, n>> \in OpToRel(<, Nat))
  BY NatLessThanWellFounded, WFMin, Zenon
<1>2. \A m, n \in Nat : m < n => <<m, n>> \in OpToRel(<, Nat)
  BY Zenon DEF OpToRel
<1>3. \E n \in T : \A m \in T : ~ (m < n)
  BY <1>1, <1>2, Zenon
<1> QED
  BY <1>3

\* Induction up to N, over the members of a set.
LEMMA UpTo ==
    ASSUME NEW N \in Nat, NEW S, 0 \in S,
           \A n \in 1..N : n - 1 \in S => n \in S
    PROVE  0..N \subseteq S
<1> SUFFICES ASSUME ~ (0..N \subseteq S) PROVE FALSE
  OBVIOUS
<1>0. 0..N \ S \in SUBSET Nat /\ 0..N \ S # {}
  OBVIOUS
<1>1. PICK n \in 0..N \ S : \A m \in 0..N \ S : n <= m
  BY <1>0, LeastElement, Zenon
<1>2. n \in 1..N /\ n - 1 \in 0..N
  BY <1>1
<1> QED
  BY <1>1, <1>2

-----------------------------------------------------------------------------
(* chunk_markdown *)

\* How many chunks n words make.
Chunks(n) == (n + Step - 1) \div Step

LEMMA StepType == Step \in 1..ChunkSize
BY SizeAssumption DEF Step, Greatest

\* The facts about integer division that the rest needs.
LEMMA Division ==
    ASSUME NEW a \in Nat, NEW b \in Nat \ {0}
    PROVE  /\ a \div b \in Nat
           /\ (a \div b) * b <= a
           /\ a < (a \div b) * b + b
OBVIOUS

LEMMA ChunksCount ==
    ASSUME NEW n \in Nat
    PROVE  /\ Chunks(n) \in Nat
           /\ n <= Chunks(n) * Step
           /\ n > 0 => Chunks(n) > 0
           /\ (Chunks(n) - 1) * Step < n \/ Chunks(n) = 0
<1>1. /\ Step \in Nat \ {0}
      /\ n + Step - 1 \in Nat
  BY StepType, SizeAssumption
<1>2. /\ Chunks(n) \in Nat
      /\ Chunks(n) * Step <= n + Step - 1
      /\ n + Step - 1 < Chunks(n) * Step + Step
  BY <1>1, Division DEF Chunks
<1> DEFINE c == Chunks(n)
           s == Step
<1>3. n <= c * s
  BY <1>1, <1>2
<1>4. (c - 1) * s = c * s - s
  BY <1>1, <1>2
<1>5. n > 0 => c > 0
  <2>1. c = 0 => c * s = 0
    BY <1>1
  <2> QED
    BY <1>2, <1>3, <2>1
<1> HIDE DEF c, s
<1> QED
  BY <1>1, <1>2, <1>3, <1>4, <1>5 DEF c, s

\* Where the words of chunk k begin, and how many there are.
From(k) == (k - 1) * Step
Size(n, k) == Least(From(k) + ChunkSize, n) - From(k)

\* Every chunk begins before the end, and none is longer than ChunkSize.
LEMMA ChunkBounds ==
    ASSUME NEW n \in Nat, NEW k \in 1..Chunks(n)
    PROVE  /\ From(k) \in Nat
           /\ From(k) < n
           /\ Size(n, k) \in 1..ChunkSize
           /\ From(k) + Size(n, k) <= n
<1>1. /\ Step \in 1..ChunkSize
      /\ ChunkSize \in Nat
      /\ Chunks(n) \in Nat
      /\ (Chunks(n) - 1) * Step < n
  BY StepType, SizeAssumption, ChunksCount
<1>2. (k - 1) * Step \in Nat /\ (k - 1) * Step <= (Chunks(n) - 1) * Step
  <2>1. /\ k - 1 \in Nat
        /\ Chunks(n) - 1 \in Nat
        /\ k - 1 <= Chunks(n) - 1
    BY <1>1
  <2>2. \A a, b, c \in Nat : a <= b => a * c \in Nat /\ a * c <= b * c
    OBVIOUS
  <2> QED
    BY <1>1, <2>1, <2>2
<1> QED
  BY <1>1, <1>2 DEF From, Size, Least

LEMMA ChunkShape ==
    ASSUME NEW S, NEW words \in Seq(S)
    PROVE  /\ ChunkMarkdown(words) \in Seq(Seq(S))
           /\ DOMAIN ChunkMarkdown(words) = 1..Chunks(Len(words))
           /\ Len(ChunkMarkdown(words)) = Chunks(Len(words))
           /\ \A k \in 1..Chunks(Len(words)) :
                /\ Len(ChunkMarkdown(words)[k]) = Size(Len(words), k)
                /\ \A j \in 1..Size(Len(words), k) :
                      ChunkMarkdown(words)[k][j] = words[From(k) + j]
<1> DEFINE n == Len(words)
           chunk(k) == SubSeq(words, From(k) + 1, Least(From(k) + ChunkSize, n))
<1>1. n \in Nat /\ Chunks(n) \in Nat
  BY ChunksCount
<1>2. \A k \in 1..Chunks(n) :
        /\ chunk(k) \in Seq(S)
        /\ Len(chunk(k)) = Size(n, k)
        /\ \A j \in 1..Size(n, k) : chunk(k)[j] = words[From(k) + j]
  <2> TAKE k \in 1..Chunks(n)
  <2>1. /\ From(k) \in Nat
        /\ Size(n, k) \in 1..ChunkSize
        /\ From(k) + Size(n, k) <= n
    BY <1>1, ChunkBounds
  <2>2. Least(From(k) + ChunkSize, n) = From(k) + Size(n, k)
    BY <1>1, <2>1, SizeAssumption DEF Size, Least
  <2> HIDE DEF n
  <2>3. chunk(k) = SubSeq(words, From(k) + 1, From(k) + Size(n, k))
    BY <2>2
  <2>4. \A i \in From(k) + 1..From(k) + Size(n, k) : words[i] \in S
    BY <2>1 DEF n
  <2>5. /\ SubSeq(words, From(k) + 1, From(k) + Size(n, k)) \in Seq(S)
        /\ Len(SubSeq(words, From(k) + 1, From(k) + Size(n, k))) = Size(n, k)
        /\ \A j \in 1..Size(n, k) :
              SubSeq(words, From(k) + 1, From(k) + Size(n, k))[j] = words[From(k) + j]
    <3> DEFINE a == From(k)
               b == Size(n, k)
    <3>1. a \in Nat /\ b \in Nat \ {0}
      BY <2>1, SizeAssumption
    <3>0. \A i \in a + 1..a + b : words[i] \in S
      BY <2>4
    <3> HIDE DEF a, b
    <3>2. /\ SubSeq(words, a + 1, a + b) \in Seq(S)
          /\ Len(SubSeq(words, a + 1, a + b)) =
                IF a + 1 <= a + b THEN (a + b) - (a + 1) + 1 ELSE 0
          /\ \A j \in 1..(a + b) - (a + 1) + 1 :
                SubSeq(words, a + 1, a + b)[j] = words[(a + 1) + j - 1]
      <4>1. a + 1 \in Int /\ a + b \in Int
        BY <3>1
      <4> QED
        BY <3>0, <4>1, SubSeqProperties
    <3>3. /\ (a + b) - (a + 1) + 1 = b
          /\ a + 1 <= a + b
          /\ \A j \in Int : (a + 1) + j - 1 = a + j
      BY <3>1
    <3>4. /\ SubSeq(words, a + 1, a + b) \in Seq(S)
          /\ Len(SubSeq(words, a + 1, a + b)) = b
          /\ \A j \in 1..b : SubSeq(words, a + 1, a + b)[j] = words[a + j]
      BY <3>1, <3>2, <3>3
    <3> QED
      BY <3>4 DEF a, b
  <2> HIDE DEF chunk
  <2> QED
    BY <2>3, <2>5
<1>3. ChunkMarkdown(words) = [k \in 1..Chunks(n) |-> chunk(k)]
  BY DEF ChunkMarkdown, Chunks, From
<1> HIDE DEF chunk, n
<1>4. ChunkMarkdown(words) \in Seq(Seq(S)) /\ Len(ChunkMarkdown(words)) = Chunks(n)
  BY <1>1, <1>2, <1>3
<1> QED
  BY <1>2, <1>3, <1>4 DEF n

\* No word of a document is lost: each is in a chunk, in its place.
THEOREM NoWordLost ==
    ASSUME NEW S, NEW words \in Seq(S), NEW i \in 1..Len(words)
    PROVE  \E k \in DOMAIN ChunkMarkdown(words) :
              \E j \in DOMAIN ChunkMarkdown(words)[k] :
                 /\ ChunkMarkdown(words)[k][j] = words[i]
                 /\ i = From(k) + j
<1> DEFINE n == Len(words)
           q == (i - 1) \div Step
<1>1. /\ Step \in 1..ChunkSize
      /\ ChunkSize \in Nat
      /\ n \in Nat
      /\ i - 1 \in Nat
      /\ Chunks(n) \in Nat
      /\ n <= Chunks(n) * Step
  BY StepType, SizeAssumption, ChunksCount
<1>2. q \in Nat /\ q * Step <= i - 1 /\ i - 1 < q * Step + Step
  BY <1>1, Division
<1> HIDE DEF q, n
<1>3. q + 1 \in 1..Chunks(n)
  <2>1. q * Step < Chunks(n) * Step
    BY <1>1, <1>2 DEF n
  <2>2. \A a, b, c \in Nat : b <= a => b * c <= a * c
    OBVIOUS
  <2> QED
    BY <1>1, <1>2, <2>1, <2>2
<1>4. From(q + 1) = q * Step
  BY <1>2 DEF From
<1>5. i - From(q + 1) \in 1..Size(n, q + 1)
  <2>1. /\ i \in Nat
        /\ i <= n
    BY <1>1 DEF n
  <2>2. Step <= ChunkSize /\ Step \in Nat
    BY <1>1
  <2> QED
    BY <1>1, <1>2, <1>4, <2>1, <2>2 DEF Size, Least
<1> QED
  <2> DEFINE c == ChunkMarkdown(words)
  <2>1. /\ q + 1 \in DOMAIN c
        /\ i - From(q + 1) \in DOMAIN c[q + 1]
        /\ c[q + 1][i - From(q + 1)] = words[From(q + 1) + (i - From(q + 1))]
    BY <1>1, <1>3, <1>5, ChunkShape DEF n
  <2>2. From(q + 1) + (i - From(q + 1)) = i
    BY <1>1, <1>2, <1>4
  <2> HIDE DEF c
  <2> QED
    BY <2>1, <2>2 DEF c

\* A chunk begins with the last Overlap words of the chunk before it, as far as the
\* document goes.
THEOREM OverlapRepeated ==
    ASSUME NEW S, NEW words \in Seq(S),
           NEW k \in DOMAIN ChunkMarkdown(words), k + 1 \in DOMAIN ChunkMarkdown(words),
           NEW j \in 1..Overlap, j \in DOMAIN ChunkMarkdown(words)[k + 1]
    PROVE  /\ Step + j \in DOMAIN ChunkMarkdown(words)[k]
           /\ ChunkMarkdown(words)[k + 1][j] = ChunkMarkdown(words)[k][Step + j]
<1> DEFINE n == Len(words)
<1>1. /\ n \in Nat
      /\ k \in 1..Chunks(n)
      /\ k + 1 \in 1..Chunks(n)
      /\ Chunks(n) \in Nat
  <2>1. n \in Nat
    OBVIOUS
  <2>2. DOMAIN ChunkMarkdown(words) = 1..Chunks(n)
    BY ChunkShape
  <2> QED
    BY <2>1, <2>2, ChunksCount
<1> HIDE DEF n
<1>2. /\ Step = ChunkSize - Overlap
      /\ Step \in Nat
      /\ ChunkSize \in Nat
      /\ Overlap \in Nat
  BY SizeAssumption DEF Step, Greatest
<1>3. /\ From(k) \in Nat
      /\ From(k + 1) = From(k) + Step
  <2>1. From(k) \in Nat
    BY <1>1, ChunkBounds
  <2>2. From(k + 1) = k * Step /\ From(k) = (k - 1) * Step
    BY <1>1 DEF From
  <2>3. k * Step = (k - 1) * Step + Step
    BY <1>1, <1>2
  <2> QED
    BY <1>2, <2>1, <2>2, <2>3
<1>4. /\ j \in 1..Size(n, k + 1)
      /\ Size(n, k + 1) \in Nat
      /\ From(k + 1) + Size(n, k + 1) <= n
  <2>1. /\ Size(n, k + 1) \in 1..ChunkSize
        /\ From(k + 1) + Size(n, k + 1) <= n
    BY <1>1, ChunkBounds
  <2>2. /\ Len(ChunkMarkdown(words)[k + 1]) = Size(n, k + 1)
        /\ ChunkMarkdown(words)[k + 1] \in Seq(S)
    BY <1>1, ChunkShape DEF n
  <2> QED
    BY <1>2, <2>1, <2>2
<1>5. Step + j \in 1..Size(n, k)
  <2>1. /\ Step + j \in Nat \ {0}
        /\ Step + j <= ChunkSize
        /\ From(k) + (Step + j) <= n
    BY <1>1, <1>2, <1>3, <1>4
  <2>2. Step + j <= Least(From(k) + ChunkSize, n) - From(k)
    BY <1>1, <1>2, <1>3, <2>1 DEF Least
  <2>3. Least(From(k) + ChunkSize, n) \in Int
    BY <1>1, <1>2, <1>3 DEF Least
  <2> QED
    BY <1>2, <1>3, <2>1, <2>2, <2>3 DEF Size
<1>6. /\ ChunkMarkdown(words)[k + 1][j] = words[From(k + 1) + j]
      /\ ChunkMarkdown(words)[k][Step + j] = words[From(k) + (Step + j)]
      /\ Step + j \in DOMAIN ChunkMarkdown(words)[k]
  BY <1>1, <1>4, <1>5, ChunkShape DEF n
<1>7. From(k + 1) + j = From(k) + (Step + j)
  BY <1>2, <1>3
<1> QED
  BY <1>6, <1>7

-----------------------------------------------------------------------------
(* The words put together again *)

\* A chunk is a run of the words.
LEMMA ChunkIsRun ==
    ASSUME NEW S, NEW words \in Seq(S), NEW k \in 1..Chunks(Len(words))
    PROVE  ChunkMarkdown(words)[k] =
              SubSeq(words, From(k) + 1, From(k) + Size(Len(words), k))
<1> DEFINE n == Len(words)
<1>1. /\ n \in Nat
      /\ Chunks(n) \in Nat
      /\ From(k) \in Nat
      /\ Size(n, k) \in Nat
  <2>1. n \in Nat
    OBVIOUS
  <2> HIDE DEF n
  <2>2. k \in 1..Chunks(n)
    BY DEF n
  <2> QED
    BY <2>1, <2>2, ChunksCount, ChunkBounds, SizeAssumption
<1>2. ChunkMarkdown(words)[k] = SubSeq(words, From(k) + 1, Least(From(k) + ChunkSize, n))
  BY DEF ChunkMarkdown, Chunks, From
<1>3. Least(From(k) + ChunkSize, n) = From(k) + Size(n, k)
  BY <1>1, SizeAssumption DEF Size, Least
<1> HIDE DEF n
<1> QED
  BY <1>2, <1>3 DEF n

\* How many words the first k chunks cover.
End(n, k) == IF k = 0 THEN 0 ELSE From(k) + Size(n, k)

LEMMA EndBounds ==
    ASSUME NEW n \in Nat, NEW k \in 0..Chunks(n)
    PROVE  End(n, k) \in 0..n
<1>1. Chunks(n) \in Nat
  BY ChunksCount
<1>2. CASE k = 0
  BY <1>2 DEF End
<1>3. CASE k # 0
  <2>1. k \in 1..Chunks(n)
    BY <1>1, <1>3
  <2> QED
    BY <1>3, <2>1, ChunkBounds, SizeAssumption DEF End
<1> QED
  BY <1>2, <1>3

\* All chunks together cover all the words.
LEMMA EndOfLast ==
    ASSUME NEW n \in Nat
    PROVE  End(n, Chunks(n)) = n
<1>1. /\ Step \in 1..ChunkSize
      /\ ChunkSize \in Nat
      /\ Chunks(n) \in Nat
      /\ n <= Chunks(n) * Step
  BY StepType, SizeAssumption, ChunksCount
<1>2. CASE Chunks(n) = 0
  BY <1>1, <1>2 DEF End
<1>3. CASE Chunks(n) # 0
  <2>1. Chunks(n) * Step = From(Chunks(n)) + Step
    BY <1>1 DEF From
  <2>2. From(Chunks(n)) \in Nat
    BY <1>1, <1>3, ChunkBounds
  <2>3. Size(n, Chunks(n)) = n - From(Chunks(n))
    BY <1>1, <2>1, <2>2 DEF Size, Least
  <2> QED
    BY <1>3, <2>2, <2>3 DEF End
<1> QED
  BY <1>2, <1>3

\* A run of m + 1 to n is that long, and keeps its place.
LEMMA Run ==
    ASSUME NEW S, NEW s \in Seq(S), NEW a \in Nat, NEW b \in Nat, a < b, b <= Len(s)
    PROVE  /\ SubSeq(s, a + 1, b) \in Seq(S)
           /\ Len(SubSeq(s, a + 1, b)) = b - a
           /\ \A j \in 1..b - a : SubSeq(s, a + 1, b)[j] = s[a + j]
<1>1. /\ SubSeq(s, a + 1, b) \in Seq(S)
      /\ Len(SubSeq(s, a + 1, b)) = IF a + 1 <= b THEN b - (a + 1) + 1 ELSE 0
      /\ \A j \in 1..b - (a + 1) + 1 : SubSeq(s, a + 1, b)[j] = s[(a + 1) + j - 1]
  <2>1. a + 1 \in Int /\ b \in Int /\ \A i \in a + 1..b : s[i] \in S
    OBVIOUS
  <2> QED
    BY <2>1, SubSeqProperties
<1>2. /\ b - (a + 1) + 1 = b - a
      /\ a + 1 <= b
      /\ \A j \in Int : (a + 1) + j - 1 = a + j
  OBVIOUS
<1> QED
  BY <1>1, <1>2

\* The rest of a run behind its first c words is a run.
LEMMA RestOfRun ==
    ASSUME NEW S, NEW s \in Seq(S), NEW a \in Nat, NEW b \in Nat, a + b <= Len(s),
           NEW c \in Nat, c < b
    PROVE  SubSeq(SubSeq(s, a + 1, a + b), c + 1, b) = SubSeq(s, a + c + 1, a + b)
<1> DEFINE u == SubSeq(s, a + 1, a + b)
           v == SubSeq(u, c + 1, b)
           w == SubSeq(s, a + c + 1, a + b)
<1>1. /\ u \in Seq(S)
      /\ Len(u) = b
      /\ \A j \in 1..b : u[j] = s[a + j]
  <2>1. a + b \in Nat /\ a < a + b /\ (a + b) - a = b
    OBVIOUS
  <2> QED
    BY <2>1, Run
<1> HIDE DEF u
<1>2. /\ v \in Seq(S)
      /\ Len(v) = b - c
      /\ \A j \in 1..b - c : v[j] = u[c + j]
  BY <1>1, Run
<1>3. /\ w \in Seq(S)
      /\ Len(w) = b - c
      /\ \A j \in 1..b - c : w[j] = s[a + c + j]
  <2>1. /\ a + b \in Nat
        /\ a + c \in Nat
        /\ a + c < a + b
        /\ a + b <= Len(s)
        /\ (a + b) - (a + c) = b - c
    OBVIOUS
  <2>2. /\ w \in Seq(S)
        /\ Len(w) = (a + b) - (a + c)
        /\ \A j \in 1..(a + b) - (a + c) : w[j] = s[(a + c) + j]
    BY <2>1, Run, SMTT(30)
  <2> HIDE DEF w
  <2> QED
    BY <2>1, <2>2
<1> HIDE DEF v, w
<1>4. \A j \in 1..b - c : v[j] = w[j]
  <2> TAKE j \in 1..b - c
  <2>1. c + j \in 1..b /\ a + (c + j) = a + c + j
    OBVIOUS
  <2> QED
    BY <1>1, <1>2, <1>3, <2>1
<1>5. v = w
  BY <1>2, <1>3, <1>4, SeqEqual
<1> QED
  BY <1>5 DEF u, v, w

\* What chunk k adds to the chunks before it: all of its words if it is the first,
\* the words behind the first Overlap ones if not.
LEMMA ChunkAdds ==
    ASSUME NEW S, NEW words \in Seq(S), NEW k \in 1..Chunks(Len(words)),
           NEW chunk, chunk = ChunkMarkdown(words)[k]
    PROVE  SubSeq(words, 1, End(Len(words), k - 1))
              \o SubSeq(chunk, IF k = 1 THEN 1 ELSE Overlap + 1, Len(chunk))
           = SubSeq(words, 1, End(Len(words), k))
<1> DEFINE n == Len(words)
           size == Size(n, k)
           a == From(k)
<1>1. /\ n \in Nat
      /\ Chunks(n) \in Nat
      /\ k - 1 \in 0..Chunks(n)
      /\ k \in Nat \ {0}
      /\ a \in Nat
      /\ size \in 1..ChunkSize
      /\ ChunkSize \in Nat
      /\ a + size <= n
      /\ End(n, k) = a + size
  <2>1. n \in Nat
    OBVIOUS
  <2> HIDE DEF n
  <2>2. k \in 1..Chunks(n)
    BY DEF n
  <2>3. Chunks(n) \in Nat
    BY <2>1, ChunksCount
  <2> QED
    BY <2>1, <2>2, <2>3, ChunkBounds, SizeAssumption DEF End
<1>2. /\ chunk = SubSeq(words, a + 1, a + size)
      /\ Len(chunk) = size
  BY ChunkIsRun, ChunkShape
<1>3. chunk \in Seq(S)
  BY ChunkShape
<1>4. End(n, k - 1) \in 0..n
  BY <1>1, EndBounds
<1> HIDE DEF n, size, a
<1>5. CASE k = 1
  <2>1. a = 0 /\ End(n, k - 1) = 0
    BY <1>5, StepType, SizeAssumption DEF a, From, End
  <2>2. SubSeq(words, 1, End(n, k - 1)) = <<>>
    BY <2>1, SubSeqEmpty
  <2>3. SubSeq(chunk, 1, Len(chunk)) = chunk
    BY <1>3, SubSeqFull
  <2>4. <<>> \o chunk = chunk
    BY <1>3
  <2>5. chunk = SubSeq(words, 1, End(n, k))
    BY <1>1, <1>2, <2>1
  <2> QED
    BY <1>5, <2>2, <2>3, <2>4, <2>5 DEF n
<1>6. CASE k # 1
  <2> DEFINE e == End(n, k - 1)
  <2>1. /\ Overlap \in Nat
        /\ Step = ChunkSize - Overlap
        /\ Step \in Nat
    BY SizeAssumption DEF Step, Greatest
  <2>2. e = Least(a + Overlap, n)
    <3>1. k - 1 \in 1..Chunks(n) /\ k - 1 # 0
      BY <1>1, <1>6 DEF n
    <3>2. From(k - 1) \in Nat
      BY <1>1, <3>1, ChunkBounds
    <3>3. (k - 1) * Step = (k - 1 - 1) * Step + Step
      BY <1>1, <2>1
    <3>4. a = From(k - 1) + Step
      BY <3>3 DEF a, From
    <3>5. From(k - 1) + ChunkSize = a + Overlap
      <4>1. /\ ChunkSize \in Int /\ Overlap \in Int /\ From(k - 1) \in Int
            /\ a = From(k - 1) + (ChunkSize - Overlap)
        BY <1>1, <2>1, <3>2, <3>4
      <4> HIDE DEF a
      <4> QED
        BY <4>1
    <3>6. e = From(k - 1) + (Least(From(k - 1) + ChunkSize, n) - From(k - 1))
      BY <3>1 DEF End, Size
    <3>7. Least(From(k - 1) + ChunkSize, n) \in Int
      BY <1>1, <3>2 DEF Least
    <3>8. e = Least(From(k - 1) + ChunkSize, n)
      BY <3>2, <3>6, <3>7
    <3> QED
      BY <3>5, <3>8
  <2>3. a + size = Least(a + ChunkSize, n)
    BY <1>1 DEF size, Size, a, Least
  <2>4. SubSeq(words, 1, e) \in Seq(S)
    BY <1>1, <1>4, SubSeqProperties DEF n
  <2>5. CASE Overlap < size
    <3>1. e = a + Overlap
      BY <1>1, <2>1, <2>2, <2>5 DEF Least
    <3>2. SubSeq(chunk, Overlap + 1, size) = SubSeq(words, e + 1, a + size)
      <4>1. /\ size \in Nat
            /\ a + size <= Len(words)
        BY <1>1 DEF n
      <4>2. SubSeq(chunk, Overlap + 1, size) = SubSeq(words, a + Overlap + 1, a + size)
        BY <1>1, <1>2, <2>1, <2>5, <4>1, RestOfRun
      <4> QED
        BY <3>1, <4>2
    <3>3. SubSeq(words, 1, e) \o SubSeq(words, e + 1, a + size) = SubSeq(words, 1, a + size)
      <4>1. /\ 1 \in 1..Len(words) + 1
            /\ e \in 1 - 1..Len(words)
            /\ a + size \in e..Len(words)
        BY <1>1, <1>4, <2>1, <2>5, <3>1 DEF n
      <4> HIDE DEF e
      <4> QED
        BY <4>1, ConcatAdjacentSubSeq
    <3> QED
      BY <1>1, <1>2, <1>6, <3>2, <3>3 DEF n
  <2>6. CASE size <= Overlap
    <3>1. a + size = n
      BY <1>1, <2>1, <2>3, <2>6, SizeAssumption DEF Least
    <3>2. e = a + size
      BY <1>1, <2>1, <2>2, <2>6, <3>1 DEF Least
    <3>3. SubSeq(chunk, Overlap + 1, size) = <<>>
      BY <1>1, <2>1, <2>6, SubSeqEmpty
    <3>4. SubSeq(words, 1, e) \o <<>> = SubSeq(words, 1, e)
      BY <2>4
    <3> HIDE DEF e
    <3> QED
      BY <1>1, <1>2, <1>6, <3>2, <3>3, <3>4 DEF n, e
  <2> HIDE DEF e
  <2>7. Overlap < size \/ size <= Overlap
    BY <1>1, <2>1
  <2> QED
    BY <2>5, <2>6, <2>7 DEF n
<1> QED
  BY <1>5, <1>6

\* The words of the chunks of one sequence, each in its place, put together again.
LEMMA Rebuilt ==
    ASSUME NEW S, NEW words \in Seq(S), NEW R,
           Cardinality(R) = Len(ChunkMarkdown(words)),
           \A k \in DOMAIN ChunkMarkdown(words) :
              (CHOOSE r \in R : r.index = k).text = ChunkMarkdown(words)[k]
    PROVE  Rebuild(R) = words
<1> DEFINE n == Len(words)
           N == Cardinality(R)
           text(k) == (CHOOSE r \in R : r.index = k).text
           piece(k) == SubSeq(text(k), IF k = 1 THEN 1 ELSE Overlap + 1, Len(text(k)))
           next(g) == [k \in 0..N |-> IF k = 0 THEN <<>> ELSE g[k - 1] \o piece(k)]
           covered == [k \in 0..N |-> SubSeq(words, 1, End(n, k))]
<1>1. /\ n \in Nat
      /\ N \in Nat
      /\ N = Chunks(n)
  <2>1. n \in Nat
    OBVIOUS
  <2> QED
    BY <2>1, ChunksCount, ChunkShape
<1>2. \A k \in 1..N : covered[k] = covered[k - 1] \o piece(k)
  <2> TAKE k \in 1..N
  <2>1. k \in 1..Chunks(n) /\ k \in 0..N /\ k - 1 \in 0..N
    BY <1>1
  <2>2. text(k) = ChunkMarkdown(words)[k]
    BY <2>1, ChunkShape
  <2> HIDE DEF text, N
  <2> QED
    BY <2>1, <2>2, ChunkAdds
<1>3. covered[0] = <<>>
  <2>1. 0 \in 0..N /\ End(n, 0) = 0
    BY <1>1 DEF End
  <2> QED
    BY <2>1, SubSeqEmpty
<1>4. covered[N] = words
  <2>1. N \in 0..N /\ End(n, N) = n
    BY <1>1, EndOfLast
  <2> QED
    BY <2>1, SubSeqFull
<1> HIDE DEF n, N, piece
<1>5. covered = next(covered)
  <2>1. covered = [k \in 0..N |-> covered[k]]
    OBVIOUS
  <2> HIDE DEF covered
  <2>2. \A k \in 0..N : covered[k] = IF k = 0 THEN <<>> ELSE covered[k - 1] \o piece(k)
    <3> TAKE k \in 0..N
    <3>1. CASE k = 0
      BY <1>3, <3>1
    <3>2. CASE k # 0
      <4>1. k \in 1..N
        BY <1>1, <3>2
      <4> QED
        BY <1>2, <3>2, <4>1
    <3> QED
      BY <3>1, <3>2
  <2> QED
    BY <2>1, <2>2
<1>6. ASSUME NEW g, g = next(g)
      PROVE  g[N] = words
  <2> DEFINE agree == {k \in 0..N : g[k] = covered[k]}
  <2> HIDE DEF covered
  <2>1. \A k \in 0..N : g[k] = IF k = 0 THEN <<>> ELSE g[k - 1] \o piece(k)
    BY <1>6, Zenon
  <2>2. 0 \in agree
    <3>1. 0 \in 0..N
      BY <1>1
    <3> QED
      BY <1>3, <2>1, <3>1
  <2>3. \A k \in 1..N : k - 1 \in agree => k \in agree
    <3> SUFFICES ASSUME NEW k \in 1..N, k - 1 \in agree
                 PROVE  k \in agree
      OBVIOUS
    <3>1. k \in 0..N /\ k # 0
      BY <1>1
    <3>2. g[k] = g[k - 1] \o piece(k)
      BY <2>1, <3>1
    <3>3. covered[k] = covered[k - 1] \o piece(k)
      BY <1>2
    <3> QED
      BY <3>1, <3>2, <3>3
  <2> HIDE DEF agree
  <2>4. 0..N \subseteq agree
    BY <1>1, <2>2, <2>3, UpTo
  <2>5. N \in agree
    BY <1>1, <2>4
  <2> QED
    BY <1>4, <2>5 DEF agree
<1>7. (CHOOSE g : g = next(g))[N] = words
  <2> HIDE DEF next
  <2> QED
    BY <1>5, <1>6
<1> QED
  BY <1>7 DEF Rebuild, N, piece

-----------------------------------------------------------------------------
(* Rows *)

\* The rows of a document carry its path and the indices of its chunks, and there
\* are as many of them as chunks.
LEMMA RowsShape ==
    ASSUME NEW p, NEW d \in Document
    PROVE  /\ \A r \in RowsFor(p, d) : r.path = p
           /\ RowsFor(p, d) # {} => \E r \in RowsFor(p, d) : r.index = 1
           /\ Len(ChunkMarkdown(d.words)) \in Nat
           /\ Cardinality(RowsFor(p, d)) = Len(ChunkMarkdown(d.words))
           /\ Len(ChunkMarkdown(d.words)) > 0 => RowsFor(p, d) # {}
<1> DEFINE c == ChunkMarkdown(d.words)
           n == Chunks(Len(d.words))
           f == [k \in 1..n |->
                    [path |-> p, index |-> k, title |-> d.title, text |-> c[k]]]
<1>1. /\ DOMAIN c = 1..n
      /\ Len(c) = n
      /\ n \in Nat
  <2>1. d.words \in Seq(STRING)
    BY DocumentAssumption
  <2>2. Len(d.words) \in Nat
    BY <2>1
  <2> QED
    BY <2>1, <2>2, ChunkShape, ChunksCount
<1> HIDE DEF c, n
<1>2. RowsFor(p, d) = {f[k] : k \in 1..n}
  BY <1>1 DEF RowsFor, c
<1>3. \A k \in 1..n : f[k].index = k /\ f[k].path = p
  OBVIOUS
<1>4. f \in Bijection(1..n, RowsFor(p, d))
  BY <1>2, <1>3 DEF Bijection, Injection, Surjection, IsInjective
<1>5. Cardinality(RowsFor(p, d)) = n
  BY <1>1, <1>4, FS_CountingElements DEF ExistsBijection
<1>6. n > 0 => 1 \in 1..n /\ f[1] \in RowsFor(p, d)
  BY <1>1, <1>2
<1>7. RowsFor(p, d) # {} => n > 0
  BY <1>1, <1>2
<1> QED
  BY <1>1, <1>2, <1>3, <1>5, <1>6, <1>7 DEF c

\* The rows of a document, put together again, are the document.
LEMMA RowsRebuilt ==
    ASSUME NEW p, NEW d \in Document
    PROVE  Rebuild(RowsFor(p, d)) = d.words
<1> DEFINE c == ChunkMarkdown(d.words)
           R == RowsFor(p, d)
<1>1. d.words \in Seq(STRING)
  BY DocumentAssumption
<1>2. Cardinality(R) = Len(c)
  BY RowsShape
<1>3. ASSUME NEW k \in DOMAIN c
      PROVE  (CHOOSE r \in R : r.index = k).text = c[k]
  <2>1. \E r \in R : r.index = k
    <3> DEFINE row == [path |-> p, index |-> k, title |-> d.title, text |-> c[k]]
    <3>1. row \in R /\ row.index = k
      BY DEF RowsFor
    <3> QED
      BY <3>1
  <2>2. \A r \in R : r.index = k => r.text = c[k]
    BY DEF RowsFor
  <2> HIDE DEF R, c
  <2> QED
    BY <2>1, <2>2
<1> HIDE DEF R
<1> QED
  BY <1>1, <1>2, <1>3, Rebuilt DEF R

\* The rows of a path are those of one document.
OneDocument ==
    \A p \in Path : Stored(p) = {} \/ \E d \in Document : Stored(p) = RowsFor(p, d)

RowsTypeOK == rows \in SUBSET UNION {RowsFor(p, d) : p \in Path, d \in Document}

\* A document can be inserted only where nothing is stored, or has nothing to store.
LEMMA InsertNeedsRoom ==
    ASSUME OneDocument, NEW p \in Path, NEW d \in Document, Insert(p, d)
    PROVE  Stored(p) = {} \/ RowsFor(p, d) = {}
<1> SUFFICES ASSUME Stored(p) # {}, RowsFor(p, d) # {}
             PROVE  FALSE
  OBVIOUS
<1>1. PICK e \in Document : Stored(p) = RowsFor(p, e)
  BY DEF OneDocument
<1>2. PICK r \in RowsFor(p, e) : r.index = 1 /\ r.path = p
  BY <1>1, RowsShape
<1>3. PICK s \in RowsFor(p, d) : s.index = 1 /\ s.path = p
  BY RowsShape
<1>4. r \in rows
  BY <1>1, <1>2 DEF Stored
<1> QED
  BY <1>2, <1>3, <1>4 DEF Insert, Clash

\* What any attempt to store a document does: the path holds it if it was inserted
\* and is not empty, and what a path held before stays as it is.
LEMMA StoreKeeps ==
    ASSUME RowsTypeOK, OneDocument, NEW p \in Path, NEW d \in Document,
           UNCHANGED rows \/ Insert(p, d)
    PROVE  /\ RowsTypeOK'
           /\ OneDocument'
           /\ \A q \in Path : Stored(q) # {} => Stored(q)' = Stored(q)
           /\ Insert(p, d) /\ RowsFor(p, d) # {} => Stored(p)' = RowsFor(p, d)
<1>1. CASE UNCHANGED rows
  <2>1. \A q : Stored(q)' = Stored(q)
    BY <1>1 DEF Stored
  <2>2. Insert(p, d) /\ RowsFor(p, d) # {} => Stored(p)' = RowsFor(p, d)
    <3> SUFFICES ASSUME Insert(p, d), RowsFor(p, d) # {} PROVE FALSE
      OBVIOUS
    <3>1. \A r \in RowsFor(p, d) : r \in rows
      BY <1>1 DEF Insert
    <3> QED
      BY <3>1 DEF Insert, Clash
  <2> QED
    BY <1>1, <2>1, <2>2 DEF RowsTypeOK, OneDocument
<1>2. CASE Insert(p, d)
  <2>1. rows' = rows \union RowsFor(p, d)
    BY <1>2 DEF Insert
  <2>2. \A r \in RowsFor(p, d) : r.path = p
    BY RowsShape
  <2>3. \A q : q # p => Stored(q)' = Stored(q)
    BY <2>1, <2>2 DEF Stored
  <2>4. Stored(p)' = Stored(p) \union RowsFor(p, d)
    BY <2>1, <2>2 DEF Stored
  <2>5. Stored(p) = {} \/ RowsFor(p, d) = {}
    BY <1>2, InsertNeedsRoom
  <2>6. Stored(p) # {} => Stored(p)' = Stored(p)
    BY <2>4, <2>5
  <2>7. RowsFor(p, d) # {} => Stored(p)' = RowsFor(p, d)
    BY <2>4, <2>5
  <2>8. OneDocument'
    <3> SUFFICES ASSUME NEW q \in Path
                 PROVE  \/ Stored(q)' = {}
                        \/ \E e \in Document : Stored(q)' = RowsFor(q, e)
      BY DEF OneDocument, RowsFor, ChunkMarkdown
    <3>1. CASE q # p
      BY <2>3, <3>1 DEF OneDocument
    <3>2. CASE q = p /\ RowsFor(p, d) = {}
      BY <2>4, <3>2 DEF OneDocument
    <3>3. CASE q = p /\ RowsFor(p, d) # {}
      BY <2>7, <3>3
    <3> QED
      BY <3>1, <3>2, <3>3
  <2>9. RowsTypeOK'
    BY <2>1 DEF RowsTypeOK
  <2> QED
    BY <2>3, <2>6, <2>7, <2>8, <2>9
<1> QED
  BY <1>1, <1>2

-----------------------------------------------------------------------------
(* The inductive invariant *)

\* A request that was received has a document.
RequestHasDocument ==
    \A u \in Upload : request[u].at \in {"store", "answered"} => request[u].doc \in Document

\* File n has rows, or there was nothing to store of it in this startup.
Ingested(n) == Stored(File[n]) # {} \/ File[n] \in skipped

\* Startup goes through the files in order.
FilesInOrder ==
    /\ boot.at = "store" => /\ boot.doc \in Document
                            /\ boot.pos <= Len(File)
                            /\ RowsFor(File[boot.pos], boot.doc) = {}
                                   => File[boot.pos] \in skipped
    /\ boot.at \in {"file", "store"} => \A n \in 1..(boot.pos - 1) : n <= Len(File) => Ingested(n)
    /\ boot.at = "ready" => \A n \in 1..Len(File) : Ingested(n)

KInv ==
    /\ TypeOK
    /\ OneDocument
    /\ RequestHasDocument
    /\ FilesInOrder
    /\ AnswerTellsStored

LEMMA FileType ==
    /\ Len(File) \in Nat
    /\ DOMAIN File = 1..Len(File)
    /\ Api \in Path
    /\ \A n \in 1..Len(File) : File[n] \in Path /\ File[n] # Api
BY FileAssumption DEF Path

LEMMA InitKInv == Init => KInv
<1> SUFFICES ASSUME Init PROVE KInv
  OBVIOUS
<1>1. \A p : Stored(p) = {}
  BY DEF Init, Stored
<1>2. TypeOK
  BY FileType, RestartAssumption DEF Init, TypeOK, AnyDocument
<1> QED
  BY <1>1, <1>2 DEF Init, KInv, OneDocument, RequestHasDocument, FilesInOrder,
                    AnswerTellsStored

-----------------------------------------------------------------------------
(* Steps that leave the rows alone *)

LEMMA RunTaskInv == ASSUME KInv, NEW w \in Worker, RunTask(w) PROVE KInv'
<1>1. UNCHANGED <<rows, apiVars, skipped>>
  BY DEF RunTask, TaskLoads, LookupReturns, LookupRaises, TaskPersists, TaskFails, TaskEmbeds
<1>2. \A p : Stored(p)' = Stored(p)
  BY <1>1 DEF Stored
<1>3. TypeOK'
  BY <1>1 DEF KInv, TypeOK, apiVars, RunTask, TaskLoads, LookupReturns, LookupRaises,
              TaskPersists, TaskFails, TaskEmbeds, AfterLookup
<1> QED
  BY <1>1, <1>2, <1>3 DEF KInv, apiVars, OneDocument, RequestHasDocument, FilesInOrder,
                          Ingested, AnswerTellsStored

LEMMA ReceiveInv ==
    ASSUME KInv, NEW u \in Upload, NEW d \in Document, Receive(u, d)
    PROVE  KInv'
<1>1. /\ UNCHANGED <<rows, boot, restarts, workerVars, skipped>>
      /\ request' \in [Upload -> [at : {"idle", "store", "answered", "lost"},
                                   doc : AnyDocument, stored : Nat]]
      /\ request'[u].at = "store" /\ request'[u].doc = d
      /\ \A v \in Upload : v # u => request'[v] = request[v]
  <2> DEFINE R == [at : {"idle", "store", "answered", "lost"}, doc : AnyDocument, stored : Nat]
             r == [request[u] EXCEPT !.at = "store", !.doc = d]
  <2>1. request \in [Upload -> R]
    BY DEF KInv, TypeOK
  <2>2. r \in R /\ r.at = "store" /\ r.doc = d
    BY <2>1 DEF AnyDocument
  <2>3. request' = [request EXCEPT ![u] = r]
    BY <2>1 DEF Receive
  <2>4. UNCHANGED <<rows, boot, restarts, workerVars, skipped>>
    BY DEF Receive
  <2> HIDE DEF R, r
  <2>5. /\ request' \in [Upload -> R]
        /\ request'[u] = r
        /\ \A v \in Upload : v # u => request'[v] = request[v]
    BY <2>1, <2>2, <2>3
  <2> QED
    BY <2>2, <2>4, <2>5 DEF R
<1>2. \A p : Stored(p)' = Stored(p)
  BY <1>1 DEF Stored
<1>3. TypeOK'
  BY <1>1 DEF KInv, TypeOK, workerVars
<1> QED
  BY <1>1, <1>2, <1>3 DEF KInv, OneDocument, RequestHasDocument, FilesInOrder,
                          Ingested, AnswerTellsStored

\* A startup step that touches no rows.
LEMMA StartupInv ==
    ASSUME KInv, UNCHANGED <<rows, request, restarts, workerVars>>,
           StartUp \/ ReadRaises \/ Serve \/ \E d \in Document : ReadFile(d)
    PROVE  KInv'
<1>1. \A p : Stored(p)' = Stored(p)
  BY DEF Stored
<1>2. /\ boot.pos \in 1..(Len(File) + 1)
      /\ \A n \in 1..Len(File) : File[n] \in Path
      /\ Len(File) \in Nat
  BY FileType DEF KInv, TypeOK
<1>3. CASE StartUp
  <2>1. TypeOK'
    BY <1>2, <1>3 DEF KInv, TypeOK, StartUp, workerVars, AnyDocument
  <2>2. FilesInOrder'
    BY <1>3 DEF StartUp, FilesInOrder
  <2> QED
    BY <1>1, <2>1, <2>2 DEF KInv, OneDocument, RequestHasDocument, AnswerTellsStored
<1>4. CASE ReadRaises
  <2>1. TypeOK'
    BY <1>2, <1>4 DEF KInv, TypeOK, ReadRaises, workerVars
  <2>2. \A n \in 1..Len(File) : Ingested(n)'
    <3> SUFFICES ASSUME NEW n \in 1..Len(File) PROVE Ingested(n)'
      OBVIOUS
    <3>1. CASE n < boot.pos
      BY <1>1, <1>2, <1>4, <3>1 DEF ReadRaises, KInv, FilesInOrder, Ingested
    <3>2. CASE n >= boot.pos
      BY <1>2, <1>4, <3>2 DEF ReadRaises, Ingested
    <3> QED
      BY <1>2, <3>1, <3>2
  <2>3. FilesInOrder'
    BY <1>4, <2>2 DEF ReadRaises, FilesInOrder, KInv, TypeOK
  <2> QED
    BY <1>1, <2>1, <2>3 DEF KInv, OneDocument, RequestHasDocument, AnswerTellsStored
<1>5. CASE Serve
  <2>1. TypeOK'
    BY <1>2, <1>5 DEF KInv, TypeOK, Serve, workerVars
  <2>2. \A n \in 1..Len(File) : Ingested(n)'
    BY <1>1, <1>2, <1>5 DEF Serve, KInv, FilesInOrder, Ingested
  <2>3. FilesInOrder'
    BY <1>5, <2>2 DEF Serve, FilesInOrder, KInv, TypeOK
  <2> QED
    BY <1>1, <2>1, <2>3 DEF KInv, OneDocument, RequestHasDocument, AnswerTellsStored
<1>6. ASSUME NEW d \in Document, ReadFile(d) PROVE KInv'
  <2>0. /\ boot \in [at : {"down", "file", "store", "ready"},
                     pos : 1..(Len(File) + 1), doc : AnyDocument]
        /\ boot' = [boot EXCEPT !.at = "store", !.doc = d]
        /\ boot.at = "file" /\ boot.pos <= Len(File)
        /\ boot.pos \in 1..Len(File)
        /\ skipped' = skipped \union {File[boot.pos]} \/ skipped' = skipped
    <3>1. /\ boot' = [boot EXCEPT !.at = "store", !.doc = d]
          /\ boot.at = "file" /\ boot.pos <= Len(File)
          /\ skipped' = skipped \union {File[boot.pos]} \/ skipped' = skipped
      BY <1>6 DEF ReadFile
    <3> QED
      BY <1>2, <3>1 DEF KInv, TypeOK
  <2>1. TypeOK'
    <3>1. boot' \in [at : {"down", "file", "store", "ready"},
                     pos : 1..(Len(File) + 1), doc : AnyDocument]
      BY <2>0 DEF AnyDocument
    <3>2. skipped' \in SUBSET Path
      BY <1>2, <2>0 DEF KInv, TypeOK
    <3> QED
      BY <3>1, <3>2 DEF KInv, TypeOK, workerVars
  <2>2. /\ boot'.at = "store" /\ boot'.doc = d /\ boot'.pos = boot.pos
        /\ skipped \subseteq skipped'
        /\ RowsFor(File[boot.pos], d) = {} => File[boot.pos] \in skipped'
        /\ boot.at = "file" /\ boot.pos <= Len(File)
    <3>1. boot'.at = "store" /\ boot'.doc = d /\ boot'.pos = boot.pos
      BY <2>0
    <3>2. /\ skipped \subseteq skipped'
          /\ RowsFor(File[boot.pos], d) = {} => File[boot.pos] \in skipped'
      BY <1>6 DEF ReadFile
    <3> QED
      BY <2>0, <3>1, <3>2
  <2>3. FilesInOrder'
    BY <1>1, <2>2 DEF FilesInOrder, Ingested, KInv, RowsFor, ChunkMarkdown
  <2> QED
    BY <1>1, <2>1, <2>3 DEF KInv, OneDocument, RequestHasDocument, AnswerTellsStored
<1> QED
  BY <1>3, <1>4, <1>5, <1>6

LEMMA GoDownInv == ASSUME KInv, GoDown PROVE KInv'
<1>1. \A p : Stored(p)' = Stored(p)
  BY DEF Stored, GoDown
<1>2. \A u \in Upload : /\ request'[u].doc = request[u].doc
                        /\ request'[u].stored = request[u].stored
                        /\ request'[u].at \in {request[u].at, "lost"}
  BY DEF GoDown, KInv, TypeOK
<1>3. TypeOK'
  <2>1. restarts' \in 0..MaxRestarts
    BY RestartAssumption DEF GoDown, KInv, TypeOK
  <2>2. request' \in [Upload -> [at : {"idle", "store", "answered", "lost"},
                                 doc : AnyDocument, stored : Nat]]
    BY DEF GoDown, KInv, TypeOK
  <2> QED
    BY <2>1, <2>2, FileType DEF GoDown, KInv, TypeOK, workerVars, AnyDocument
<1>4. boot'.at = "down"
  BY DEF GoDown
<1> QED
  BY <1>1, <1>2, <1>3, <1>4 DEF KInv, OneDocument, RequestHasDocument, FilesInOrder,
                                AnswerTellsStored, GoDown

-----------------------------------------------------------------------------
(* Steps that store *)

\* A positive answer remains true whatever is stored afterwards.
LEMMA AnswerKept ==
    ASSUME KInv, NEW p \in Path, NEW d \in Document, UNCHANGED rows \/ Insert(p, d),
           NEW u \in Upload, request[u].at = "answered", request[u].stored > 0
    PROVE  Stored(Api)' = Stored(Api)
<1>1. Stored(Api) # {}
  BY FS_EmptySet DEF KInv, AnswerTellsStored
<1> QED
  BY <1>1, StoreKeeps, FileType DEF KInv, TypeOK, RowsTypeOK

\* The answer that a request gets: nothing, or all of an inserted document.
LEMMA AnswerInv ==
    ASSUME KInv, NEW u \in Upload, NEW n, request[u].at = "store",
           \/ n = 0 /\ (UNCHANGED rows \/ Insert(Api, request[u].doc))
           \/ n = Len(ChunkMarkdown(request[u].doc.words)) /\ Insert(Api, request[u].doc),
           Answer(u, n)
    PROVE  KInv'
<1> DEFINE d == request[u].doc
<1>1. d \in Document /\ Api \in Path
  BY FileType DEF KInv, RequestHasDocument
<1>2. /\ RowsTypeOK'
      /\ OneDocument'
      /\ \A q \in Path : Stored(q) # {} => Stored(q)' = Stored(q)
      /\ Insert(Api, d) /\ RowsFor(Api, d) # {} => Stored(Api)' = RowsFor(Api, d)
  BY <1>1, StoreKeeps DEF KInv, TypeOK, RowsTypeOK
<1>3. /\ n \in Nat
      /\ n > 0 => /\ Stored(Api)' = RowsFor(Api, d)
                  /\ n = Cardinality(RowsFor(Api, d))
  <2>1. CASE n = 0
    BY <2>1
  <2>2. CASE n = Len(ChunkMarkdown(d.words)) /\ Insert(Api, d)
    BY <1>1, <1>2, <2>2, RowsShape
  <2> QED
    BY <2>1, <2>2
<1>4. /\ request' \in [Upload -> [at : {"idle", "store", "answered", "lost"},
                                   doc : AnyDocument, stored : Nat]]
      /\ request'[u].at = "answered" /\ request'[u].doc = d /\ request'[u].stored = n
      /\ \A v \in Upload : v # u => request'[v] = request[v]
  <2> DEFINE R == [at : {"idle", "store", "answered", "lost"}, doc : AnyDocument, stored : Nat]
             r == [request[u] EXCEPT !.at = "answered", !.stored = n]
  <2>1. request \in [Upload -> R]
    BY DEF KInv, TypeOK
  <2>2. r \in R /\ r.at = "answered" /\ r.doc = d /\ r.stored = n
    BY <1>3, <2>1
  <2>3. request' = [request EXCEPT ![u] = r]
    BY <2>1 DEF Answer
  <2> HIDE DEF R, r
  <2>4. /\ request' \in [Upload -> R]
        /\ request'[u] = r
        /\ \A v \in Upload : v # u => request'[v] = request[v]
    BY <2>1, <2>2, <2>3
  <2> QED
    BY <2>2, <2>4 DEF R
<1> HIDE DEF d
<1>5. UNCHANGED <<boot, restarts, task, txn, skipped>>
  BY DEF Answer, workerVars
<1>6. TypeOK'
  BY <1>2, <1>4, <1>5 DEF KInv, TypeOK, RowsTypeOK
<1>7. RequestHasDocument'
  BY <1>1, <1>4 DEF KInv, RequestHasDocument
<1>8. FilesInOrder'
  BY <1>2, <1>5, FileType DEF KInv, FilesInOrder, Ingested, RowsFor, ChunkMarkdown
<1>9. AnswerTellsStored'
  <2> SUFFICES ASSUME NEW v \in Upload, request'[v].at = "answered", request'[v].stored > 0
               PROVE  /\ Stored(Api)' = RowsFor(Api, request'[v].doc)
                      /\ request'[v].stored = Cardinality(Stored(Api)')
    BY DEF AnswerTellsStored, RowsFor, ChunkMarkdown
  <2>1. CASE v = u
    BY <1>3, <1>4, <2>1
  <2>2. CASE v # u
    <3>1. Stored(Api)' = Stored(Api)
      BY <1>1, <1>4, <2>2, AnswerKept DEF d
    <3> QED
      BY <1>4, <2>2, <3>1 DEF KInv, AnswerTellsStored
  <2> QED
    BY <2>1, <2>2
<1> QED
  BY <1>2, <1>6, <1>7, <1>8, <1>9 DEF KInv

LEMMA UploadInv ==
    ASSUME KInv, NEW u \in Upload, HandleUpload(u)
    PROVE  KInv'
<1>1. CASE \E d \in Document : Receive(u, d)
  BY <1>1, ReceiveInv
<1>2. CASE UploadStores(u)
  BY <1>2, AnswerInv DEF UploadStores
<1>3. CASE UploadStoresNothing(u)
  BY <1>3, AnswerInv DEF UploadStoresNothing, Collide, StoreRaises
<1> QED
  BY <1>1, <1>2, <1>3 DEF HandleUpload

\* After an attempt at the file that was read, startup goes on to the next one.
LEMMA FileInv ==
    ASSUME KInv, FileStored \/ FileKnown \/ FileRaises
    PROVE  KInv'
<1>0. PICK p, d : p = File[boot.pos] /\ d = boot.doc
  OBVIOUS
<1>1. /\ boot.pos \in 1..Len(File)
      /\ Len(File) \in Nat
      /\ p \in Path /\ p # Api
      /\ d \in Document
      /\ boot.at = "store"
  BY <1>0, FileType DEF KInv, TypeOK, FilesInOrder, FileStored, FileKnown, FileRaises
<1>2. UNCHANGED rows \/ Insert(p, d)
  BY <1>0 DEF FileStored, FileKnown, FileRaises, Collide, StoreRaises
<1>3. /\ RowsTypeOK'
      /\ OneDocument'
      /\ \A q \in Path : Stored(q) # {} => Stored(q)' = Stored(q)
      /\ Insert(p, d) /\ RowsFor(p, d) # {} => Stored(p)' = RowsFor(p, d)
  BY <1>1, <1>2, StoreKeeps DEF KInv, TypeOK, RowsTypeOK
<1>4. /\ boot'.at = "file" /\ boot'.pos = boot.pos + 1 /\ boot'.doc = NoDocument
      /\ boot' \in [at : {"down", "file", "store", "ready"},
                     pos : 1..(Len(File) + 1), doc : AnyDocument]
      /\ UNCHANGED <<request, restarts, task, txn>>
  BY <1>1 DEF FileStored, FileKnown, FileRaises, NextFile, workerVars, AnyDocument
<1>5. skipped' = skipped \/ skipped' = skipped \union {p}
  BY <1>0 DEF FileStored, FileKnown, FileRaises
<1>6. Stored(p)' # {} \/ p \in skipped'
  <2>1. CASE FileStored
    BY <1>0, <1>1, <1>3, <1>5, <2>1 DEF FileStored, KInv, FilesInOrder
  <2>2. CASE FileKnown
    <3>1. PICK r \in rows, s \in RowsFor(p, d) : Clash(r, s)
      BY <1>0, <2>2 DEF FileKnown, Collide
    <3>2. r \in Stored(p)
      BY <1>1, <3>1, RowsShape DEF Clash, Stored
    <3> QED
      BY <1>1, <1>3, <3>2
  <2>3. CASE FileRaises
    BY <1>0, <2>3 DEF FileRaises
  <2> QED
    BY <2>1, <2>2, <2>3
<1>7. TypeOK'
  BY <1>1, <1>3, <1>4, <1>5 DEF KInv, TypeOK, RowsTypeOK
<1>8. FilesInOrder'
  <2>1. ASSUME NEW n \in 1..(boot'.pos - 1), n <= Len(File)
        PROVE  Ingested(n)'
    <3>1. CASE n = boot.pos
      BY <1>0, <1>6, <3>1 DEF Ingested
    <3>2. CASE n # boot.pos
      <4>1. n \in 1..(boot.pos - 1)
        BY <1>1, <1>4, <3>2
      <4>2. Ingested(n)
        BY <1>1, <2>1, <4>1 DEF KInv, FilesInOrder
      <4>3. File[n] \in Path
        BY <1>1, <2>1, <4>1, FileType
      <4> QED
        BY <1>3, <1>5, <4>2, <4>3 DEF Ingested
    <3> QED
      BY <3>1, <3>2
  <2> QED
    BY <1>4, <2>1 DEF FilesInOrder
<1>9. AnswerTellsStored'
  <2> SUFFICES ASSUME NEW v \in Upload, request[v].at = "answered", request[v].stored > 0
               PROVE  /\ Stored(Api)' = RowsFor(Api, request[v].doc)
                      /\ request[v].stored = Cardinality(Stored(Api)')
    BY <1>4 DEF AnswerTellsStored, RowsFor, ChunkMarkdown
  <2>1. Stored(Api)' = Stored(Api)
    BY <1>1, <1>2, AnswerKept
  <2> QED
    BY <2>1 DEF KInv, AnswerTellsStored
<1> QED
  BY <1>3, <1>4, <1>7, <1>8, <1>9 DEF KInv, RequestHasDocument

-----------------------------------------------------------------------------
(* Theorems *)

THEOREM Invariance == Spec => []KInv
<1>1. KInv /\ [Next]_vars => KInv'
  <2> SUFFICES ASSUME KInv, [Next]_vars PROVE KInv'
    OBVIOUS
  <2>1. ASSUME NEW u \in Upload, HandleUpload(u) PROVE KInv'
    BY <2>1, UploadInv
  <2>2. CASE StartUp \/ ReadRaises \/ Serve \/ \E d \in Document : ReadFile(d)
    <3>1. UNCHANGED <<rows, request, restarts, workerVars>>
      BY <2>2 DEF StartUp, ReadRaises, Serve, ReadFile
    <3> QED
      BY <2>2, <3>1, StartupInv
  <2>3. CASE FileStored \/ FileKnown \/ FileRaises
    BY <2>3, FileInv
  <2>4. CASE GoDown
    BY <2>4, GoDownInv
  <2>5. ASSUME NEW w \in Worker, RunTask(w) PROVE KInv'
    BY <2>5, RunTaskInv
  <2>6. CASE UNCHANGED vars
    <3>1. UNCHANGED <<rows, request, boot, restarts, task, txn, skipped>>
      BY <2>6 DEF vars, apiVars, workerVars
    <3>2. \A p : Stored(p)' = Stored(p)
      BY <3>1 DEF Stored
    <3>3. TypeOK'
      BY <3>1 DEF KInv, TypeOK
    <3> QED
      BY <3>1, <3>2, <3>3 DEF KInv, OneDocument, RequestHasDocument, FilesInOrder,
                              Ingested, AnswerTellsStored
  <2> QED
    BY <2>1, <2>2, <2>3, <2>4, <2>5, <2>6 DEF Next, Ingest
<1> QED
  BY InitKInv, <1>1, PTL DEF Spec

\* Type correctness, for any documents, files, uploads and workers.
THEOREM TypeCorrect == Spec => []TypeOK
<1>1. KInv => TypeOK
  BY DEF KInv
<1> QED
  BY <1>1, Invariance, PTL

\* A positive chunks_stored stays true.
THEOREM AnswersAreTrue == Spec => []AnswerTellsStored
<1>1. KInv => AnswerTellsStored
  BY DEF KInv
<1> QED
  BY <1>1, Invariance, PTL

\* Whatever cut an earlier startup short, a finished one has tried every file.
THEOREM StartupIsComplete == Spec => []IngestComplete
<1>1. KInv => IngestComplete
  BY FileType DEF KInv, FilesInOrder, Ingested, IngestComplete
<1> QED
  BY <1>1, Invariance, PTL

\* Whatever uploads, startups and losses came together, the rows of a path are one
\* document: they carry one title, and their texts, put together by the indices as
\* the overlap demands, are the words of that document (memory.py, store_runbook).
THEOREM StoredIsWhole == Spec => []StoredWhole
<1>1. KInv => StoredWhole
  <2> SUFFICES ASSUME KInv, NEW p \in Path, Stored(p) # {}
               PROVE  \E d \in Document : /\ \A r \in Stored(p) : r.title = d.title
                                          /\ Rebuild(Stored(p)) = d.words
    BY DEF StoredWhole
  <2>1. PICK d \in Document : Stored(p) = RowsFor(p, d)
    BY DEF KInv, OneDocument
  <2>2. \A r \in RowsFor(p, d) : r.title = d.title
    BY DEF RowsFor
  <2>3. Rebuild(Stored(p)) = d.words
    BY <2>1, RowsRebuilt
  <2> QED
    BY <2>1, <2>2, <2>3
<1> QED
  BY <1>1, Invariance, PTL

\* What a path holds is one document, and it is never replaced: neither a second
\* upload nor an edited file changes what is stored.
THEOREM StoredStays ==
    Spec => /\ []OneDocument
            /\ [][\A p \in Path : Stored(p) # {} => Stored(p)' = Stored(p)]_vars
<1> DEFINE Kept == \A p \in Path : Stored(p) # {} => Stored(p)' = Stored(p)
<1>1. KInv /\ [Next]_vars => [Kept]_vars
  <2> SUFFICES ASSUME KInv, Next PROVE Kept
    OBVIOUS
  <2>1. CASE UNCHANGED rows
    BY <2>1 DEF Stored
  <2>2. ASSUME NEW u \in Upload, UploadStores(u) \/ UploadStoresNothing(u) PROVE Kept
    <3>1. /\ request[u].doc \in Document
          /\ UNCHANGED rows \/ Insert(Api, request[u].doc)
          /\ Api \in Path
      BY <2>2, FileType DEF UploadStores, UploadStoresNothing, Collide, StoreRaises, KInv,
                            RequestHasDocument
    <3> QED
      BY <3>1, StoreKeeps DEF KInv, TypeOK, RowsTypeOK
  <2>3. CASE FileStored \/ FileKnown \/ FileRaises
    <3>1. /\ boot.doc \in Document
          /\ UNCHANGED rows \/ Insert(File[boot.pos], boot.doc)
          /\ File[boot.pos] \in Path
      BY <2>3, FileType DEF FileStored, FileKnown, FileRaises, Collide, StoreRaises, KInv,
                            TypeOK, FilesInOrder
    <3> QED
      BY <3>1, StoreKeeps DEF KInv, TypeOK, RowsTypeOK
  <2> QED
    BY <2>1, <2>2, <2>3 DEF Next, Ingest, HandleUpload, Receive, StartUp, ReadFile,
        ReadRaises, Serve, GoDown, RunTask, TaskLoads, LookupReturns, LookupRaises,
        TaskPersists, TaskFails, TaskEmbeds
<1>2. KInv => OneDocument
  BY DEF KInv
<1> QED
  BY <1>1, <1>2, Invariance, PTL DEF Spec

-----------------------------------------------------------------------------
(* One upload is ever stored *)

Success(u) == request[u].at = "answered" /\ request[u].stored > 0

OneUpload == \A u, v \in Upload : Success(u) /\ Success(v) => u = v

\* What the uploads' path holds came from an upload that was told so, and nobody who
\* sent words was turned away before that.
FirstComeFirstServed ==
    /\ Stored(Api) # {} => \E v \in Upload : Success(v)
    /\ \A u \in Upload : request[u].at = "answered" /\ request[u].doc.words # <<>>
                            => \E v \in Upload : Success(v)

UploadInvariant == OneUpload /\ (CallsMayFail \/ FirstComeFirstServed)

\* Only a document without words has no rows.
LEMMA WordsMakeRows ==
    ASSUME NEW p, NEW d \in Document
    PROVE  /\ d.words # <<>> => Len(ChunkMarkdown(d.words)) > 0
           /\ Len(ChunkMarkdown(d.words)) = 0 => RowsFor(p, d) = {}
<1>1. d.words \in Seq(STRING) /\ Len(d.words) \in Nat
  BY DocumentAssumption
<1>2. /\ Len(ChunkMarkdown(d.words)) = Chunks(Len(d.words))
      /\ DOMAIN ChunkMarkdown(d.words) = 1..Chunks(Len(d.words))
  BY <1>1, ChunkShape
<1>3. d.words # <<>> => Len(d.words) > 0
  BY <1>1
<1>4. Chunks(Len(d.words)) = 0 => RowsFor(p, d) = {}
  BY <1>2 DEF RowsFor
<1> QED
  BY <1>1, <1>2, <1>3, <1>4, ChunksCount

LEMMA SuccessFills ==
    ASSUME KInv, NEW u \in Upload, Success(u)
    PROVE  Stored(Api) # {}
BY FS_EmptySet DEF KInv, AnswerTellsStored, Success

\* Nothing changes for the uploads while no request is answered and no row of theirs
\* is added.
LEMMA UploadsUntouched ==
    ASSUME UploadInvariant, Stored(Api)' = Stored(Api),
           \A u \in Upload : request[u].at = "answered" \/ request'[u].at = "answered"
                                => request'[u] = request[u]
    PROVE  UploadInvariant'
<1>1. \A u \in Upload : Success(u)' <=> Success(u)
  BY DEF Success
<1> QED
  BY <1>1 DEF UploadInvariant, OneUpload, FirstComeFirstServed

LEMMA UploadAnswered ==
    ASSUME KInv, UploadInvariant, NEW u \in Upload, UploadStores(u) \/ UploadStoresNothing(u)
    PROVE  UploadInvariant'
<1> DEFINE d == request[u].doc
<1>0. /\ request[u].at = "store" /\ d \in Document /\ Api \in Path
      /\ ~Success(u)
  BY FileType DEF UploadStores, UploadStoresNothing, KInv, RequestHasDocument, Success
<1>1. ASSUME NEW n, Answer(u, n)
      PROVE  /\ request'[u].at = "answered" /\ request'[u].stored = n /\ request'[u].doc = d
             /\ \A v \in Upload \ {u} : request'[v] = request[v]
  BY <1>1 DEF Answer, KInv, TypeOK
<1> HIDE DEF d
<1>2. ASSUME NEW n, Answer(u, n)
      PROVE  /\ \A v \in Upload \ {u} : Success(v)' <=> Success(v)
             /\ Success(u)' <=> n > 0
  BY <1>1, <1>2 DEF Success
<1>3. ASSUME UploadStores(u), Len(ChunkMarkdown(d.words)) > 0
      PROVE  UploadInvariant'
  <2>1. Insert(Api, d) /\ Answer(u, Len(ChunkMarkdown(d.words)))
    BY <1>3 DEF UploadStores, d
  <2>2. Stored(Api) = {}
    BY <1>0, <1>3, <2>1, InsertNeedsRoom, RowsShape DEF KInv
  <2>3. \A v \in Upload : ~Success(v)
    BY <2>2, SuccessFills
  <2>4. Success(u)' /\ \A v \in Upload \ {u} : ~Success(v)'
    BY <1>2, <1>3, <2>1, <2>3
  <2> QED
    BY <2>4 DEF UploadInvariant, OneUpload, FirstComeFirstServed
<1>4. ASSUME UploadStores(u), Len(ChunkMarkdown(d.words)) = 0
      PROVE  UploadInvariant'
  <2>1. Insert(Api, d) /\ Answer(u, 0)
    BY <1>4 DEF UploadStores, d
  <2>2. Stored(Api)' = Stored(Api) /\ d.words = <<>>
    BY <1>0, <1>4, <2>1, WordsMakeRows DEF Insert, Stored
  <2>3. \A v \in Upload : Success(v)' <=> Success(v)
    BY <1>0, <1>2, <2>1
  <2> QED
    BY <1>1, <2>1, <2>2, <2>3 DEF UploadInvariant, OneUpload, FirstComeFirstServed
<1>5. ASSUME UploadStoresNothing(u)
      PROVE  UploadInvariant'
  <2>1. Answer(u, 0)
    BY <1>5 DEF UploadStoresNothing
  <2>2. \A v \in Upload : Success(v)' <=> Success(v)
    BY <1>0, <1>2, <2>1
  <2>3. CASE CallsMayFail
    BY <2>2, <2>3 DEF UploadInvariant, OneUpload
  <2>4. CASE ~CallsMayFail
    <3>1. Collide(Api, d)
      BY <1>5, <2>4 DEF UploadStoresNothing, StoreRaises, d
    <3>2. Stored(Api) # {} /\ Stored(Api)' = Stored(Api)
      BY <1>0, <3>1, RowsShape DEF Collide, Clash, Stored
    <3>3. PICK v \in Upload : Success(v)
      BY <2>4, <3>2 DEF UploadInvariant, FirstComeFirstServed
    <3>4. Success(v)'
      BY <2>2, <3>3
    <3> QED
      BY <2>2, <3>4 DEF UploadInvariant, OneUpload, FirstComeFirstServed
  <2> QED
    BY <2>3, <2>4
<1>6. Len(ChunkMarkdown(d.words)) \in Nat
  BY <1>0, RowsShape
<1> QED
  BY <1>3, <1>4, <1>5, <1>6

LEMMA UploadInvariantStep ==
    ASSUME KInv, UploadInvariant, [Next]_vars
    PROVE  UploadInvariant'
<1>1. ASSUME NEW u \in Upload, NEW d \in Document, Receive(u, d)
      PROVE  UploadInvariant'
  BY <1>1, UploadsUntouched DEF Receive, KInv, TypeOK, Stored
<1>2. CASE FileStored \/ FileKnown \/ FileRaises
  <2>1. /\ boot.doc \in Document /\ UNCHANGED request
        /\ UNCHANGED rows \/ Insert(File[boot.pos], boot.doc)
        /\ File[boot.pos] # Api
    BY <1>2, FileType DEF FileStored, FileKnown, FileRaises, Collide, StoreRaises, NextFile,
                          KInv, TypeOK, FilesInOrder
  <2>2. Stored(Api)' = Stored(Api)
    BY <2>1, RowsShape DEF Insert, Stored
  <2> QED
    BY <2>1, <2>2, UploadsUntouched
<1>3. CASE GoDown
  BY <1>3, UploadsUntouched DEF GoDown, KInv, TypeOK, Stored
<1>4. CASE UNCHANGED <<rows, request>>
  BY <1>4, UploadsUntouched DEF Stored
<1> QED
  BY <1>1, <1>2, <1>3, <1>4, UploadAnswered
  DEF Next, HandleUpload, Ingest, StartUp, ReadFile, ReadRaises, Serve, RunTask, TaskLoads,
      LookupReturns, LookupRaises, TaskPersists, TaskFails, TaskEmbeds, vars, apiVars

LEMMA UploadInvariantHolds == Spec => []UploadInvariant
<1>1. Init => UploadInvariant
  BY DEF Init, UploadInvariant, OneUpload, FirstComeFirstServed, Success, Stored
<1> QED
  BY <1>1, UploadInvariantStep, Invariance, PTL DEF Spec

\* The rows of every upload have the same keys, so that of all the documents that are
\* ever uploaded to a database no more than one is stored.
THEOREM OnlyOneUpload == Spec => []OneUpload
<1>1. UploadInvariant => OneUpload
  BY DEF UploadInvariant
<1> QED
  BY <1>1, UploadInvariantHolds, PTL

\* Where the database works, that is the only reason why UploadIsStored fails: an upload
\* with words that was not stored came after one that was.
THEOREM RefusedUploadCameSecond ==
    ASSUME ~CallsMayFail
    PROVE  Spec => [](\A u \in Upload :
               request[u].at = "answered" /\ request[u].doc.words # <<>> /\ ~Success(u)
                  => \E v \in Upload \ {u} : Success(v))
<1>1. UploadInvariant =>
         \A u \in Upload :
             request[u].at = "answered" /\ request[u].doc.words # <<>> /\ ~Success(u)
                => \E v \in Upload \ {u} : Success(v)
  BY DEF UploadInvariant, FirstComeFirstServed
<1> QED
  BY <1>1, UploadInvariantHolds, PTL

-----------------------------------------------------------------------------
(* The session of the task *)

\* Only an error of the database itself can abort the task's transaction: without one
\* the lookups never make a task fail, as memory.py says of them.
THEOREM LookupsAreHarmless ==
    ASSUME ~CallsMayFail
    PROVE  Spec => []LookupNeverFailsTask
<1> DEFINE Healthy == \A w \in Worker : txn[w] = "usable" /\ task[w] # "failed"
<1>1. Init => Healthy
  BY DEF Init
<1>2. TypeOK /\ Healthy /\ [Next]_vars => Healthy'
  <2> SUFFICES ASSUME TypeOK, Healthy, [Next]_vars PROVE Healthy'
    OBVIOUS
  <2>1. ASSUME NEW w \in Worker, RunTask(w)
        PROVE  Healthy'
    <3>1. task[w] \in {"idle", "similar", "runbooks", "persist", "embed"}
      BY DEF TypeOK
    <3>2. /\ task'[w] # "failed" /\ txn'[w] = "usable"
          /\ \A v \in Worker \ {w} : task'[v] = task[v] /\ txn'[v] = txn[v]
      BY <2>1, <3>1 DEF TypeOK, RunTask, TaskLoads, LookupReturns, LookupRaises, AfterLookup,
                        TaskPersists, TaskFails, TaskEmbeds
    <3> QED
      BY <3>2
  <2>2. CASE UNCHANGED <<task, txn>>
    BY <2>2
  <2> QED
    BY <2>1, <2>2 DEF Next, HandleUpload, Receive, UploadStores, UploadStoresNothing, Answer,
       Ingest, StartUp, ReadFile, ReadRaises, FileStored, FileKnown, FileRaises, NextFile,
       Serve, GoDown, workerVars, vars
<1>3. Healthy => LookupNeverFailsTask
  BY DEF LookupNeverFailsTask
<1> QED
  BY <1>1, <1>2, <1>3, TypeCorrect, PTL DEF Spec

=============================================================================
