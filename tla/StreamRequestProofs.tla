------------------------- MODULE StreamRequestProofs -------------------------
(***************************************************************************)
(* Proofs about StreamRequest, for every text, every set of rules and any  *)
(* chunking: the buffer is bounded, what is released is what redacting the *)
(* whole text at once gives, and the client and the books get all of it.   *)
(*                                                                         *)
(* The argument.  _redact is a recursion over positions, so it is unfolded *)
(* one position at a time (RedactedFacts) and followed from the end of the *)
(* text by induction (UpTo).  It depends only on which matches start where *)
(* (RedactedAgrees), and can be cut wherever no match is cut               *)
(* (RedactedSplits).  The places where the guard cuts the text are such:   *)
(* ReleaseStraddlesNone, which is where it matters that the hold-back is   *)
(* at least a pattern long and that matches do not overlap.  So            *)
(* "released is OneShot(base), and no match straddles base" is kept by     *)
(* every push, and with the order of what the client got (Sent) and the    *)
(* record (Booked) makes the inductive invariant Faithful.                 *)
(***************************************************************************)
EXTENDS StreamRequest, FiniteSetTheorems, SequenceTheorems, TLAPS

-----------------------------------------------------------------------------
(* Induction over data: a set that has 0 and, with every number below n, the next one, has *)
(* all the numbers up to n.                                                                 *)
LEMMA UpTo ==
    ASSUME NEW n \in Nat, NEW S, 0 \in S, \A k \in 0..(n - 1) : k \in S => k + 1 \in S
    PROVE  0..n \subseteq S
  <1> DEFINE T == 0..n \ S
  <1> DEFINE B == {0..(x - 1) : x \in T}
  <1>1. SUFFICES ASSUME T # {} PROVE FALSE
    OBVIOUS
  <1>2. IsWellFoundedOn(StrictSubsetOrdering(0..n), FiniteSubsetsOf(0..n))
    BY FS_Interval, FS_StrictSubsetOrderingWellFounded
  <1>3. B \subseteq FiniteSubsetsOf(0..n) /\ B # {}
    <2> HIDE DEF B, T
    <2>0. IsFiniteSet(0..n)
      BY FS_Interval
    <2>1. FiniteSubsetsOf(0..n) = SUBSET (0..n)
      BY <2>0, FS_FiniteSubsetsOfFinite
    <2>2. \A x \in T : 0..(x - 1) \in SUBSET (0..n)
      BY DEF T
    <2> QED
      BY <1>1, <2>1, <2>2 DEF B
  <1>4. PICK U \in B : \A V \in B : <<V, U>> \notin StrictSubsetOrdering(0..n)
    <2> HIDE DEF B
    <2> QED
      BY <1>2, <1>3, WFMin
  <1>5. PICK x \in T : U = 0..(x - 1)
    OBVIOUS
  <1>6. x \in 1..n /\ (x - 1) + 1 = x
    OBVIOUS
  <1>7. x - 1 \in T
    BY <1>6
  <1>8. 0..((x - 1) - 1) \subseteq 0..(x - 1) /\ x - 1 \in 0..(x - 1) /\ x - 1 \notin 0..((x - 1) - 1)
        /\ 0..(x - 1) \subseteq 0..n
    BY <1>6
  <1>9. <<0..((x - 1) - 1), 0..(x - 1)>> \in StrictSubsetOrdering(0..n)
    BY <1>8 DEF StrictSubsetOrdering
  <1> QED
    BY <1>4, <1>5, <1>7, <1>9

(* A set of naturals has a least. *)
LEMMA LeastOf ==
    ASSUME NEW S \in SUBSET Nat, S # {}
    PROVE  \E x \in S : \A y \in S : x <= y
  <1> PICK n \in S : TRUE
    OBVIOUS
  <1> DEFINE T == {k \in 0..n : \A t \in SUBSET (0..k) : t # {} => \E x \in t : \A y \in t : x <= y}
  <1>1. 0 \in T
    <2>1. ASSUME NEW t \in SUBSET (0..0), t # {} PROVE \E x \in t : \A y \in t : x <= y
      <3>1. \A y \in t : y = 0
        OBVIOUS
      <3> PICK x \in t : TRUE
        BY <2>1
      <3>2. \A y \in t : x <= y
        BY <3>1
      <3> QED
        BY <3>2
    <2>2. 0 \in 0..n
      OBVIOUS
    <2> QED
      BY <2>1, <2>2, Zenon
  <1>2. ASSUME NEW k \in 0..(n - 1), k \in T PROVE k + 1 \in T
    <2> SUFFICES ASSUME NEW t \in SUBSET (0..(k + 1)), t # {} PROVE \E x \in t : \A y \in t : x <= y
      OBVIOUS
    <2>1. CASE t \ {k + 1} = {}
      <3>1. k + 1 \in t /\ \A y \in t : y = k + 1
        BY <2>1
      <3>2. \A y \in t : k + 1 <= y
        BY <3>1
      <3> QED
        BY <3>1, <3>2
    <2>2. CASE t \ {k + 1} # {}
      <3>1. t \ {k + 1} \in SUBSET (0..k)
        OBVIOUS
      <3>2. PICK x \in t \ {k + 1} : \A y \in t \ {k + 1} : x <= y
        BY <1>2, <2>2, <3>1
      <3>3. \A y \in t : x <= y
        BY <3>2
      <3> QED
        BY <3>2, <3>3
    <2> QED
      BY <2>1, <2>2
  <1> HIDE DEF T
  <1>3. 0..n \subseteq T
    BY <1>1, <1>2, UpTo
  <1>4. n \in T
    BY <1>3
  <1> DEFINE low == S \cap (0..n)
  <1>5. low \in SUBSET (0..n) /\ low # {}
    OBVIOUS
  <1>6. PICK x \in low : \A y \in low : x <= y
    BY <1>4, <1>5 DEF T
  <1>7. \A y \in S : x <= y
    BY <1>6
  <1> QED
    BY <1>6, <1>7

-----------------------------------------------------------------------------
(* The matches and what takes their place. *)

(* Where a match lies. *)
LEMMA MatchFacts ==
    ASSUME NEW m \in Match
    PROVE  /\ m.start \in 0..Length /\ m.end \in 0..Length /\ m.rule \in Rules /\ m.rule \in Nat
           /\ m.start < m.end /\ m.end - m.start <= Span
  BY GuardConstantsOK DEF Match

(* The match taken first starts first, and ends last of those. *)
Before(m, n) ==
    m.start < n.start \/ (m.start = n.start /\ (m.end > n.end \/
                            (m.end = n.end /\ m.rule <= n.rule)))

(* _redact's choice among matches exists: sort by (start, -end, order of the rules). *)
LEMMA FirstFacts ==
    ASSUME NEW M \in SUBSET Match, M # {}
    PROVE  First(M) \in M /\ \A n \in M : Before(First(M), n)
  <1>1. \A m \in M : /\ m.start \in 0..Length /\ m.end \in 0..Length /\ m.rule \in Nat
    BY MatchFacts
  <1>2. PICK a \in M : \A n \in M : a.start <= n.start
    <2> DEFINE S == {m.start : m \in M}
    <2>1. S \in SUBSET Nat /\ S # {}
      BY <1>1
    <2>2. PICK x \in S : \A y \in S : x <= y
      BY <2>1, LeastOf
    <2> QED
      BY <2>2
  <1>3. PICK b \in M : b.start = a.start /\ \A n \in M : n.start = a.start => n.end <= b.end
    <2> DEFINE S == {Length - m.end : m \in {n \in M : n.start = a.start}}
    <2>1. S \in SUBSET Nat /\ S # {}
      BY <1>1, GuardConstantsOK
    <2>2. PICK x \in S : \A y \in S : x <= y
      BY <2>1, LeastOf
    <2>3. PICK b \in M : b.start = a.start /\ x = Length - b.end
      BY <2>2
    <2>4. ASSUME NEW n \in M, n.start = a.start PROVE n.end <= b.end
      <3>1. Length - n.end \in S
        BY <2>4
      <3>2. Length - b.end <= Length - n.end
        BY <2>2, <2>3, <3>1
      <3> QED
        BY <1>1, <3>2, GuardConstantsOK
    <2> QED
      BY <2>3, <2>4
  <1>4. PICK c \in M : /\ c.start = a.start /\ c.end = b.end
                       /\ \A n \in M : n.start = a.start /\ n.end = b.end => c.rule <= n.rule
    <2> DEFINE S == {m.rule : m \in {n \in M : n.start = a.start /\ n.end = b.end}}
    <2>1. S \in SUBSET Nat /\ S # {}
      BY <1>1, <1>3
    <2>2. PICK x \in S : \A y \in S : x <= y
      BY <2>1, LeastOf
    <2> QED
      BY <2>2
  <1>5. \A n \in M : Before(c, n)
    BY <1>1, <1>2, <1>3, <1>4 DEF Before
  <1>6. First(M) = CHOOSE m \in M : \A n \in M : Before(m, n)
    BY DEF First, Before
  <1> QED
    BY <1>5, <1>6

(* A stretch of the text, unredacted, has its characters. *)
LEMMA RawTextFacts ==
    ASSUME NEW lo \in 0..Length, NEW hi \in lo..Length
    PROVE  /\ RawText(lo, hi) \in Seq(Item)
           /\ Len(RawText(lo, hi)) = hi - lo
           /\ \A i \in 1..(hi - lo) : RawText(lo, hi)[i] = Raw(lo + i - 1)
  <1>1. \A p \in 0..Length : Raw(p) \in Item
    BY DEF Raw, Item
  <1>2. hi - lo \in Nat /\ \A i \in 1..(hi - lo) : lo + i - 1 \in 0..Length
    BY GuardConstantsOK
  <1>3. RawText(lo, hi) \in [1..(hi - lo) -> Item]
    BY <1>1, <1>2 DEF RawText
  <1>4. RawText(lo, hi) \in Seq(Item)
    BY <1>2, <1>3, SeqDef
  <1>5. Len(RawText(lo, hi)) = hi - lo
    BY <1>2, <1>3, <1>4, LenProperties
  <1> QED
    BY <1>4, <1>5 DEF RawText

(* What takes the place of a match is not empty. *)
LEMMA InsteadFacts ==
    ASSUME action \in UNION {[R -> Actions] : R \in SUBSET Rules}, NEW m \in Match, m.rule \in InForce
    PROVE  Instead(m) \in Seq(Item) /\ Instead(m) # <<>>
  <1>1. action[m.rule] \in Actions /\ m.rule \in Rules
    BY DEF InForce, Match
  <1>2. CASE action[m.rule] = "warn"
    <2>1. m.start \in 0..Length /\ m.end \in m.start..Length /\ m.end - m.start > 0
      BY MatchFacts, GuardConstantsOK
    <2>2. RawText(m.start, m.end) \in Seq(Item) /\ Len(RawText(m.start, m.end)) # 0
      BY <2>1, RawTextFacts
    <2>3. Instead(m) = RawText(m.start, m.end)
      BY <1>2 DEF Instead
    <2> QED
      BY <2>2, <2>3, EmptySeq
  <1>3. CASE action[m.rule] # "warn"
    <2>1. <<action[m.rule], m.rule>> \in Item
      BY <1>1, <1>3 DEF Item, Actions
    <2>2. Instead(m) = <<<<action[m.rule], m.rule>>>>
      BY <1>3 DEF Instead
    <2> QED
      BY <2>1, <2>2
  <1> QED
    BY <1>2, <1>3

-----------------------------------------------------------------------------
(* What _redact makes of a stretch of the text: position by position. *)

(* Matches there may be in the characters up to hi. *)
Fits(M, hi) ==
    /\ action \in UNION {[R -> Actions] : R \in SUBSET Rules}
    /\ M \subseteq {m \in Match : m.rule \in InForce /\ m.end <= hi}

(* What starts at a position, what becomes of it, and where _redact goes on. *)
At(p, M) == {m \in M : m.start = p}

Piece(p, M) == IF At(p, M) = {} THEN <<Raw(p)>> ELSE Instead(First(At(p, M)))

Onward(p, M) == IF At(p, M) = {} THEN p + 1 ELSE First(At(p, M)).end

(* A redaction moves on, and not beyond the end. *)
LEMMA PieceFacts ==
    ASSUME NEW hi \in 0..Length, NEW M, Fits(M, hi), NEW p \in 0..(hi - 1)
    PROVE  Piece(p, M) \in Seq(Item) /\ Onward(p, M) \in (p + 1)..hi
  <1>1. CASE At(p, M) = {}
    <2>1. Raw(p) \in Item
      BY GuardConstantsOK DEF Raw, Item
    <2>2. <<Raw(p)>> \in Seq(Item)
      BY <2>1
    <2> QED
      BY <1>1, <2>2 DEF Piece, Onward
  <1>2. CASE At(p, M) # {}
    <2> DEFINE m == First(At(p, M))
    <2>1. At(p, M) \in SUBSET Match
      BY DEF At, Fits
    <2>2. m \in At(p, M)
      BY <1>2, <2>1, FirstFacts
    <2>3. m \in Match /\ m.rule \in InForce /\ m.end <= hi /\ m.start = p
      BY <2>2 DEF At, Fits
    <2> HIDE DEF m
    <2>4. Instead(m) \in Seq(Item)
      BY <2>3, InsteadFacts DEF Fits
    <2>5. m.end \in (p + 1)..hi
      BY <2>3, MatchFacts, GuardConstantsOK
    <2> QED
      BY <1>2, <2>4, <2>5 DEF Piece, Onward, m
  <1> QED
    BY <1>1, <1>2

(* _redact's recursion, as the equation of the function `from', and the same in terms of *)
(* the pieces.                                                                           *)
IsRedaction(f, lo, hi, M) ==
    f = [p \in lo..hi |->
            IF p = hi THEN <<>>
            ELSE IF {m \in M : m.start = p} = {} THEN <<Raw(p)>> \o f[p + 1]
            ELSE Instead(First({m \in M : m.start = p})) \o f[First({m \in M : m.start = p}).end]]

Unfolds(f, lo, hi, M) ==
    \A p \in lo..hi : f[p] = IF p = hi THEN <<>> ELSE Piece(p, M) \o f[Onward(p, M)]

(* Redacted is the solution of that equation that CHOOSE picks *)
LEMMA RedactedChooses ==
    ASSUME NEW lo, NEW hi, NEW M
    PROVE  Redacted(lo, hi, M) = (CHOOSE f : IsRedaction(f, lo, hi, M))[lo]
  BY Zenon DEF Redacted, IsRedaction

(* which is the same equation in pieces *)
LEMMA RedactionUnfolds ==
    ASSUME NEW lo, NEW hi, NEW M, NEW f
    PROVE  /\ IsRedaction(f, lo, hi, M) => Unfolds(f, lo, hi, M)
           /\ Unfolds(f, lo, hi, M) /\ f = [p \in lo..hi |-> f[p]] => IsRedaction(f, lo, hi, M)
  <1>1. \A p : (IF p = hi THEN <<>>
                ELSE IF {m \in M : m.start = p} = {} THEN <<Raw(p)>> \o f[p + 1]
                ELSE Instead(First({m \in M : m.start = p})) \o f[First({m \in M : m.start = p}).end])
               = IF p = hi THEN <<>> ELSE Piece(p, M) \o f[Onward(p, M)]
    BY DEF Piece, Onward, At
  <1>2. ASSUME IsRedaction(f, lo, hi, M) PROVE Unfolds(f, lo, hi, M)
    BY <1>1, <1>2, Zenon DEF IsRedaction, Unfolds
  <1>3. ASSUME Unfolds(f, lo, hi, M), f = [p \in lo..hi |-> f[p]] PROVE IsRedaction(f, lo, hi, M)
    BY <1>1, <1>3, Zenon DEF IsRedaction, Unfolds
  <1> QED
    BY <1>2, <1>3

(* and has a solution: the function is built from the end of the text backwards. *)
LEMMA RedactionExists ==
    ASSUME NEW hi \in 0..Length, NEW lo \in 0..hi, NEW M, Fits(M, hi)
    PROVE  \E f \in [lo..hi -> Seq(Item)] : IsRedaction(f, lo, hi, M)
  <1> DEFINE n == hi - lo
  <1> DEFINE T == {k \in 0..n : \E f \in [(hi - k)..hi -> Seq(Item)] : Unfolds(f, hi - k, hi, M)}
  <1>0. n \in Nat /\ hi \in Nat /\ lo \in Nat /\ hi - n = lo
    BY GuardConstantsOK
  <1>1. 0 \in T
    <2> DEFINE f == [p \in (hi - 0)..hi |-> <<>>]
    <2>1. <<>> \in Seq(Item)
      BY EmptySeq
    <2>2. f \in [(hi - 0)..hi -> Seq(Item)]
      BY <2>1
    <2>3. \A p \in (hi - 0)..hi : p = hi
      BY <1>0
    <2>4. Unfolds(f, hi - 0, hi, M)
      BY <2>3 DEF Unfolds
    <2>5. 0 \in 0..n
      BY <1>0
    <2> HIDE DEF f
    <2>6. \E g \in [(hi - 0)..hi -> Seq(Item)] : Unfolds(g, hi - 0, hi, M)
      BY <2>2, <2>4
    <2> QED
      BY <2>5, <2>6, Zenon
  <1>2. ASSUME NEW k \in 0..(n - 1), k \in T PROVE k + 1 \in T
    <2>1. PICK f \in [(hi - k)..hi -> Seq(Item)] : Unfolds(f, hi - k, hi, M)
      BY <1>2
    <2> DEFINE q == hi - (k + 1)
    <2>2. /\ q \in 0..(hi - 1) /\ q + 1 = hi - k /\ q # hi
          /\ q..hi = {q} \cup ((hi - k)..hi) /\ q \notin (hi - k)..hi
      BY <1>0
    <2>3. Piece(q, M) \in Seq(Item) /\ Onward(q, M) \in (hi - k)..hi
      BY <2>2, PieceFacts
    <2> DEFINE h == [p \in q..hi |-> IF p = q THEN Piece(q, M) \o f[Onward(q, M)] ELSE f[p]]
    <2>4. Piece(q, M) \o f[Onward(q, M)] \in Seq(Item)
      <3>1. f[Onward(q, M)] \in Seq(Item)
        BY <2>3
      <3> QED
        BY <2>3, <3>1, ConcatProperties
    <2> HIDE DEF q
    <2>5. h \in [q..hi -> Seq(Item)]
      BY <2>2, <2>4
    <2>6. h[q] = Piece(q, M) \o f[Onward(q, M)] /\ \A p \in (hi - k)..hi : h[p] = f[p]
      BY <2>2
    <2> HIDE DEF h
    <2>7. ASSUME NEW p \in q..hi
          PROVE  h[p] = IF p = hi THEN <<>> ELSE Piece(p, M) \o h[Onward(p, M)]
      <3>1. CASE p = q
        BY <2>2, <2>3, <2>6, <3>1
      <3>2. CASE p \in (hi - k)..hi
        <4>1. f[p] = IF p = hi THEN <<>> ELSE Piece(p, M) \o f[Onward(p, M)]
          BY <2>1, <3>2 DEF Unfolds
        <4>2. p # hi => Onward(p, M) \in (hi - k)..hi
          <5>1. p # hi => p \in 0..(hi - 1)
            BY <1>0, <2>2, <3>2
          <5>2. p # hi => Onward(p, M) \in (p + 1)..hi
            BY <5>1, PieceFacts
          <5> QED
            BY <1>0, <2>2, <3>2, <5>2
        <4> QED
          BY <2>6, <3>2, <4>1, <4>2
      <3> QED
        BY <2>2, <3>1, <3>2
    <2>8. Unfolds(h, q, hi, M)
      BY <2>7 DEF Unfolds
    <2>9. \E g \in [q..hi -> Seq(Item)] : Unfolds(g, q, hi, M)
      BY <2>5, <2>8
    <2>10. k + 1 \in 0..n
      BY <1>0
    <2> QED
      BY <2>9, <2>10, Zenon DEF q
  <1>3. n \in T
    <2> HIDE DEF T, n
    <2>1. 0..n \subseteq T
      BY <1>0, <1>1, <1>2, UpTo
    <2> QED
      BY <1>0, <2>1
  <1>4. PICK f \in [lo..hi -> Seq(Item)] : Unfolds(f, lo, hi, M)
    <2>1. \E f \in [(hi - n)..hi -> Seq(Item)] : Unfolds(f, hi - n, hi, M)
      BY <1>3
    <2> HIDE DEF n
    <2> QED
      BY <1>0, <2>1
  <1>5. f = [p \in lo..hi |-> f[p]]
    OBVIOUS
  <1>6. IsRedaction(f, lo, hi, M)
    BY <1>4, <1>5, RedactionUnfolds
  <1> QED
    BY <1>6

(* The text from p on is redacted the same wherever the redaction began. *)
LEMMA SameOnwards ==
    ASSUME NEW hi \in 0..Length, NEW lo \in 0..hi, NEW M, Fits(M, hi), NEW p \in lo..hi,
           NEW f, Unfolds(f, lo, hi, M), NEW g, Unfolds(g, p, hi, M)
    PROVE  f[p] = g[p]
  <1> DEFINE n == hi - p
  <1> DEFINE T == {k \in 0..n : \A q \in (hi - k)..hi : f[q] = g[q]}
  <1>0. n \in Nat /\ hi \in Nat /\ lo \in Nat /\ p \in Nat /\ hi - n = p
    BY GuardConstantsOK
  <1>1. 0 \in T
    <2>1. f[hi] = <<>> /\ g[hi] = <<>>
      BY <1>0 DEF Unfolds
    <2>2. \A q \in (hi - 0)..hi : q = hi
      BY <1>0
    <2>3. 0 \in 0..n
      BY <1>0
    <2> QED
      BY <2>1, <2>2, <2>3
  <1>2. ASSUME NEW k \in 0..(n - 1), k \in T PROVE k + 1 \in T
    <2> DEFINE r == hi - (k + 1)
    <2>1. /\ r \in 0..(hi - 1) /\ r + 1 = hi - k /\ r # hi /\ r \in lo..hi /\ r \in p..hi
          /\ r..hi = {r} \cup ((hi - k)..hi) /\ k + 1 \in 0..n
      BY <1>0
    <2> HIDE DEF r
    <2>2. Onward(r, M) \in (hi - k)..hi
      BY <2>1, PieceFacts
    <2>3. f[r] = Piece(r, M) \o f[Onward(r, M)] /\ g[r] = Piece(r, M) \o g[Onward(r, M)]
      BY <2>1 DEF Unfolds
    <2>4. f[r] = g[r]
      BY <1>2, <2>2, <2>3
    <2>5. \A q \in r..hi : f[q] = g[q]
      BY <1>2, <2>1, <2>4
    <2> QED
      BY <2>1, <2>5 DEF r
  <1>3. n \in T
    <2> HIDE DEF T, n
    <2>1. 0..n \subseteq T
      BY <1>0, <1>1, <1>2, UpTo
    <2> QED
      BY <1>0, <2>1
  <1> QED
    BY <1>0, <1>3

(* _redact, unfolded. *)
LEMMA RedactedFacts ==
    ASSUME NEW hi \in 0..Length, NEW lo \in 0..hi, NEW M, Fits(M, hi)
    PROVE  /\ Redacted(lo, hi, M) \in Seq(Item)
           /\ Redacted(lo, hi, M) = IF lo = hi THEN <<>>
                                    ELSE Piece(lo, M) \o Redacted(Onward(lo, M), hi, M)
  <1> DEFINE the(l) == CHOOSE f : IsRedaction(f, l, hi, M)
  <1>1. ASSUME NEW l \in 0..hi
        PROVE  /\ IsRedaction(the(l), l, hi, M)
               /\ Redacted(l, hi, M) = the(l)[l]
    <2>1. \E f : IsRedaction(f, l, hi, M)
      BY RedactionExists
    <2> QED
      BY <2>1, RedactedChooses
  <1> HIDE DEF the
  <1>2. \A l \in 0..hi : Unfolds(the(l), l, hi, M)
    BY <1>1, RedactionUnfolds
  <1>3. PICK f \in [lo..hi -> Seq(Item)] : Unfolds(f, lo, hi, M)
    BY RedactionExists, RedactionUnfolds
  <1>4. hi \in Nat /\ lo \in Nat /\ lo \in lo..hi
    BY GuardConstantsOK
  <1>5. the(lo)[lo] = f[lo]
    BY <1>2, <1>3, <1>4, SameOnwards
  <1>6. Redacted(lo, hi, M) \in Seq(Item)
    BY <1>1, <1>3, <1>4, <1>5
  <1>7. ASSUME lo # hi
        PROVE  Redacted(lo, hi, M) = Piece(lo, M) \o Redacted(Onward(lo, M), hi, M)
    <2> DEFINE q == Onward(lo, M)
    <2>1. q \in (lo + 1)..hi
      BY <1>4, <1>7, PieceFacts
    <2> HIDE DEF q
    <2>2. q \in lo..hi /\ q \in 0..hi
      BY <1>4, <2>1
    <2>3. the(lo)[lo] = Piece(lo, M) \o the(lo)[q]
      BY <1>2, <1>4, <1>7 DEF Unfolds, q
    <2>4. the(lo)[q] = the(q)[q]
      BY <1>2, <2>2, SameOnwards
    <2> QED
      BY <1>1, <2>2, <2>3, <2>4 DEF q
  <1>8. ASSUME lo = hi PROVE Redacted(lo, hi, M) = <<>>
    BY <1>1, <1>2, <1>4, <1>8 DEF Unfolds
  <1> QED
    BY <1>6, <1>7, <1>8

(* It depends on the matches only through what starts at each position. *)
LEMMA RedactedAgrees ==
    ASSUME NEW hi \in 0..Length, NEW lo \in 0..hi, NEW M, Fits(M, hi), NEW N, Fits(N, hi),
           \A p \in lo..(hi - 1) : At(p, M) = At(p, N)
    PROVE  Redacted(lo, hi, M) = Redacted(lo, hi, N)
  <1> DEFINE n == hi - lo
  <1> DEFINE T == {k \in 0..n : \A p \in (hi - k)..hi : Redacted(p, hi, M) = Redacted(p, hi, N)}
  <1>0. n \in Nat /\ hi \in Nat /\ lo \in Nat /\ hi - n = lo
    BY GuardConstantsOK
  <1>1. 0 \in T
    <2>1. hi \in 0..hi /\ \A p \in (hi - 0)..hi : p = hi
      BY <1>0
    <2>2. Redacted(hi, hi, M) = <<>> /\ Redacted(hi, hi, N) = <<>>
      BY <2>1, RedactedFacts
    <2>3. 0 \in 0..n
      BY <1>0
    <2> QED
      BY <2>1, <2>2, <2>3
  <1>2. ASSUME NEW k \in 0..(n - 1), k \in T PROVE k + 1 \in T
    <2> DEFINE r == hi - (k + 1)
    <2>1. /\ r \in 0..(hi - 1) /\ r \in 0..hi /\ r + 1 = hi - k /\ r # hi /\ r \in lo..(hi - 1)
          /\ r..hi = {r} \cup ((hi - k)..hi) /\ k + 1 \in 0..n
      BY <1>0
    <2> HIDE DEF r
    <2>2. Onward(r, M) \in (hi - k)..hi
      BY <2>1, PieceFacts
    <2>3. At(r, M) = At(r, N)
      BY <2>1
    <2>4. Piece(r, M) = Piece(r, N) /\ Onward(r, M) = Onward(r, N)
      BY <2>3 DEF Piece, Onward
    <2>5. /\ Redacted(r, hi, M) = Piece(r, M) \o Redacted(Onward(r, M), hi, M)
          /\ Redacted(r, hi, N) = Piece(r, N) \o Redacted(Onward(r, N), hi, N)
      BY <2>1, RedactedFacts
    <2>6. Redacted(r, hi, M) = Redacted(r, hi, N)
      BY <1>2, <2>2, <2>4, <2>5
    <2>7. \A p \in r..hi : Redacted(p, hi, M) = Redacted(p, hi, N)
      BY <1>2, <2>1, <2>6
    <2> QED
      BY <2>1, <2>7 DEF r
  <1>3. n \in T
    <2> HIDE DEF T, n
    <2>1. 0..n \subseteq T
      BY <1>0, <1>1, <1>2, UpTo
    <2> QED
      BY <1>0, <2>1
  <1> QED
    BY <1>0, <1>3

(* A cut at a position would split the match. *)
Straddles(m, at) == m.start < at /\ at < m.end

(* A redaction can be cut wherever no match straddles the cut. *)
LEMMA RedactedSplits ==
    ASSUME NEW hi \in 0..Length, NEW mid \in 0..hi, NEW lo \in 0..mid,
           NEW M, Fits(M, hi), \A m \in M : ~Straddles(m, mid)
    PROVE  /\ Fits(Settled(mid, M), mid)
           /\ Redacted(lo, hi, M) = Redacted(lo, mid, Settled(mid, M)) \o Redacted(mid, hi, M)
  <1> DEFINE S == Settled(mid, M)
  <1> DEFINE rest == Redacted(mid, hi, M)
  <1> DEFINE n == mid - lo
  <1> DEFINE T == {k \in 0..n : \A p \in (mid - k)..mid :
                                    Redacted(p, hi, M) = Redacted(p, mid, S) \o rest}
  <1>0. n \in Nat /\ hi \in Nat /\ lo \in Nat /\ mid \in Nat /\ mid <= hi /\ mid - n = lo
        /\ mid \in 0..Length
    BY GuardConstantsOK
  <1>1. Fits(S, mid)
    BY DEF Fits, Settled
  <1>2. rest \in Seq(Item)
    BY <1>0, RedactedFacts
  <1> HIDE DEF S, rest
  <1>3. 0 \in T
    <2>1. mid \in 0..mid /\ \A p \in (mid - 0)..mid : p = mid
      BY <1>0
    <2>2. Redacted(mid, mid, S) = <<>>
      BY <1>0, <1>1, <2>1, RedactedFacts
    <2>3. <<>> \o rest = rest
      BY <1>2, ConcatEmptySeq
    <2>4. 0 \in 0..n
      BY <1>0
    <2>5. Redacted(mid, hi, M) = Redacted(mid, mid, S) \o rest
      BY <2>2, <2>3 DEF rest
    <2> QED
      BY <2>1, <2>4, <2>5
  <1>4. ASSUME NEW k \in 0..(n - 1), k \in T PROVE k + 1 \in T
    <2> DEFINE r == mid - (k + 1)
    <2>1. /\ r \in 0..(mid - 1) /\ r \in 0..(hi - 1) /\ r \in 0..mid /\ r \in 0..hi
          /\ r + 1 = mid - k /\ r # hi /\ r # mid
          /\ r..mid = {r} \cup ((mid - k)..mid) /\ k + 1 \in 0..n
      BY <1>0
    <2> HIDE DEF r
    <2>2. At(r, M) = At(r, S)
      <3>1. ASSUME NEW m \in M, m.start = r PROVE m \in S
        <4>1. m.start \in Nat /\ m.end \in Nat
          BY MatchFacts DEF Fits
        <4>2. ~(m.start < mid /\ mid < m.end)
          BY DEF Straddles
        <4> QED
          BY <1>0, <2>1, <3>1, <4>1, <4>2 DEF S, Settled
      <3>2. S \subseteq M
        BY DEF S, Settled
      <3> QED
        BY <3>1, <3>2 DEF At
    <2> DEFINE piece == Piece(r, S)
    <2> DEFINE q == Onward(r, S)
    <2>3. piece \in Seq(Item) /\ q \in (mid - k)..mid /\ q \in 0..mid
      <3>1. piece \in Seq(Item) /\ q \in (r + 1)..mid
        BY <1>0, <1>1, <2>1, PieceFacts
      <3> HIDE DEF piece, q
      <3> QED
        BY <1>0, <2>1, <3>1
    <2>4. Piece(r, M) = piece /\ Onward(r, M) = q
      BY <2>2 DEF Piece, Onward
    <2> HIDE DEF piece, q
    <2>5. Redacted(r, hi, M) = piece \o Redacted(q, hi, M)
      BY <2>1, <2>4, RedactedFacts
    <2>6. Redacted(r, mid, S) = piece \o Redacted(q, mid, S) /\ Redacted(q, mid, S) \in Seq(Item)
      BY <1>0, <1>1, <2>1, <2>3, RedactedFacts DEF piece, q
    <2>7. Redacted(q, hi, M) = Redacted(q, mid, S) \o rest
      BY <1>4, <2>3
    <2>8. piece \o (Redacted(q, mid, S) \o rest) = (piece \o Redacted(q, mid, S)) \o rest
      BY <1>2, <2>3, <2>6, ConcatAssociative
    <2>9. Redacted(r, hi, M) = Redacted(r, mid, S) \o rest
      BY <2>5, <2>6, <2>7, <2>8
    <2>10. \A p \in r..mid : Redacted(p, hi, M) = Redacted(p, mid, S) \o rest
      BY <1>4, <2>1, <2>9
    <2> QED
      BY <2>1, <2>10 DEF r
  <1>5. n \in T
    <2> HIDE DEF T, n
    <2>1. 0..n \subseteq T
      BY <1>0, <1>3, <1>4, UpTo
    <2> QED
      BY <1>0, <2>1
  <1> QED
    BY <1>0, <1>1, <1>5 DEF S, rest

(* Without rules _redact changes nothing. *)
LEMMA NothingRedacted ==
    ASSUME NEW hi \in 0..Length, NEW lo \in 0..hi, Fits({}, hi)
    PROVE  Redacted(lo, hi, {}) = RawText(lo, hi)
  <1> DEFINE n == hi - lo
  <1> DEFINE T == {k \in 0..n : \A p \in (hi - k)..hi : Redacted(p, hi, {}) = RawText(p, hi)}
  <1>0. n \in Nat /\ hi \in Nat /\ lo \in Nat /\ hi - n = lo /\ hi <= Length
    BY GuardConstantsOK
  <1>1. 0 \in T
    <2>1. hi \in 0..hi /\ \A p \in (hi - 0)..hi : p = hi
      BY <1>0
    <2>2. Redacted(hi, hi, {}) = <<>>
      BY <2>1, RedactedFacts
    <2>3. RawText(hi, hi) = <<>>
      <3>1. hi \in 0..Length /\ hi \in hi..Length /\ hi - hi = 0
        BY <1>0
      <3>2. RawText(hi, hi) \in Seq(Item) /\ Len(RawText(hi, hi)) = 0
        BY <3>1, RawTextFacts
      <3> QED
        BY <3>2, EmptySeq
    <2>4. 0 \in 0..n
      BY <1>0
    <2> QED
      BY <2>1, <2>2, <2>3, <2>4
  <1>2. ASSUME NEW k \in 0..(n - 1), k \in T PROVE k + 1 \in T
    <2> DEFINE r == hi - (k + 1)
    <2>0. /\ r \in Nat /\ r + 1 = hi - k /\ r < hi /\ lo <= r /\ k + 1 \in 0..n
          /\ r..hi = {r} \cup ((hi - k)..hi) /\ r + 1 \in (hi - k)..hi
      BY <1>0
    <2>00. Length \in Nat
      BY GuardConstantsOK
    <2>1. /\ r \in 0..hi /\ r # hi /\ r \in 0..Length /\ hi \in r..Length
          /\ r + 1 \in 0..Length /\ hi \in (r + 1)..Length /\ hi - r = (hi - (r + 1)) + 1
          /\ hi - r \in Nat /\ hi - (r + 1) \in Nat
      <3> HIDE DEF r
      <3> QED
        BY <1>0, <2>0, <2>00
    <2> HIDE DEF r
    <2>2. At(r, {}) = {}
      BY DEF At
    <2>3. Redacted(r, hi, {}) = <<Raw(r)>> \o Redacted(r + 1, hi, {})
      <3>1. Piece(r, {}) = <<Raw(r)>> /\ Onward(r, {}) = r + 1
        BY <2>2 DEF Piece, Onward
      <3>2. Redacted(r, hi, {}) = Piece(r, {}) \o Redacted(Onward(r, {}), hi, {})
        BY <2>1, RedactedFacts
      <3> QED
        BY <3>1, <3>2
    <2>4. Redacted(r + 1, hi, {}) = RawText(r + 1, hi)
      BY <1>2, <2>0
    <2> DEFINE s == RawText(r + 1, hi)
    <2> DEFINE t == RawText(r, hi)
    <2>5. /\ s \in Seq(Item) /\ Len(s) = hi - (r + 1)
          /\ \A i \in 1..(hi - (r + 1)) : s[i] = Raw((r + 1) + i - 1)
      BY <2>1, RawTextFacts
    <2>6. /\ t \in Seq(Item) /\ Len(t) = hi - r
          /\ \A i \in 1..(hi - r) : t[i] = Raw(r + i - 1)
      BY <2>1, RawTextFacts
    <2>7. Raw(r) \in Item
      BY <2>1 DEF Raw, Item
    <2> HIDE DEF s, t
    <2> DEFINE u == <<Raw(r)>> \o s
    <2>8. <<Raw(r)>> \in Seq(Item) /\ Len(<<Raw(r)>>) = 1
      BY <2>7
    <2>9. /\ u \in Seq(Item) /\ Len(u) = hi - r
          /\ \A i \in 1..(hi - r) : u[i] = IF i = 1 THEN Raw(r) ELSE s[i - 1]
      BY <2>1, <2>5, <2>8, ConcatProperties
    <2> HIDE DEF u
    <2>10. ASSUME NEW i \in 1..(hi - r) PROVE u[i] = t[i]
      <3>1. CASE i = 1
        <4>1. r + i - 1 = r
          BY <2>1, <3>1
        <4> QED
          BY <2>6, <2>9, <3>1, <4>1
      <3>2. CASE i # 1
        <4>1. i - 1 \in 1..(hi - (r + 1)) /\ (r + 1) + (i - 1) - 1 = r + i - 1
          BY <2>1, <3>2
        <4> QED
          BY <2>5, <2>6, <2>9, <3>2, <4>1
      <3> QED
        BY <3>1, <3>2
    <2>11. u = t
      BY <2>1, <2>6, <2>9, <2>10, SeqEqual
    <2>12. Redacted(r, hi, {}) = RawText(r, hi)
      BY <2>3, <2>4, <2>11 DEF u, s, t
    <2>13. \A p \in r..hi : Redacted(p, hi, {}) = RawText(p, hi)
      BY <1>2, <2>0, <2>12
    <2> QED
      BY <2>0, <2>13 DEF r
  <1>3. n \in T
    <2> HIDE DEF T, n
    <2>1. 0..n \subseteq T
      BY <1>0, <1>1, <1>2, UpTo
    <2> QED
      BY <1>0, <2>1
  <1> QED
    BY <1>0, <1>3

-----------------------------------------------------------------------------
(* What push and flush release. *)

(* What _collect finds lies in the buffer, and its rules are in force. *)
LEMMA CollectedFits ==
    ASSUME GuardTypeOK, NEW lo \in 0..Length, NEW hi \in 0..Length
    PROVE  Fits(Collected(lo, hi), hi) /\ Collected(lo, hi) \in SUBSET Match
  BY DEF GuardTypeOK, Fits, Collected

(* A place where the text may be cut. *)
NoneStraddles(at) == \A m \in Whole : ~Straddles(m, at)

(* From the last flush on, no match has been cut in two. *)
LEMMA WholeAfter ==
    ASSUME GuardTypeOK, NEW lo \in 0..Length, NEW hi \in 0..Length, \A c \in cuts : c <= lo
    PROVE  Collected(lo, hi) \subseteq Whole
  <1> SUFFICES ASSUME NEW m \in Collected(lo, hi), NEW c \in cuts, m.start < c PROVE FALSE
    BY DEF Whole, Collected
  <1>1. m.start \in Nat /\ lo <= m.start
    BY MatchFacts DEF GuardTypeOK, Collected
  <1>2. c \in Nat /\ c <= lo /\ lo \in Nat
    BY DEF GuardTypeOK
  <1> QED
    BY <1>1, <1>2

(* Redacting the whole text at once can be cut where no match straddles the cut. *)
LEMMA OneShotSplits ==
    ASSUME GuardTypeOK, NEW hi \in 0..Length, NEW lo \in 0..hi, NoneStraddles(lo),
           \A c \in cuts : c <= lo
    PROVE  /\ OneShot(hi) = OneShot(lo) \o Redacted(lo, hi, Collected(lo, hi))
           /\ OneShot(lo) \in Seq(Item) /\ OneShot(hi) \in Seq(Item)
           /\ Redacted(lo, hi, Collected(lo, hi)) \in Seq(Item)
  <1> DEFINE M == Collected(0, hi) \cap Whole
  <1> DEFINE L == Collected(0, lo) \cap Whole
  <1>0. /\ 0 \in 0..lo /\ 0 \in 0..hi /\ 0 \in 0..Length /\ lo \in 0..Length
        /\ lo \in Nat /\ hi \in Nat /\ lo <= hi
    BY GuardConstantsOK
  <1>1. Fits(M, hi) /\ Fits(L, lo) /\ Fits(Collected(lo, hi), hi)
    <2>1. /\ Fits(Collected(0, hi), hi) /\ Fits(Collected(0, lo), lo)
          /\ Fits(Collected(lo, hi), hi)
      BY <1>0, CollectedFits
    <2> QED
      BY <2>1 DEF Fits
  <1>2. \A m \in M : ~Straddles(m, lo)
    BY DEF NoneStraddles
  <1>3. \A m \in found : m.start \in Nat /\ m.end \in Nat /\ m.start < m.end
    BY MatchFacts DEF GuardTypeOK
  <1>4. Settled(lo, M) = L
    BY <1>0, <1>3 DEF Settled, Collected
  <1>5. Redacted(0, hi, M) = Redacted(0, lo, L) \o Redacted(lo, hi, M)
    <2>1. Redacted(0, hi, M) = Redacted(0, lo, Settled(lo, M)) \o Redacted(lo, hi, M)
      <3> HIDE DEF M, L
      <3> QED
        BY <1>0, <1>1, <1>2, RedactedSplits
    <2> QED
      BY <1>4, <2>1
  <1>6. \A p \in lo..(hi - 1) : At(p, M) = At(p, Collected(lo, hi))
    <2> SUFFICES ASSUME NEW p \in lo..(hi - 1) PROVE At(p, M) = At(p, Collected(lo, hi))
      OBVIOUS
    <2>1. Collected(lo, hi) \subseteq M
      <3>1. Collected(lo, hi) \subseteq Whole
        BY <1>0, WholeAfter
      <3> QED
        BY <1>0, <1>3, <3>1 DEF Collected
    <2>2. \A m \in M : m.start = p => m \in Collected(lo, hi)
      BY <1>0 DEF Collected
    <2> HIDE DEF M
    <2> QED
      BY <2>1, <2>2 DEF At
  <1>7. Redacted(lo, hi, M) = Redacted(lo, hi, Collected(lo, hi))
    <2> HIDE DEF M
    <2> QED
      BY <1>0, <1>1, <1>6, RedactedAgrees
  <1>8. /\ Redacted(0, lo, L) \in Seq(Item)
        /\ Redacted(0, hi, M) \in Seq(Item)
        /\ Redacted(lo, hi, Collected(lo, hi)) \in Seq(Item)
    <2> HIDE DEF M, L
    <2> QED
      BY <1>0, <1>1, RedactedFacts
  <1> QED
    BY <1>5, <1>7, <1>8 DEF OneShot

(* Where a release ends, and what it emits. *)
LEMMA ReleaseFacts ==
    ASSUME GuardTypeOK, NEW hi \in 0..Length, NEW lo \in 0..hi, NEW at \in lo..hi
    PROVE  LET r == Release(lo, hi, at)
           IN  /\ r.base \in lo..at /\ r.base >= at + 1 - Span
               /\ at = hi => r.base = hi
               /\ r.text = Redacted(lo, r.base, Collected(lo, r.base))
               /\ r.base = lo \/ r.base = PulledBack(at, Collected(lo, hi))
  <1> DEFINE M == Collected(lo, hi)
  <1> DEFINE crossing == {m \in M : m.start < at /\ at < m.end}
  <1> DEFINE to == PulledBack(at, M)
  <1>0. /\ lo \in Nat /\ hi \in Nat /\ at \in Nat /\ lo <= at /\ at <= hi /\ Span \in Nat /\ Span > 0
        /\ lo \in 0..Length /\ lo \in 0..lo
    BY GuardConstantsOK
  <1>1. \A m \in M : m.start \in Nat /\ m.end \in Nat /\ m.end - m.start <= Span /\ m.end <= hi
    BY MatchFacts DEF GuardTypeOK, Collected
  <1>2. to \in Nat /\ to <= at /\ to >= at + 1 - Span /\ (at = hi => to = hi)
    <2>1. CASE crossing = {}
      <3>1. to = at
        BY <2>1 DEF PulledBack
      <3> QED
        BY <1>0, <3>1
    <2>2. CASE crossing # {}
      <3>1. crossing \in SUBSET Match
        BY DEF GuardTypeOK, Collected
      <3> DEFINE c == First(crossing)
      <3>2. to = c.start
        BY <2>2 DEF PulledBack
      <3> HIDE DEF crossing
      <3>3. c \in crossing
        BY <2>2, <3>1, FirstFacts
      <3>4. c \in M /\ c.start < at /\ at < c.end
        BY <3>3 DEF crossing
      <3>5. c.start \in Nat /\ c.end \in Nat /\ c.end - c.start <= Span /\ c.end <= hi
        BY <1>1, <3>4
      <3> HIDE DEF c, to
      <3> QED
        BY <1>0, <3>2, <3>4, <3>5
    <2> QED
      BY <2>1, <2>2
  <1> DEFINE r == Release(lo, hi, at)
  <1>3. CASE to <= lo
    <2>1. r = [base |-> lo, text |-> <<>>]
      BY <1>3 DEF Release
    <2>2. r.base = lo /\ r.text = <<>>
      BY <2>1
    <2>3. Redacted(lo, lo, Collected(lo, lo)) = <<>>
      BY <1>0, CollectedFits, RedactedFacts
    <2> HIDE DEF r, to, M
    <2> QED
      BY <1>0, <1>2, <1>3, <2>2, <2>3 DEF r
  <1>4. CASE ~(to <= lo)
    <2>1. r = [base |-> to, text |-> Redacted(lo, to, Settled(to, M))]
      BY <1>4 DEF Release
    <2>2. r.base = to /\ r.text = Redacted(lo, to, Settled(to, M))
      BY <2>1
    <2> HIDE DEF r, to
    <2>3. Settled(to, M) = Collected(lo, to)
      <3>1. \A m \in found : m.start \in Nat /\ m.end \in Nat
        BY MatchFacts DEF GuardTypeOK
      <3> QED
        BY <1>0, <1>2, <3>1 DEF Settled, Collected
    <2> HIDE DEF M
    <2> QED
      BY <1>0, <1>2, <1>4, <2>2, <2>3 DEF r, to, M
  <1> QED
    BY <1>3, <1>4

(* A release point that push chooses straddles no match, if no two matches overlap: of a    *)
(* match that crosses it all is in the buffer, because the hold-back is a pattern long; and *)
(* a match that crossed where it was pulled back to would overlap the one that pulled it.   *)
LEMMA ReleaseStraddlesNone ==
    ASSUME GuardTypeOK, Separate, NEW hi \in 0..Length, NEW lo \in 0..hi, NoneStraddles(lo),
           HeldBack(hi) \in lo..hi
    PROVE  NoneStraddles(Release(lo, hi, HeldBack(hi)).base)
  <1> DEFINE at == HeldBack(hi)
  <1> DEFINE M == Collected(lo, hi)
  <1> DEFINE crossing == {m \in M : m.start < at /\ at < m.end}
  <1> DEFINE to == PulledBack(at, M)
  <1> DEFINE b == Release(lo, hi, at).base
  <1>0. /\ lo \in Nat /\ hi \in Nat /\ at \in Nat /\ lo <= at /\ at <= hi /\ Span \in Nat
        /\ at = hi - HoldBack /\ Span <= HoldBack + 1 /\ HoldBack \in Nat
    BY GuardConstantsOK DEF HeldBack
  <1>1. \A m \in found : m.start \in Nat /\ m.end \in Nat /\ m.end - m.start <= Span /\ m.start < m.end
    BY MatchFacts DEF GuardTypeOK
  <1>2. b = lo \/ b = to
    BY ReleaseFacts
  <1> HIDE DEF at
  <1>3. ASSUME NEW m \in Whole, m.start < at, at < m.end
        PROVE  m \in crossing
    <2>1. ~(m.start < lo /\ lo < m.end) /\ m \in found
      BY DEF NoneStraddles, Straddles, Whole
    <2>2. m.start \in Nat /\ m.end \in Nat /\ m.end - m.start <= Span
      BY <1>1, <2>1
    <2>3. lo <= m.start /\ m.end <= hi
      BY <1>0, <1>3, <2>1, <2>2
    <2> QED
      BY <1>3, <2>1, <2>3 DEF Collected
  <1>4. CASE crossing = {}
    <2>1. to = at
      BY <1>4 DEF PulledBack
    <2>2. \A m \in Whole : ~(m.start < at /\ at < m.end)
      <3> HIDE DEF crossing
      <3> QED
        BY <1>3, <1>4
    <2> HIDE DEF b, to
    <2> QED
      BY <1>2, <2>1, <2>2 DEF NoneStraddles, Straddles, b, at
  <1>5. CASE crossing # {}
    <2> DEFINE c == First(crossing)
    <2>1. crossing \in SUBSET Match
      BY DEF GuardTypeOK, Collected
    <2>2. to = c.start
      BY <1>5 DEF PulledBack
    <2>3. c \in crossing
      <3> HIDE DEF crossing
      <3> QED
        BY <1>5, <2>1, FirstFacts
    <2>4. c \in found /\ c.start \in Nat /\ c.end \in Nat /\ c.start < c.end
      <3>1. c \in found
        BY <2>3 DEF Collected
      <3> HIDE DEF c
      <3> QED
        BY <1>1, <3>1
    <2> HIDE DEF b, to, c
    <2>5. ASSUME NEW m \in Whole, m.start < c.start, c.start < m.end PROVE FALSE
      <3>0. m \in found
        BY DEF Whole
      <3>1. m.start \in Nat /\ m.end \in Nat
        BY <1>1, <3>0
      <3>2. m # c /\ Overlap(m, c)
        BY <2>4, <2>5, <3>1 DEF Overlap
      <3> QED
        BY <2>4, <3>0, <3>2 DEF Separate
    <2> QED
      BY <1>2, <2>2, <2>5 DEF NoneStraddles, Straddles, b, at
  <1> QED
    BY <1>4, <1>5

(* push(delta), or nothing. *)
Given(n) == IF n = 0 THEN [base |-> base, text |-> <<>>] ELSE Pushed(n)

(* Where a push leaves the buffer's start, and what it emits: without rules, with too little *)
(* in the buffer, and with a release.                                                        *)
LEMMA GivenFacts ==
    ASSUME GuardTypeOK, InForce = {} => base = received, NEW n \in Nat, received + n <= Length
    PROVE  /\ Given(n).base \in base..(received + n)
           /\ Given(n).text = Redacted(base, Given(n).base, Collected(base, Given(n).base))
           /\ InForce = {} => Given(n).base = received + n
           /\ InForce # {} /\ n # 0 => (received + n) - Given(n).base < HoldBack + Span
           /\ Separate /\ NoneStraddles(base) => NoneStraddles(Given(n).base)
  <1> DEFINE hi == received + n
  <1>0. /\ received \in Nat /\ base \in Nat /\ base <= received /\ hi \in 0..Length /\ base \in 0..hi
        /\ base \in 0..Length /\ base \in 0..base /\ Length \in Nat /\ hi \in Nat /\ base <= hi
        /\ HoldBack \in Nat /\ Span \in Nat /\ Span > 0 /\ base \in base..hi
    BY GuardConstantsOK DEF GuardTypeOK
  <1>1. Redacted(base, base, Collected(base, base)) = <<>>
    BY <1>0, CollectedFits, RedactedFacts
  <1>2. CASE n = 0
    <2>1. Given(n).base = base /\ Given(n).text = <<>> /\ hi = received
      BY <1>0, <1>2 DEF Given
    <2> QED
      BY <1>0, <1>1, <1>2, <2>1
  <1>3. CASE n # 0 /\ InForce = {}
    <2>1. Given(n) = [base |-> hi, text |-> RawText(received, hi)]
      BY <1>3 DEF Given, Pushed
    <2>2. Given(n).base = hi /\ Given(n).text = RawText(received, hi)
      BY <2>1
    <2>3. found = {} /\ Collected(base, hi) = {}
      BY <1>3 DEF GuardTypeOK, Collected
    <2>4. Fits({}, hi)
      BY DEF GuardTypeOK, Fits
    <2> HIDE DEF hi
    <2>5. Redacted(base, hi, {}) = RawText(base, hi)
      BY <1>0, <2>4, NothingRedacted
    <2>6. NoneStraddles(hi)
      BY <2>3 DEF NoneStraddles, Whole
    <2>7. hi \in base..hi
      BY <1>0
    <2> QED
      BY <1>3, <2>2, <2>3, <2>5, <2>6, <2>7 DEF hi
  <1>4. CASE n # 0 /\ InForce # {} /\ HeldBack(hi) <= base
    <2>1. Given(n) = [base |-> base, text |-> <<>>]
      BY <1>4 DEF Given, Pushed
    <2>2. Given(n).base = base /\ Given(n).text = <<>>
      BY <2>1
    <2> HIDE DEF hi
    <2>3. hi - base < HoldBack + Span
      BY <1>0, <1>4 DEF HeldBack
    <2> QED
      BY <1>0, <1>1, <1>4, <2>2, <2>3 DEF hi
  <1>5. CASE n # 0 /\ InForce # {} /\ ~(HeldBack(hi) <= base)
    <2> DEFINE at == HeldBack(hi)
    <2>1. Given(n) = Release(base, hi, at)
      BY <1>5 DEF Given, Pushed
    <2> HIDE DEF hi
    <2>2. at \in base..hi /\ at = hi - HoldBack
      BY <1>0, <1>5 DEF HeldBack
    <2> HIDE DEF at
    <2> DEFINE r == Release(base, hi, at)
    <2>3. /\ r.base \in base..at /\ r.base >= at + 1 - Span
          /\ r.text = Redacted(base, r.base, Collected(base, r.base))
      BY <1>0, <2>2, ReleaseFacts
    <2>4. Separate /\ NoneStraddles(base) => NoneStraddles(r.base)
      BY <1>0, <2>2, ReleaseStraddlesNone DEF at
    <2> HIDE DEF r
    <2>5. r.base \in base..hi /\ hi - r.base < HoldBack + Span
      BY <1>0, <2>2, <2>3
    <2> QED
      BY <1>5, <2>1, <2>3, <2>4, <2>5 DEF r, hi
  <1> QED
    BY <1>2, <1>3, <1>4, <1>5

(* flush() empties the buffer: no match crosses the end of the text. *)
LEMMA FlushedFacts ==
    ASSUME GuardTypeOK, NEW hi \in 0..Length, NEW lo \in 0..hi, InForce = {} => lo = hi
    PROVE  /\ FlushedFrom(lo, hi).base = hi
           /\ FlushedFrom(lo, hi).text = Redacted(lo, hi, Collected(lo, hi))
  <1>0. hi \in lo..hi /\ lo \in 0..lo /\ lo \in 0..Length
    BY GuardConstantsOK
  <1>1. CASE InForce = {}
    <2>1. FlushedFrom(lo, hi) = [base |-> lo, text |-> <<>>]
      BY <1>1 DEF FlushedFrom
    <2>2. Redacted(lo, lo, Collected(lo, lo)) = <<>>
      BY <1>0, CollectedFits, RedactedFacts
    <2> QED
      BY <1>1, <2>1, <2>2
  <1>2. CASE InForce # {}
    <2>1. FlushedFrom(lo, hi) = Release(lo, hi, hi)
      BY <1>2 DEF FlushedFrom
    <2> QED
      BY <1>0, <2>1, ReleaseFacts
  <1> QED
    BY <1>1, <1>2

-----------------------------------------------------------------------------
(* How often an item occurs. *)

Times(x, s) == {j \in DOMAIN s : s[j] = x}

(* It occurs in two texts together as often as in each. *)
LEMMA TimesConcat ==
    ASSUME NEW s \in Seq(Item), NEW t \in Seq(Item), NEW x
    PROVE  /\ IsFiniteSet(Times(x, s)) /\ Cardinality(Times(x, s)) \in Nat
           /\ Cardinality(Times(x, s \o t)) = Cardinality(Times(x, s)) + Cardinality(Times(x, t))
  <1> DEFINE n == Len(s)
  <1> DEFINE k == Len(t)
  <1>1. /\ n \in Nat /\ k \in Nat /\ DOMAIN s = 1..n /\ DOMAIN t = 1..k
        /\ s \o t \in Seq(Item) /\ Len(s \o t) = n + k
        /\ \A i \in 1..(n + k) : (s \o t)[i] = IF i <= n THEN s[i] ELSE t[i - n]
    BY LenProperties, ConcatProperties
  <1> HIDE DEF n, k
  <1>2. DOMAIN (s \o t) = 1..(n + k)
    BY <1>1, LenProperties
  <1> DEFINE A == Times(x, s)
  <1> DEFINE B == Times(x, t)
  <1> DEFINE C == {j \in (n + 1)..(n + k) : t[j - n] = x}
  <1>3. IsFiniteSet(A) /\ IsFiniteSet(B) /\ IsFiniteSet(C)
    <2>1. A \subseteq 1..n /\ B \subseteq 1..k /\ C \subseteq (n + 1)..(n + k)
      BY <1>1 DEF Times
    <2>2. IsFiniteSet(1..n) /\ IsFiniteSet(1..k) /\ IsFiniteSet((n + 1)..(n + k))
      BY <1>1, FS_Interval
    <2> QED
      BY <2>1, <2>2, FS_Subset
  <1>4. Times(x, s \o t) = A \cup C /\ A \cap C = {}
    <2>1. \A j \in 1..(n + k) : j <= n => (s \o t)[j] = s[j]
      BY <1>1
    <2>2. \A j \in 1..(n + k) : ~(j <= n) => (s \o t)[j] = t[j - n]
      BY <1>1
    <2>3. \A j \in 1..n : j \in 1..(n + k) /\ j <= n
      BY <1>1
    <2>4. \A j \in (n + 1)..(n + k) : j \in 1..(n + k) /\ ~(j <= n)
      BY <1>1
    <2>5. \A j \in 1..(n + k) : (j <= n => j \in 1..n) /\ (~(j <= n) => j \in (n + 1)..(n + k))
      BY <1>1
    <2> QED
      BY <1>1, <1>2, <2>1, <2>2, <2>3, <2>4, <2>5 DEF Times
  <1>5. Cardinality(C) = Cardinality(B)
    <2> DEFINE f == [j \in B |-> j + n]
    <2>0. B \subseteq 1..k /\ \A j \in B : t[j] = x
      BY <1>1 DEF Times
    <2>1. \A j \in B : j + n \in C
      <3> TAKE j \in B
      <3>1. j \in 1..k /\ t[j] = x
        BY <2>0
      <3>2. j + n \in (n + 1)..(n + k) /\ (j + n) - n = j
        BY <1>1, <3>1
      <3> QED
        BY <3>1, <3>2
    <2>2. \A y \in C : y - n \in B /\ f[y - n] = y
      <3> TAKE y \in C
      <3>1. y \in (n + 1)..(n + k) /\ t[y - n] = x
        OBVIOUS
      <3>2. y - n \in 1..k /\ (y - n) + n = y
        BY <1>1, <3>1
      <3>3. y - n \in B
        BY <1>1, <3>1, <3>2 DEF Times
      <3> HIDE DEF B
      <3> QED
        BY <3>2, <3>3
    <2>3. \A i, j \in B : f[i] = f[j] => i = j
      BY <1>1, <2>0
    <2> HIDE DEF B, C
    <2>4. f \in [B -> C]
      BY <2>1
    <2>5. f \in Bijection(B, C)
      <3> HIDE DEF f
      <3>1. f \in Injection(B, C)
        BY <2>3, <2>4 DEF Injection, IsInjective
      <3>2. f \in Surjection(B, C)
        BY <2>2, <2>4 DEF Surjection
      <3> QED
        BY <3>1, <3>2 DEF Bijection
    <2>6. Cardinality(B) = Cardinality(C)
      <3> HIDE DEF f
      <3>1. ExistsBijection(B, C)
        BY <2>5 DEF ExistsBijection
      <3> QED
        BY <1>3, <3>1, FS_Bijection
    <2> QED
      BY <2>6
  <1> HIDE DEF A, B, C
  <1>6. Cardinality(A \cup C) = Cardinality(A) + Cardinality(C) - Cardinality(A \cap C)
    BY <1>3, FS_Union
  <1>7. Cardinality({}) = 0 /\ Cardinality(A) \in Nat /\ Cardinality(C) \in Nat
    BY <1>3, FS_EmptySet, FS_CardinalityType
  <1>8. Cardinality(A \cup C) = Cardinality(A) + Cardinality(B)
    <2>1. Cardinality(A \cap C) = 0
      BY <1>4, <1>7
    <2> DEFINE both == Cardinality(A \cap C)
    <2> DEFINE all == Cardinality(A \cup C)
    <2> DEFINE a == Cardinality(A)
    <2> DEFINE c == Cardinality(C)
    <2>2. all = a + c - both /\ both = 0 /\ a \in Nat /\ c \in Nat
      BY <1>6, <1>7, <2>1
    <2>3. all = a + c
      <3> HIDE DEF all, a, c, both
      <3> QED
        BY <2>2
    <2> QED
      BY <1>5, <2>3
  <1>9. Times(x, s \o t) = A \cup C
    BY <1>4
  <1> QED
    BY <1>3, <1>7, <1>8, <1>9 DEF A, B

(* A text begins with its first part. *)
LEMMA PrefixOfConcat ==
    ASSUME NEW s \in Seq(Item), NEW t \in Seq(Item)
    PROVE  Prefix(s, s \o t)
  <1> DEFINE n == Len(s)
  <1> DEFINE u == s \o t
  <1>1. /\ n \in Nat /\ Len(t) \in Nat /\ u \in Seq(Item) /\ Len(u) = n + Len(t)
        /\ \A i \in 1..(n + Len(t)) : u[i] = IF i <= n THEN s[i] ELSE t[i - n]
    BY LenProperties, ConcatProperties
  <1> HIDE DEF u, n
  <1>2. /\ SubSeq(u, 1, n) \in Seq(Item) /\ Len(SubSeq(u, 1, n)) = n
        /\ \A i \in 1..n : SubSeq(u, 1, n)[i] = u[i]
    <2>1. \A i \in 1..n : i \in 1..Len(u) /\ u[i] \in Item
      BY <1>1, ElementOfSeq
    <2>2. IF 1 <= n THEN n - 1 + 1 = n ELSE n = 0
      BY <1>1
    <2> DEFINE v == [i \in 1..n |-> u[i]]
    <2>3. SubSeq(u, 1, n) = v
      <3>1. SubSeq(u, 1, n) = [i \in 1..(1 + n - 1) |-> u[i + 1 - 1]]
        BY <1>1
      <3>2. 1 + n - 1 = n /\ \A i \in 1..n : i + 1 - 1 = i
        BY <1>1
      <3> QED
        BY <3>1, <3>2
    <2>4. v \in [1..n -> Item]
      BY <2>1
    <2>5. v \in Seq(Item) /\ Len(v) = n
      <3> HIDE DEF v
      <3>1. v \in Seq(Item)
        BY <1>1, <2>4, SeqDef
      <3> QED
        BY <1>1, <2>4, <3>1, LenProperties
    <2> QED
      BY <2>3, <2>5
  <1>3. \A i \in 1..n : SubSeq(u, 1, n)[i] = s[i]
    BY <1>1, <1>2
  <1>4. SubSeq(u, 1, n) = s
    <2> DEFINE v == SubSeq(u, 1, n)
    <2> HIDE DEF v
    <2>1. v \in Seq(Item) /\ Len(v) = Len(s) /\ \A i \in 1..Len(v) : v[i] = s[i]
      BY <1>2, <1>3 DEF v, n
    <2>2. v = s
      BY <2>1, SeqEqual
    <2> QED
      BY <2>2 DEF v
  <1> QED
    BY <1>1, <1>4 DEF Prefix, u, n

-----------------------------------------------------------------------------
(* The invariant. *)

(* The guard: what has left the buffer is the text so far, redacted at once, and the buffer *)
(* begins where no match is cut but by a flush before it; flushed, it is empty.             *)
Buffered ==
    /\ stage = "new" => base = received
    /\ stage = "open" /\ InForce = {} => base = received
    /\ Separate => released = OneShot(base) /\ NoneStraddles(base)
    /\ cuts \subseteq 0..base
    /\ received \in cuts => base = received

(* How often each item occurs in two texts is the same, and both or neither are empty. *)
SameWords(s, t) ==
    /\ s = <<>> <=> t = <<>>
    /\ \A x \in Item : Cardinality(Times(x, s)) = Cardinality(Times(x, t))

(* It stays so when both texts go on with the same two pieces, in whichever order. *)
LEMMA SameWordsOn ==
    ASSUME NEW r \in Seq(Item), NEW s \in Seq(Item), SameWords(r, s),
           NEW t \in Seq(Item), NEW u \in Seq(Item)
    PROVE  SameWords((r \o t) \o u, s \o (u \o t)) /\ SameWords(r \o t, s \o t)
  <1>1. r \o t \in Seq(Item) /\ u \o t \in Seq(Item) /\ s \o t \in Seq(Item)
        /\ (r \o t) \o u \in Seq(Item) /\ s \o (u \o t) \in Seq(Item)
    BY ConcatProperties
  <1>2. /\ Len((r \o t) \o u) = (Len(r) + Len(t)) + Len(u) /\ Len(r \o t) = Len(r) + Len(t)
        /\ Len(s \o (u \o t)) = Len(s) + (Len(u) + Len(t)) /\ Len(s \o t) = Len(s) + Len(t)
        /\ Len(r) \in Nat /\ Len(s) \in Nat /\ Len(t) \in Nat /\ Len(u) \in Nat
    BY <1>1, ConcatProperties, LenProperties
  <1>3. Len(r) = 0 <=> Len(s) = 0
    BY EmptySeq DEF SameWords
  <1>4. /\ (r \o t) \o u = <<>> <=> s \o (u \o t) = <<>>
        /\ r \o t = <<>> <=> s \o t = <<>>
    <2>1. \A v \in Seq(Item) : v = <<>> <=> Len(v) = 0
      BY EmptySeq
    <2>2. /\ Len((r \o t) \o u) = 0 <=> Len(s \o (u \o t)) = 0
          /\ Len(r \o t) = 0 <=> Len(s \o t) = 0
      BY <1>2, <1>3
    <2> QED
      BY <1>1, <2>1, <2>2
  <1>5. ASSUME NEW x \in Item
        PROVE  /\ Cardinality(Times(x, (r \o t) \o u)) = Cardinality(Times(x, s \o (u \o t)))
               /\ Cardinality(Times(x, r \o t)) = Cardinality(Times(x, s \o t))
    <2> DEFINE c(y) == Cardinality(Times(x, y))
    <2>1. /\ c((r \o t) \o u) = c(r \o t) + c(u) /\ c(r \o t) = c(r) + c(t)
          /\ c(s \o (u \o t)) = c(s) + c(u \o t) /\ c(u \o t) = c(u) + c(t)
          /\ c(s \o t) = c(s) + c(t)
          /\ c(r) \in Nat /\ c(s) \in Nat /\ c(t) \in Nat /\ c(u) \in Nat
      BY <1>1, TimesConcat
    <2>2. c(r) = c(s)
      BY DEF SameWords
    <2> HIDE DEF c
    <2>3. c((r \o t) \o u) = c(s \o (u \o t)) /\ c(r \o t) = c(s \o t)
      BY <2>1, <2>2
    <2> QED
      BY <2>3 DEF c
  <1> QED
    BY <1>4, <1>5 DEF SameWords

(* The client: it has what was released, unless a match was blocked after what came before *)
(* it was released; and it may have some of it in another order.                           *)
Sent ==
    /\ stage \in {"new", "refused"} => sent = <<>> /\ released = <<>> /\ finished = "no"
    /\ stage # "blocked" /\ finished # "text" => sent = released
    /\ stage # "blocked" => SameWords(released, sent)
    /\ stage = "new" => events = <<>>
    /\ stage = "refused" => Len(events) = 1

(* The books: only a stream that ended is recorded, as what was released. *)
Booked ==
    /\ usage # NotRecorded => stage = "done"
    /\ stage = "done" /\ sent # <<>> =>
          \/ usage = NotRecorded /\ redisErrors > 0
          \/ usage.tokens > 0 /\ usage.text = released

(* The inductive invariant. *)
Faithful == TypeOK /\ PerRule /\ BufferBounded /\ Buffered /\ Sent /\ Booked

-----------------------------------------------------------------------------
(* The text and its rules never change: what only depends on them is the same after a step. *)
LEMMA SameRedaction ==
    ASSUME action' = action, NEW lo, NEW hi, NEW M
    PROVE  Redacted(lo, hi, M)' = Redacted(lo, hi, M)
  <1>1. \A m : Instead(m)' = Instead(m)
    BY DEF Instead
  <1>3. \A f : IsRedaction(f, lo, hi, M)' <=> IsRedaction(f, lo, hi, M)
    <2> TAKE f
    <2> DEFINE was(p) == IF p = hi THEN <<>>
                         ELSE IF {m \in M : m.start = p} = {} THEN <<Raw(p)>> \o f[p + 1]
                         ELSE Instead(First({m \in M : m.start = p}))
                                \o f[First({m \in M : m.start = p}).end]
    <2> DEFINE is(p) == IF p = hi THEN <<>>
                        ELSE IF {m \in M : m.start = p} = {} THEN <<Raw(p)>> \o f[p + 1]
                        ELSE Instead(First({m \in M : m.start = p}))'
                               \o f[First({m \in M : m.start = p}).end]
    <2>1. \A p : is(p) = was(p)
      BY <1>1, Zenon
    <2>2. IsRedaction(f, lo, hi, M) <=> f = [p \in lo..hi |-> was(p)]
      BY Zenon DEF IsRedaction
    <2>3. IsRedaction(f, lo, hi, M)' <=> f = [p \in lo..hi |-> is(p)]
      BY Zenon DEF IsRedaction
    <2> HIDE DEF was, is
    <2>4. [p \in lo..hi |-> was(p)] = [p \in lo..hi |-> is(p)]
      BY <2>1
    <2> QED
      BY <2>2, <2>3, <2>4
  <1>4. (CHOOSE f : IsRedaction(f, lo, hi, M)') = (CHOOSE f : IsRedaction(f, lo, hi, M))
    BY <1>3, Zenon
  <1>5. Redacted(lo, hi, M) = (CHOOSE f : IsRedaction(f, lo, hi, M))[lo]
    BY Zenon DEF Redacted, IsRedaction
  <1>6. Redacted(lo, hi, M)' = (CHOOSE f : IsRedaction(f, lo, hi, M)')[lo]
    BY Zenon DEF Redacted, IsRedaction
  <1> QED
    BY <1>4, <1>5, <1>6

(* So is everything else that only depends on them. *)
LEMMA SameText ==
    ASSUME action' = action, found' = found, cuts' = cuts
    PROVE  /\ InForce' = InForce
           /\ PerRule' <=> PerRule
           /\ Separate' <=> Separate
           /\ \A h : OneShot(h)' = OneShot(h)
           /\ \A h : NoneStraddles(h)' <=> NoneStraddles(h)
  <1>1. InForce' = InForce
    BY DEF InForce
  <1>2. PerRule' <=> PerRule
    BY DEF PerRule
  <1>3. Separate' <=> Separate
    BY DEF Separate
  <1>4. ASSUME NEW h PROVE OneShot(h)' = OneShot(h)
    <2>1. (Collected(0, h) \cap Whole)' = Collected(0, h) \cap Whole
      BY DEF Collected, Whole
    <2>2. \A M : Redacted(0, h, M)' = Redacted(0, h, M)
      BY SameRedaction
    <2> QED
      BY <2>1, <2>2 DEF OneShot
  <1>5. \A h : NoneStraddles(h)' <=> NoneStraddles(h)
    BY DEF NoneStraddles, Whole
  <1> QED
    BY <1>1, <1>2, <1>3, <1>4, <1>5

(* A flush cuts no match that ended before it, and leaves none that straddles it. *)
LEMMA FlushCuts ==
    ASSUME GuardTypeOK, action' = action, found' = found, NEW h \in 0..Length, cuts' = cuts \cup {h}
    PROVE  OneShot(h)' = OneShot(h) /\ NoneStraddles(h)'
  <1>1. \A m \in found : m.start \in Nat /\ m.end \in Nat
    BY MatchFacts DEF GuardTypeOK
  <1>2. (Collected(0, h) \cap Whole)' = Collected(0, h) \cap Whole
    BY <1>1, GuardConstantsOK DEF Collected, Whole
  <1>3. \A M : Redacted(0, h, M)' = Redacted(0, h, M)
    BY SameRedaction
  <1>4. NoneStraddles(h)'
    BY DEF NoneStraddles, Straddles, Whole
  <1> QED
    BY <1>2, <1>3, <1>4 DEF OneShot

-----------------------------------------------------------------------------
(* The invariant is kept by each action. *)

EventKinds == Refusals \cup {"error", "usage", "[DONE]"}

LEMMA InitFaithful == Init => Faithful
  <1> SUFFICES ASSUME Init PROVE Faithful
    OBVIOUS
  <1>0. 0 \in 0..Length /\ 0 \in 0..0 /\ Span \in Nat /\ Span > 0 /\ HoldBack \in Nat
    BY GuardConstantsOK
  <1>1. found \in SUBSET Match /\ \A m \in found : m.rule \in InForce
    BY StreamConstantsOK DEF Init
  <1>2. GuardTypeOK
    <2>1. <<>> \in Seq(Item)
      BY EmptySeq
    <2> QED
      BY <1>0, <1>1, <2>1 DEF Init, GuardTypeOK
  <1>3. TypeOK
    <2>1. <<>> \in Seq(Item) /\ <<>> \in Seq(EventKinds)
      BY EmptySeq
    <2>2. NotRecorded \in [text : Seq(Item), tokens : Nat]
      BY <2>1 DEF NotRecorded
    <2> QED
      BY <1>2, <2>1, <2>2 DEF Init, TypeOK, EventKinds
  <1>4. NoneStraddles(0)
    <2>1. \A m \in found : m.start \in Nat
      BY <1>1, MatchFacts
    <2> QED
      BY <2>1 DEF NoneStraddles, Straddles, Whole
  <1>5. OneShot(0) = <<>>
    <2>1. Fits(Collected(0, 0) \cap Whole, 0)
      BY <1>0, <1>2, CollectedFits DEF Fits
    <2>2. Redacted(0, 0, Collected(0, 0) \cap Whole) = <<>>
      BY <1>0, <1>2, <2>1, RedactedFacts
    <2> QED
      BY <2>2 DEF OneShot
  <1>6. Buffered
    BY <1>0, <1>4, <1>5 DEF Init, Buffered
  <1>7. BufferBounded /\ Sent /\ Booked /\ PerRule
    BY <1>0 DEF Init, BufferBounded, Sent, Booked, SameWords
  <1> QED
    BY <1>3, <1>6, <1>7 DEF Faithful

(* What keeps the guard as it was. *)
LEMMA GuardKept ==
    ASSUME Faithful, UNCHANGED guardVars
    PROVE  /\ GuardTypeOK' /\ PerRule'
           /\ (stage' = "open" => stage \in {"new", "open"}) /\ stage' # "new" => Buffered'
           /\ (stage' = "open" => stage = "open") => BufferBounded'
  <1>0. GuardTypeOK /\ PerRule /\ Buffered /\ BufferBounded
    BY DEF Faithful, TypeOK
  <1>1. /\ action' = action /\ found' = found /\ received' = received /\ base' = base
        /\ released' = released /\ cuts' = cuts
    BY DEF guardVars
  <1>2. /\ InForce' = InForce /\ PerRule' /\ (Separate' <=> Separate)
        /\ \A h : OneShot(h)' = OneShot(h)
        /\ \A h : NoneStraddles(h)' <=> NoneStraddles(h)
    BY <1>0, <1>1, SameText
  <1>3. GuardTypeOK'
    <2>1. InForce' = InForce
      BY <1>2
    <2> QED
      BY <1>0, <1>1, <2>1, Zenon DEF GuardTypeOK
  <1>4. ASSUME stage' = "open" => stage \in {"new", "open"}, stage' # "new"
        PROVE  Buffered'
    <2>1. OneShot(base)' = OneShot(base) /\ (NoneStraddles(base)' <=> NoneStraddles(base))
      <3>1. OneShot(base)' = OneShot(base)
        BY <1>1, <1>2
      <3>2. NoneStraddles(base)' <=> NoneStraddles(base)
        BY <1>1, <1>2 DEF NoneStraddles, Whole
      <3> QED
        BY <3>1, <3>2
    <2> QED
      BY <1>0, <1>1, <1>2, <1>4, <2>1 DEF Buffered
  <1>5. ASSUME stage' = "open" => stage = "open" PROVE BufferBounded'
    <2>1. InForce' = InForce
      BY <1>2
    <2> QED
      BY <1>0, <1>1, <1>5, <2>1, Zenon DEF BufferBounded
  <1>6. PerRule'
    BY <1>2
  <1> QED
    BY <1>3, <1>4, <1>5, <1>6, Zenon

(* Every body ends in [DONE]. *)
LEMMA CloseFacts ==
    ASSUME TypeOK, NEW how, NEW last \in Seq(EventKinds), Close(how, last)
    PROVE  stage' = how /\ events' \in Seq(EventKinds)
  <1>1. <<"[DONE]">> \in Seq(EventKinds) /\ events \in Seq(EventKinds)
    BY DEF EventKinds, TypeOK
  <1>2. events \o last \in Seq(EventKinds)
    BY <1>1, ConcatProperties
  <1>3. (events \o last) \o <<"[DONE]">> \in Seq(EventKinds)
    BY <1>1, <1>2, ConcatProperties
  <1>4. events' = (events \o last) \o <<"[DONE]">>
    <2>1. events' = events \o last \o <<"[DONE]">>
      BY DEF Close
    <2> QED
      BY <2>1
  <1> QED
    BY <1>3, <1>4 DEF Close

LEMMA RefuseKeeps ==
    ASSUME Faithful, NEW outcome \in Refusals, Refuse(outcome)
    PROVE  Faithful'
  <1>0. TypeOK /\ Sent /\ Booked
    BY DEF Faithful
  <1>1. /\ stage = "new" /\ stage' = "refused" /\ events' = <<outcome>> /\ UNCHANGED guardVars
        /\ route' = route /\ finished' = finished /\ sent' = sent
        /\ reported' = reported /\ usage' = usage /\ redisErrors' = redisErrors
    BY DEF Refuse, books
  <1>2. GuardTypeOK' /\ PerRule' /\ Buffered' /\ BufferBounded'
    BY <1>1, GuardKept
  <1>3. events' \in Seq(EventKinds) /\ Len(events') = 1
    BY <1>1 DEF EventKinds
  <1>4. TypeOK'
    BY <1>0, <1>1, <1>2, <1>3 DEF TypeOK, EventKinds
  <1>5. Sent' /\ Booked'
    BY <1>0, <1>1, <1>3 DEF Sent, Booked, guardVars, NotRecorded
  <1> QED
    BY <1>2, <1>4, <1>5 DEF Faithful

LEMMA OpenKeeps == Faithful /\ Open => Faithful'
  <1> SUFFICES ASSUME Faithful, Open PROVE Faithful'
    OBVIOUS
  <1>0. TypeOK /\ Sent /\ Booked /\ Buffered
    BY DEF Faithful
  <1>1. /\ stage = "new" /\ stage' = "open" /\ UNCHANGED guardVars
        /\ route' = route /\ finished' = finished /\ sent' = sent /\ events' = events
        /\ reported' = reported /\ usage' = usage /\ redisErrors' = redisErrors
    BY DEF Open, books
  <1>2. GuardTypeOK' /\ PerRule' /\ Buffered'
    BY <1>1, GuardKept
  <1>3. BufferBounded'
    <2>1. received' = received /\ base' = received /\ received \in Nat
      BY <1>0, <1>1, GuardConstantsOK DEF Buffered, guardVars, TypeOK, GuardTypeOK
    <2>2. 0 < HoldBack + Span /\ received - received = 0
      BY <2>1, GuardConstantsOK
    <2> QED
      BY <2>1, <2>2 DEF BufferBounded
  <1>4. TypeOK'
    BY <1>0, <1>1, <1>2 DEF TypeOK
  <1>5. Sent' /\ Booked'
    BY <1>0, <1>1 DEF Sent, Booked, guardVars, NotRecorded
  <1> QED
    BY <1>2, <1>3, <1>4, <1>5 DEF Faithful

LEMMA ReportKeeps == Faithful /\ Report => Faithful'
  <1> SUFFICES ASSUME Faithful, Report PROVE Faithful'
    OBVIOUS
  <1>0. TypeOK /\ Sent /\ Booked
    BY DEF Faithful
  <1>1. /\ stage = "open" /\ stage' = stage /\ UNCHANGED guardVars
        /\ route' = route /\ finished' = finished /\ sent' = sent /\ events' = events
        /\ reported' = 1 /\ usage' = usage /\ redisErrors' = redisErrors
    BY DEF Report, Streams
  <1>2. GuardTypeOK' /\ PerRule' /\ Buffered' /\ BufferBounded'
    BY <1>1, GuardKept
  <1>4. TypeOK'
    BY <1>0, <1>1, <1>2 DEF TypeOK
  <1>5. Sent' /\ Booked'
    BY <1>0, <1>1 DEF Sent, Booked, guardVars, NotRecorded
  <1> QED
    BY <1>2, <1>4, <1>5 DEF Faithful

LEMMA BreakKeeps == Faithful /\ Break => Faithful'
  <1> SUFFICES ASSUME Faithful, Break PROVE Faithful'
    OBVIOUS
  <1>0. TypeOK /\ Sent /\ Booked
    BY DEF Faithful
  <1>1. /\ stage = "open" /\ Close("broken", ErrorChunk) /\ UNCHANGED guardVars
        /\ route' = route /\ finished' = finished /\ sent' = sent
        /\ reported' = reported /\ usage' = usage /\ redisErrors' = redisErrors
    BY DEF Break, books
  <1>2. stage' = "broken" /\ events' \in Seq(EventKinds)
    <2>1. ErrorChunk \in Seq(EventKinds)
      BY DEF ErrorChunk, EventKinds
    <2> QED
      BY <1>0, <1>1, <2>1, CloseFacts
  <1>3. GuardTypeOK' /\ PerRule' /\ Buffered' /\ BufferBounded'
    BY <1>1, <1>2, GuardKept
  <1>4. TypeOK'
    BY <1>0, <1>1, <1>2, <1>3 DEF TypeOK, EventKinds
  <1>5. Sent' /\ Booked'
    BY <1>0, <1>1, <1>2 DEF Sent, Booked, guardVars, NotRecorded
  <1> QED
    BY <1>3, <1>4, <1>5 DEF Faithful

LEMMA LeaveKeeps == Faithful /\ Leave => Faithful'
  <1> SUFFICES ASSUME Faithful, Leave PROVE Faithful'
    OBVIOUS
  <1>0. TypeOK /\ Sent /\ Booked
    BY DEF Faithful
  <1>1. /\ stage = "open" /\ stage' = "left" /\ UNCHANGED guardVars
        /\ route' = route /\ finished' = finished /\ sent' = sent /\ events' = events
        /\ reported' = reported /\ usage' = usage /\ redisErrors' = redisErrors
    BY DEF Leave, books
  <1>3. GuardTypeOK' /\ PerRule' /\ Buffered' /\ BufferBounded'
    BY <1>1, GuardKept
  <1>4. TypeOK'
    BY <1>0, <1>1, <1>3 DEF TypeOK
  <1>5. Sent' /\ Booked'
    BY <1>0, <1>1 DEF Sent, Booked, guardVars, NotRecorded
  <1> QED
    BY <1>3, <1>4, <1>5 DEF Faithful

(* A stream that ends is recorded as what was released, or the error is counted. *)
LEMMA EndKeeps == Faithful /\ End => Faithful'
  <1> SUFFICES ASSUME Faithful, End PROVE Faithful'
    OBVIOUS
  <1>0. TypeOK /\ Sent /\ Booked
    BY DEF Faithful
  <1>1. PICK so \in Recordings, wanted \in BOOLEAN :
           /\ Close("done", IF wanted THEN <<"usage">> ELSE <<>>)
           /\ usage' = Recorded(so)
           /\ redisErrors' = IF so.error THEN redisErrors + 1 ELSE redisErrors
    BY DEF End
  <1>2. /\ stage = "open" /\ UNCHANGED guardVars /\ route' = route /\ finished' = finished
        /\ sent' = sent /\ reported' = reported
    BY DEF End, Streams
  <1>3. stage' = "done" /\ events' \in Seq(EventKinds)
    <2>1. (IF wanted THEN <<"usage">> ELSE <<>>) \in Seq(EventKinds)
      <3>1. <<"usage">> \in Seq(EventKinds) /\ <<>> \in Seq(EventKinds)
        BY EmptySeq DEF EventKinds
      <3> QED
        BY <3>1
    <2> QED
      BY <1>0, <1>1, <2>1, CloseFacts
  <1>4. GuardTypeOK' /\ PerRule' /\ Buffered' /\ BufferBounded'
    BY <1>2, <1>3, GuardKept
  <1>5. /\ released \in Seq(Item) /\ Len(released) \in Nat /\ (released # <<>> => Len(released) > 0)
        /\ reported \in Nat /\ redisErrors \in Nat
    <2>1. released \in Seq(Item) /\ reported \in Nat /\ redisErrors \in Nat
      BY <1>0 DEF TypeOK, GuardTypeOK
    <2> QED
      BY <2>1, EmptySeq, LenProperties
  <1>6. /\ ResolveUsage(reported, released) \in Nat
        /\ released # <<>> => ResolveUsage(reported, released) > 0
    BY <1>5 DEF ResolveUsage, CountTokens
  <1>7. so.written \in BOOLEAN /\ so.error \in BOOLEAN /\ (so.written \/ so.error)
    <2>1. so \in [written : BOOLEAN, error : BOOLEAN] /\ so # [written |-> FALSE, error |-> FALSE]
      BY DEF Recordings
    <2> QED
      BY <2>1
  <1>8. CASE so.written
    <2>1. /\ usage'.text = released /\ usage'.tokens = ResolveUsage(reported, released)
          /\ usage' \in [text : Seq(Item), tokens : Nat]
      BY <1>1, <1>5, <1>6, <1>8 DEF Recorded
    <2>2. redisErrors' \in Nat
      BY <1>1, <1>5
    <2>3. sent # <<>> => released # <<>>
      <3>1. released \in Seq(Item) /\ sent \in Seq(Item) /\ SameWords(released, sent)
        BY <1>0, <1>2, <1>5 DEF Sent, TypeOK
      <3> QED
        BY <3>1 DEF SameWords
    <2>4. released' = released
      BY <1>2 DEF guardVars
    <2>5. Booked'
      BY <1>2, <1>3, <1>6, <2>1, <2>3, <2>4 DEF Booked
    <2>6. Sent'
      BY <1>0, <1>2, <1>3, <2>4 DEF Sent
    <2>7. TypeOK'
      BY <1>0, <1>2, <1>3, <1>4, <2>1, <2>2 DEF TypeOK, EventKinds
    <2> QED
      BY <1>4, <2>5, <2>6, <2>7 DEF Faithful
  <1>9. CASE ~so.written
    <2>1. usage' = NotRecorded /\ redisErrors' = redisErrors + 1
      BY <1>1, <1>7, <1>9 DEF Recorded
    <2>2. usage' \in [text : Seq(Item), tokens : Nat]
      BY <2>1, EmptySeq DEF NotRecorded
    <2>3. redisErrors' \in Nat /\ redisErrors' > 0
      BY <1>5, <2>1
    <2>4. released' = released
      BY <1>2 DEF guardVars
    <2>5. Booked'
      BY <1>3, <2>1, <2>3 DEF Booked, NotRecorded
    <2>6. Sent'
      BY <1>0, <1>2, <1>3, <2>4 DEF Sent
    <2>7. TypeOK'
      BY <1>0, <1>2, <1>3, <1>4, <2>2, <2>3 DEF TypeOK, EventKinds
    <2> QED
      BY <1>4, <2>5, <2>6, <2>7 DEF Faithful
  <1> QED
    BY <1>8, <1>9

(* What a push adds to what was released keeps it the text so far, redacted at once. *)
LEMMA GivenKeeps ==
    ASSUME Faithful, stage = "open", NEW n \in Nat, received + n <= Length
    PROVE  /\ received + n \in 0..Length
           /\ cuts \subseteq 0..Given(n).base
           /\ received + n \in cuts => Given(n).base = received + n /\ base = received + n
           /\ Given(n).base \in base..(received + n)
           /\ Given(n).base \in 0..(received + n)
           /\ Given(n).text \in Seq(Item)
           /\ InForce = {} => Given(n).base = received + n
           /\ InForce # {} /\ n # 0 => (received + n) - Given(n).base < HoldBack + Span
           /\ Separate => /\ NoneStraddles(Given(n).base)
                          /\ released \o Given(n).text = OneShot(Given(n).base)
  <1> DEFINE p == Given(n)
  <1>0. GuardTypeOK /\ Buffered
    BY DEF Faithful, TypeOK
  <1>1. InForce = {} => base = received
    BY <1>0 DEF Buffered
  <1>2. /\ p.base \in base..(received + n)
        /\ p.text = Redacted(base, p.base, Collected(base, p.base))
        /\ InForce = {} => p.base = received + n
        /\ InForce # {} /\ n # 0 => (received + n) - p.base < HoldBack + Span
        /\ Separate /\ NoneStraddles(base) => NoneStraddles(p.base)
    BY <1>0, <1>1, GivenFacts
  <1> HIDE DEF p
  <1>3. /\ received + n \in 0..Length /\ p.base \in 0..Length /\ base \in 0..p.base /\ base \in 0..Length
        /\ p.base \in 0..(received + n)
    BY <1>0, <1>2, GuardConstantsOK DEF GuardTypeOK
  <1>4. p.text \in Seq(Item)
    BY <1>0, <1>2, <1>3, CollectedFits, RedactedFacts
  <1>5. ASSUME Separate PROVE NoneStraddles(p.base) /\ released \o p.text = OneShot(p.base)
    <2>1. NoneStraddles(base) /\ released = OneShot(base)
      BY <1>0, <1>5 DEF Buffered
    <2>2. \A c \in cuts : c <= base
      BY <1>0, <1>3 DEF Buffered
    <2>3. OneShot(p.base) = OneShot(base) \o p.text
      BY <1>0, <1>2, <1>3, <2>1, <2>2, OneShotSplits
    <2> QED
      BY <1>2, <1>5, <2>1, <2>3
  <1>6. cuts \subseteq 0..p.base
    <2>1. cuts \subseteq 0..base
      BY <1>0 DEF Buffered
    <2> QED
      BY <1>3, <2>1, GuardConstantsOK
  <1>7. received + n \in cuts => p.base = received + n /\ base = received + n
    <2> SUFFICES ASSUME received + n \in cuts PROVE p.base = received + n /\ base = received + n
      OBVIOUS
    <2>1. received + n \in 0..base /\ base \in 0..received /\ received \in 0..Length
      BY <1>0 DEF Buffered, GuardTypeOK
    <2>2. base = received + n
      BY <2>1, GuardConstantsOK
    <2> QED
      BY <1>2, <2>1, <2>2, GuardConstantsOK
  <1> QED
    BY <1>2, <1>3, <1>4, <1>5, <1>6, <1>7 DEF p

(* A block ends the stream, whatever was released before it. *)
LEMMA BlockKeeps ==
    ASSUME Faithful, stage = "open", Block, NEW n \in Nat, received + n <= Length,
           received' = received + n, UNCHANGED <<action, found, cuts, route>>,
           \/ UNCHANGED <<base, released>>
           \/ /\ base' = Given(n).base
              /\ released' = released \o Given(n).text
    PROVE  Faithful'
  <1> DEFINE p == Given(n)
  <1>0. TypeOK /\ PerRule /\ Sent /\ Booked /\ Buffered /\ GuardTypeOK
    BY DEF Faithful, TypeOK
  <1>1. /\ Close("blocked", ErrorChunk) /\ finished' = finished /\ sent' = sent
        /\ reported' = reported /\ usage' = usage /\ redisErrors' = redisErrors
        /\ action' = action /\ found' = found /\ route' = route /\ cuts' = cuts
    BY DEF Block, books
  <1>2. stage' = "blocked" /\ events' \in Seq(EventKinds)
    <2>1. ErrorChunk \in Seq(EventKinds)
      BY DEF ErrorChunk, EventKinds
    <2> QED
      BY <1>0, <1>1, <2>1, CloseFacts
  <1>3. /\ InForce' = InForce /\ (PerRule' <=> PerRule) /\ (Separate' <=> Separate)
        /\ \A h : OneShot(h)' = OneShot(h)
        /\ \A h : NoneStraddles(h)' <=> NoneStraddles(h)
    BY <1>1, SameText
  <1>4. /\ received + n \in 0..Length /\ p.base \in 0..(received + n) /\ p.text \in Seq(Item)
        /\ cuts \subseteq 0..p.base
        /\ received + n \in cuts => p.base = received + n /\ base = received + n
        /\ Separate => NoneStraddles(p.base) /\ released \o p.text = OneShot(p.base)
    BY GivenKeeps
  <1>5. /\ received' \in 0..Length /\ base' \in 0..received' /\ released' \in Seq(Item)
        /\ cuts \subseteq 0..base' /\ (received' \in cuts => base' = received')
        /\ Separate => NoneStraddles(base') /\ released' = OneShot(base')
    <2>1. CASE UNCHANGED <<base, released>>
      <3>1. base \in 0..(received + n) /\ released \in Seq(Item)
        BY <1>0, <1>4, GuardConstantsOK DEF GuardTypeOK
      <3>2. /\ Separate => NoneStraddles(base) /\ released = OneShot(base)
            /\ cuts \subseteq 0..base
        BY <1>0 DEF Buffered
      <3> QED
        BY <1>4, <2>1, <3>1, <3>2
    <2>2. CASE base' = p.base /\ released' = released \o p.text
      <3>1. released \in Seq(Item)
        BY <1>0 DEF GuardTypeOK
      <3> HIDE DEF p
      <3>2. released \o p.text \in Seq(Item)
        BY <1>4, <3>1, ConcatProperties
      <3> QED
        BY <1>4, <2>2, <3>2
    <2> QED
      BY <2>1, <2>2
  <1>6. GuardTypeOK'
    <2>1. InForce' = InForce
      BY <1>3
    <2>2. cuts' \subseteq 0..received'
      BY <1>1, <1>5, GuardConstantsOK
    <2> QED
      BY <1>0, <1>1, <1>5, <2>1, <2>2, Zenon DEF GuardTypeOK
  <1>7. TypeOK'
    BY <1>0, <1>1, <1>2, <1>6 DEF TypeOK, EventKinds
  <1>8. Buffered'
    <2>1. OneShot(base)' = OneShot(base') /\ (NoneStraddles(base)' <=> NoneStraddles(base'))
      <3>1. OneShot(base)' = OneShot(base')
        BY <1>3
      <3>2. NoneStraddles(base)' <=> NoneStraddles(base')
        BY <1>1 DEF NoneStraddles, Whole
      <3> QED
        BY <3>1, <3>2
    <2> QED
      BY <1>1, <1>2, <1>3, <1>5, <2>1 DEF Buffered
  <1>9. BufferBounded' /\ Sent' /\ Booked' /\ PerRule'
    BY <1>0, <1>1, <1>2, <1>3 DEF BufferBounded, Sent, Booked, NotRecorded
  <1> QED
    BY <1>7, <1>8, <1>9 DEF Faithful

(* A chunk: what push emits is released and sent in one step, or blocks. *)
LEMMA ChunkKeeps ==
    ASSUME Faithful, NEW n \in 1..MaxChunk, Chunk(n)
    PROVE  Faithful'
  <1> DEFINE p == Given(n)
  <1>0. TypeOK /\ PerRule /\ Sent /\ Booked /\ Buffered /\ GuardTypeOK
    BY DEF Faithful, TypeOK
  <1>1. n \in Nat /\ n # 0 /\ p = Pushed(n)
    BY StreamConstantsOK DEF Given
  <1> HIDE DEF p
  <1>2. /\ stage = "open" /\ received + n <= Length /\ received' = received + n
        /\ UNCHANGED <<action, found, cuts, route>>
        /\ \/ Block /\ UNCHANGED <<base, released>>
           \/ /\ base' = p.base
              /\ released' = released \o p.text
              /\ sent' = sent \o p.text
              /\ UNCHANGED <<stage, finished, events, books>>
    BY <1>1 DEF Chunk, Streams
  <1>3. CASE Block /\ UNCHANGED <<base, released>>
    BY <1>1, <1>2, <1>3, BlockKeeps
  <1>4. CASE /\ base' = p.base
             /\ released' = released \o p.text
             /\ sent' = sent \o p.text
             /\ UNCHANGED <<stage, finished, events, books>>
    <2>1. /\ received + n \in 0..Length /\ p.base \in 0..(received + n) /\ p.text \in Seq(Item)
          /\ InForce = {} => p.base = received + n
          /\ InForce # {} => (received + n) - p.base < HoldBack + Span
          /\ cuts \subseteq 0..p.base /\ (received + n \in cuts => p.base = received + n)
          /\ Separate => NoneStraddles(p.base) /\ released \o p.text = OneShot(p.base)
      BY <1>1, <1>2, GivenKeeps DEF p
    <2>2. /\ action' = action /\ found' = found /\ cuts' = cuts /\ route' = route /\ stage' = "open"
          /\ finished' = finished /\ events' = events /\ reported' = reported /\ usage' = usage
          /\ redisErrors' = redisErrors
      BY <1>2, <1>4 DEF books
    <2>3. /\ InForce' = InForce /\ (PerRule' <=> PerRule) /\ (Separate' <=> Separate)
          /\ \A h : OneShot(h)' = OneShot(h)
      BY <2>2, SameText
    <2>4. /\ released \in Seq(Item) /\ sent \in Seq(Item) /\ SameWords(released, sent)
          /\ finished # "text" => sent = released
      BY <1>0, <1>2 DEF GuardTypeOK, TypeOK, Sent
    <2>5. /\ released' \in Seq(Item) /\ sent' \in Seq(Item) /\ SameWords(released', sent')
          /\ finished # "text" => sent' = released'
      <3>1. released \o p.text \in Seq(Item) /\ sent \o p.text \in Seq(Item)
        BY <2>1, <2>4, ConcatProperties
      <3>2. SameWords(released \o p.text, sent \o p.text)
        BY <2>1, <2>4, SameWordsOn
      <3> QED
        BY <1>4, <2>4, <3>1, <3>2
    <2>6. GuardTypeOK'
      <3>1. InForce' = InForce /\ received' \in 0..Length /\ base' \in 0..received'
            /\ cuts' \subseteq 0..received'
        BY <1>2, <1>4, <2>1, <2>2, <2>3, GuardConstantsOK
      <3> QED
        BY <1>0, <2>2, <2>5, <3>1, Zenon DEF GuardTypeOK
    <2>7. TypeOK'
      BY <1>0, <2>2, <2>5, <2>6 DEF TypeOK
    <2>8. Buffered'
      <3>1. OneShot(base)' = OneShot(base')
        BY <2>3
      <3>2. NoneStraddles(base)' <=> NoneStraddles(base')
        BY <2>2 DEF NoneStraddles, Whole
      <3> QED
        BY <1>2, <1>4, <2>1, <2>2, <2>3, <3>1, <3>2 DEF Buffered
    <2>9. BufferBounded'
      BY <1>2, <1>4, <2>1, <2>3 DEF BufferBounded
    <2>10. Sent'
      <3>1. SameWords(released, sent)' <=> SameWords(released', sent')
        BY DEF SameWords, Times
      <3> QED
        BY <2>2, <2>5, <3>1 DEF Sent
    <2>11. Booked' /\ PerRule'
      BY <1>0, <1>2, <2>2, <2>3 DEF Booked, NotRecorded
    <2> QED
      BY <2>7, <2>8, <2>9, <2>10, <2>11 DEF Faithful
  <1> QED
    BY <1>2, <1>3, <1>4

(* The chunk with the finish_reason: the buffer is emptied; the tail goes first, so the order *)
(* is the released one only if the chunk carries no text.                                     *)
LEMMA FinishKeeps ==
    ASSUME Faithful, NEW n \in 0..MaxChunk, Finish(n)
    PROVE  Faithful'
  <1> DEFINE hi == received + n
  <1> DEFINE p == Given(n)
  <1> DEFINE tail == FlushedFrom(p.base, received + n)
  <1>0. TypeOK /\ PerRule /\ Sent /\ Booked /\ Buffered /\ GuardTypeOK
    BY DEF Faithful, TypeOK
  <1>1. n \in Nat
    BY StreamConstantsOK
  <1>2. /\ stage = "open" /\ received + n <= Length /\ received' = received + n
        /\ UNCHANGED <<action, found, route>>
        /\ \/ Block /\ UNCHANGED <<base, released, cuts>>
           \/ /\ Block
              /\ base' = p.base
              /\ released' = released \o p.text
              /\ UNCHANGED cuts
           \/ /\ base' = tail.base
              /\ released' = released \o p.text \o tail.text
              /\ sent' = sent \o LastWords(p.text, tail.text)
              /\ finished' = IF n = 0 /\ finished # "text" THEN "bare" ELSE "text"
              /\ cuts' = cuts \cup {received'}
              /\ reported' \in CountedAtTheEnd
              /\ UNCHANGED <<stage, events, usage, redisErrors>>
    BY DEF Finish, Streams, Given
  <1> HIDE DEF tail
  <1>3. CASE Block /\ UNCHANGED <<base, released, cuts>>
    BY <1>1, <1>2, <1>3, BlockKeeps
  <1>4. CASE Block /\ base' = p.base /\ released' = released \o p.text /\ UNCHANGED cuts
    BY <1>1, <1>2, <1>4, BlockKeeps
  <1>5. CASE /\ base' = tail.base
             /\ released' = released \o p.text \o tail.text
             /\ sent' = sent \o LastWords(p.text, tail.text)
             /\ finished' = IF n = 0 /\ finished # "text" THEN "bare" ELSE "text"
             /\ cuts' = cuts \cup {received'}
             /\ reported' \in CountedAtTheEnd
             /\ UNCHANGED <<stage, events, usage, redisErrors>>
    <2>1. /\ hi \in 0..Length /\ p.base \in 0..hi /\ p.text \in Seq(Item)
          /\ InForce = {} => p.base = hi
          /\ cuts \subseteq 0..p.base
          /\ Separate => NoneStraddles(p.base) /\ released \o p.text = OneShot(p.base)
      BY <1>1, <1>2, GivenKeeps
    <2>2. n = 0 => p.text = <<>>
      BY DEF Given
    <2> HIDE DEF p
    <2>3. /\ tail.base = hi /\ tail.text = Redacted(p.base, hi, Collected(p.base, hi))
      BY <1>0, <2>1, FlushedFacts DEF tail
    <2>4. hi \in Nat /\ p.base \in 0..Length /\ tail.text \in Seq(Item)
      <3>1. hi \in Nat /\ p.base \in 0..Length
        BY <2>1, GuardConstantsOK
      <3> HIDE DEF hi
      <3> QED
        BY <1>0, <2>1, <2>3, <3>1, CollectedFits, RedactedFacts
    <2>5. Separate => (released \o p.text) \o tail.text = OneShot(hi)
      <3> HIDE DEF hi
      <3>1. \A c \in cuts : c <= p.base
        BY <2>1, <2>4
      <3> QED
        BY <1>0, <2>1, <2>3, <3>1, OneShotSplits
    <2>6. /\ action' = action /\ found' = found /\ route' = route /\ stage' = "open"
          /\ events' = events /\ usage' = usage /\ redisErrors' = redisErrors
          /\ finished' = (IF n = 0 /\ finished # "text" THEN "bare" ELSE "text")
          /\ base' = hi /\ received' = hi /\ cuts' = cuts \cup {hi}
          /\ released' = (released \o p.text) \o tail.text
          /\ sent' = sent \o (tail.text \o p.text)
      <3>1. released' = (released \o p.text) \o tail.text
        BY <1>5
      <3>2. base' = hi /\ received' = hi
        BY <1>2, <1>5, <2>3
      <3> HIDE DEF hi
      <3> QED
        BY <1>2, <1>5, <3>1, <3>2 DEF LastWords
    <2> HIDE DEF hi
    <2>7. /\ InForce' = InForce /\ (PerRule' <=> PerRule) /\ (Separate' <=> Separate)
          /\ OneShot(base)' = OneShot(hi) /\ NoneStraddles(base)'
      <3>1. InForce' = InForce /\ (PerRule' <=> PerRule) /\ (Separate' <=> Separate)
        BY <2>6 DEF InForce, PerRule, Separate
      <3>2. PICK h \in 0..Length : h = hi
        BY <2>1
      <3>3. OneShot(h)' = OneShot(h) /\ NoneStraddles(h)'
        BY <1>0, <2>6, <3>2, FlushCuts
      <3>4. OneShot(base)' = OneShot(h)' /\ (NoneStraddles(base)' <=> NoneStraddles(h)')
        BY <2>6, <3>2 DEF OneShot, NoneStraddles, Straddles, Collected, Whole
      <3> QED
        BY <3>1, <3>2, <3>3, <3>4
    <2>8. /\ released \in Seq(Item) /\ sent \in Seq(Item) /\ SameWords(released, sent)
          /\ finished # "text" => sent = released
      BY <1>0, <1>2 DEF GuardTypeOK, TypeOK, Sent
    <2> DEFINE t == p.text
    <2> DEFINE u == tail.text
    <2>9. t \in Seq(Item) /\ u \in Seq(Item)
      BY <2>1, <2>4
    <2>10. released' = (released \o t) \o u /\ sent' = sent \o (u \o t)
      BY <2>6
    <2>11. n = 0 => t = <<>>
      BY <2>2
    <2> HIDE DEF t, u
    <2>12. /\ released \o t \in Seq(Item) /\ u \o t \in Seq(Item)
           /\ (released \o t) \o u \in Seq(Item) /\ sent \o (u \o t) \in Seq(Item)
      BY <2>8, <2>9, ConcatProperties
    <2>13. released' \in Seq(Item) /\ sent' \in Seq(Item)
      BY <2>10, <2>12
    <2>14. GuardTypeOK'
      <3>1. InForce' = InForce /\ received' \in 0..Length /\ base' \in 0..received'
            /\ cuts' \subseteq 0..received'
        BY <2>1, <2>4, <2>6, <2>7, GuardConstantsOK
      <3> QED
        BY <1>0, <2>6, <2>13, <3>1, Zenon DEF GuardTypeOK
    <2>15. reported' \in 0..1 /\ finished' \in {"no", "bare", "text"} /\ finished' # "no"
      BY <1>0, <1>5, <2>6 DEF CountedAtTheEnd, TypeOK
    <2>16. TypeOK'
      BY <1>0, <2>6, <2>13, <2>14, <2>15 DEF TypeOK
    <2>17. Buffered'
      <3>2. Separate => released' = OneShot(hi)
        BY <2>5, <2>6
      <3>3. cuts' \subseteq 0..base'
        BY <2>1, <2>4, <2>6
      <3> QED
        BY <2>6, <2>7, <3>2, <3>3 DEF Buffered
    <2>18. BufferBounded'
      <3>1. hi - hi < HoldBack + Span
        BY <2>4, GuardConstantsOK
      <3> QED
        BY <2>6, <3>1 DEF BufferBounded
    <2>19. Sent'
      <3>1. SameWords(released', sent')
        BY <2>8, <2>9, <2>10, SameWordsOn
      <3>2. finished' # "text" => sent' = released'
        <4> SUFFICES ASSUME n = 0, finished # "text" PROVE sent' = released'
          BY <2>6
        <4>1. released \o t = released /\ u \o t = u
          BY <2>8, <2>9, <2>11, ConcatEmptySeq
        <4> QED
          BY <2>8, <2>10, <4>1
      <3>3. SameWords(released, sent)' <=> SameWords(released', sent')
        BY DEF SameWords, Times
      <3> QED
        BY <2>6, <3>1, <3>2, <3>3 DEF Sent
    <2>20. Booked' /\ PerRule'
      BY <1>0, <1>2, <2>6, <2>7 DEF Booked, NotRecorded
    <2> QED
      BY <2>16, <2>17, <2>18, <2>19, <2>20 DEF Faithful
  <1> QED
    BY <1>2, <1>3, <1>4, <1>5

LEMMA FaithfulStutters == Faithful /\ UNCHANGED vars => Faithful'
  <1> SUFFICES ASSUME Faithful, UNCHANGED vars PROVE Faithful'
    OBVIOUS
  <1>1. /\ UNCHANGED guardVars /\ stage' = stage /\ route' = route /\ finished' = finished
        /\ sent' = sent /\ events' = events /\ reported' = reported /\ usage' = usage
        /\ redisErrors' = redisErrors /\ action' = action /\ found' = found
        /\ received' = received /\ base' = base /\ released' = released /\ cuts' = cuts
    BY DEF vars, books, guardVars
  <1>2. GuardTypeOK' /\ PerRule' /\ BufferBounded'
    BY <1>1, GuardKept
  <1>3. TypeOK' /\ Sent' /\ Booked'
    BY <1>1, <1>2 DEF Faithful, TypeOK, Sent, Booked, NotRecorded, SameWords, Times
  <1>4. Buffered'
    <2>1. /\ InForce' = InForce /\ (Separate' <=> Separate)
          /\ \A h : OneShot(h)' = OneShot(h)
          /\ \A h : NoneStraddles(h)' <=> NoneStraddles(h)
      BY <1>1, SameText
    <2>2. OneShot(base)' = OneShot(base') /\ (NoneStraddles(base)' <=> NoneStraddles(base'))
      BY <1>1, <2>1 DEF NoneStraddles, Whole
    <2> QED
      BY <1>1, <2>1, <2>2 DEF Faithful, Buffered
  <1> QED
    BY <1>2, <1>3, <1>4 DEF Faithful

LEMMA NextFaithful == Faithful /\ [Next]_vars => Faithful'
  <1> SUFFICES ASSUME Faithful, [Next]_vars PROVE Faithful'
    OBVIOUS
  <1>1. ASSUME NEW outcome \in Refusals, Refuse(outcome) PROVE Faithful'
    BY <1>1, RefuseKeeps
  <1>2. CASE Open
    BY <1>2, OpenKeeps
  <1>3. ASSUME NEW n \in 1..MaxChunk, Chunk(n) PROVE Faithful'
    BY <1>3, ChunkKeeps
  <1>4. ASSUME NEW n \in 0..MaxChunk, Finish(n) PROVE Faithful'
    BY <1>4, FinishKeeps
  <1>5. CASE Report
    BY <1>5, ReportKeeps
  <1>6. CASE End
    BY <1>6, EndKeeps
  <1>7. CASE Break
    BY <1>7, BreakKeeps
  <1>8. CASE Leave
    BY <1>8, LeaveKeeps
  <1>9. CASE UNCHANGED vars
    BY <1>9, FaithfulStutters
  <1> QED
    BY <1>1, <1>2, <1>3, <1>4, <1>5, <1>6, <1>7, <1>8, <1>9 DEF Next

-----------------------------------------------------------------------------
(* The inductive invariant holds of every stream. *)
THEOREM FaithfulHolds == Spec => []Faithful
  BY InitFaithful, NextFaithful, PTL DEF Spec

(* The types, that no rule overlaps itself, and that the client trails the provider by less *)
(* than a hold-back and a pattern, although a release point is pulled back to a match's     *)
(* start (stream_guard.py, _release).                                                       *)
THEOREM WellFormed == Spec => []IInv
  <1>1. Faithful => IInv
    BY DEF Faithful, IInv
  <1> QED
    BY <1>1, FaithfulHolds, PTL

(* However the provider cuts its text, what StreamGuard has released is a beginning of what *)
(* one redaction of the whole text gives, and all of it when the stream ends in a chunk     *)
(* with a finish_reason: a pattern split over chunks is caught unless such a chunk parts    *)
(* it, for any text whose matches do not overlap.                                           *)
THEOREM ChunkingDoesNotMatter == Spec => []ChunkingIndependent
  <1>1. ASSUME Faithful, Separate PROVE Prefix(released, OneShot(Length))
    <2>1. GuardTypeOK /\ released = OneShot(base) /\ NoneStraddles(base) /\ cuts \subseteq 0..base
      BY <1>1 DEF Faithful, TypeOK, Buffered
    <2>2. Length \in 0..Length /\ base \in 0..Length /\ \A c \in cuts : c <= base
      BY <2>1, GuardConstantsOK DEF GuardTypeOK
    <2> DEFINE rest == Redacted(base, Length, Collected(base, Length))
    <2>3. OneShot(Length) = OneShot(base) \o rest /\ OneShot(base) \in Seq(Item) /\ rest \in Seq(Item)
      BY <2>1, <2>2, OneShotSplits
    <2> HIDE DEF rest
    <2> QED
      BY <2>1, <2>3, PrefixOfConcat
  <1>2. Faithful => ChunkingIndependent
    BY <1>1 DEF ChunkingIndependent, Faithful, Buffered
  <1> QED
    BY <1>2, FaithfulHolds, PTL

(* What the client was sent is what was released, in the same order unless a chunk with a    *)
(* finish_reason carried text, and is what record_usage accounts for when the stream ends;   *)
(* nothing is left in the buffer of a stream that ends in a chunk with a finish_reason, and   *)
(* a refused request has sent nothing.                                                       *)
THEOREM SentAccounted == Spec => []SentIsAccounted
  <1>1. ASSUME Faithful, stage = "done", usage.text = released, NEW i \in DOMAIN usage.text
        PROVE  Cardinality({j \in DOMAIN usage.text : usage.text[j] = usage.text[i]}) =
               Cardinality({j \in DOMAIN sent : sent[j] = usage.text[i]})
    <2>1. released \in Seq(Item) /\ Sent
      BY <1>1 DEF Faithful, TypeOK, GuardTypeOK
    <2>2. released[i] \in Item
      BY <1>1, <2>1, LenProperties, ElementOfSeq
    <2>3. Cardinality(Times(released[i], released)) = Cardinality(Times(released[i], sent))
      BY <1>1, <2>1, <2>2 DEF Sent, SameWords
    <2> QED
      BY <1>1, <2>3 DEF Times
  <1>2. ASSUME Faithful PROVE SentIsAccounted
    <2>1. stage = "done" /\ sent # <<>> =>
          \/ usage = NotRecorded /\ redisErrors > 0
          \/ usage.tokens > 0 /\ \A i \in DOMAIN usage.text :
                Cardinality({j \in DOMAIN usage.text : usage.text[j] = usage.text[i]}) =
                Cardinality({j \in DOMAIN sent : sent[j] = usage.text[i]})
      BY <1>1, <1>2 DEF Faithful, Booked
    <2>2. /\ usage # NotRecorded => stage = "done"
          /\ stage # "blocked" /\ finished # "text" => sent = released
          /\ stage = "done" /\ received \in cuts => base = received
          /\ stage = "refused" => sent = <<>> /\ Len(events) = 1
      BY <1>2 DEF Faithful, Booked, Buffered, Sent
    <2> QED
      BY <2>1, <2>2, Zenon DEF SentIsAccounted
  <1> QED
    BY <1>2, FaithfulHolds, PTL

=============================================================================
