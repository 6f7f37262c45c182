------------------------- MODULE RequestPipeline_proofs -------------------------
(***************************************************************************)
(* Proofs about RequestPipeline for any list of requests, any sizes and    *)
(* any clients.  The symbols between the client and ProcessCommand stay in *)
(* the order of the client wherever the chunks are cut, and what has been  *)
(* handled lies before all of them, because the packet loop clears what it *)
(* has processed; the packets of the answers stay in the order of their    *)
(* requests in SendBuffer, in SendEventArgs and on the wire.               *)
(***************************************************************************)
EXTENDS RequestPipeline, SequenceTheorems, FiniteSetTheorems, WellFoundedInduction, TLAPS

-----------------------------------------------------------------------------
(* The order of symbols, and sequences that keep it.                         *)

Less(a, b) ==
  a = Flag \/ b = Flag \/ a.req < b.req \/ (a.req = b.req /\ a.piece < b.piece)

Ascending(s) == \A i, j \in DOMAIN s : i < j => Less(s[i], s[j])

Before(s, t) == \A a \in Range(s), b \in Range(t) : Less(a, b)

\* What a sequence of symbols holds.
LEMMA ElementsOfRange ==
  ASSUME NEW S, NEW s \in Seq(S)
  PROVE  /\ DOMAIN s = 1..Len(s) /\ Len(s) \in Nat
         /\ Range(s) \subseteq S
         /\ \A i \in 1..Len(s) : s[i] \in Range(s)
         /\ \A x \in Range(s) : \E i \in 1..Len(s) : x = s[i]
  <1>1. DOMAIN s = 1..Len(s) /\ Len(s) \in Nat /\ \A i \in 1..Len(s) : s[i] \in S
    BY LenProperties, ElementOfSeq
  <1>2. Range(s) = {s[i] : i \in 1..Len(s)}
    BY <1>1 DEF Range
  <1> QED
    BY <1>1, <1>2

\* A symbol that is not the flag has a request and a piece.
LEMMA SymbolFields ==
  ASSUME NEW x \in Symbols, x # Flag
  PROVE  x.req \in Requests /\ x.piece \in 1..Pieces
  BY DEF Symbols

LEMMA FlagFields == Flag.req = 0 /\ Flag.piece = 0
  BY DEF Flag

\* Part of a sequence keeps its order.
LEMMA SubSeqOrder ==
  ASSUME NEW S, NEW s \in Seq(S), NEW m \in 1..(Len(s) + 1), NEW n \in (m - 1)..Len(s)
  PROVE  /\ SubSeq(s, m, n) \in Seq(S) /\ Len(SubSeq(s, m, n)) = n - m + 1
         /\ \A i \in 1..(n - m + 1) : SubSeq(s, m, n)[i] = s[m + i - 1]
         /\ Range(SubSeq(s, m, n)) \subseteq Range(s)
         /\ Ascending(s) => Ascending(SubSeq(s, m, n))
  <1> DEFINE t == SubSeq(s, m, n)
  <1>1. Len(s) \in Nat /\ \A i \in 1..Len(s) : s[i] \in S
    BY ElementOfSeq, LenProperties
  <1>2. t \in Seq(S) /\ Len(t) = n - m + 1 /\ \A i \in 1..(n - m + 1) : t[i] = s[m + i - 1]
    BY <1>1, SubSeqProperties
  <1> HIDE DEF t
  <1>3. DOMAIN t = 1..(n - m + 1) /\ DOMAIN s = 1..Len(s)
    BY <1>1, <1>2, LenProperties
  <1>4. \A i \in DOMAIN t : m + i - 1 \in DOMAIN s
    BY <1>1, <1>3
  <1>5. ASSUME NEW x \in Range(t) PROVE x \in Range(s)
    <2>1. PICK i \in 1..Len(t) : x = t[i]
      BY <1>2, ElementsOfRange
    <2>2. x = s[m + i - 1] /\ m + i - 1 \in 1..Len(s)
      BY <1>1, <1>2, <1>3, <1>4, <2>1
    <2> QED
      BY <2>2, ElementsOfRange
  <1>6. ASSUME Ascending(s), NEW i \in DOMAIN t, NEW j \in DOMAIN t, i < j
        PROVE  Less(t[i], t[j])
    <2>1. m + i - 1 \in DOMAIN s /\ m + j - 1 \in DOMAIN s /\ m + i - 1 < m + j - 1
      BY <1>1, <1>3, <1>4, <1>6
    <2>2. t[i] = s[m + i - 1] /\ t[j] = s[m + j - 1]
      BY <1>2, <1>3
    <2> QED
      BY <1>6, <2>1, <2>2 DEF Ascending
  <1> QED
    BY <1>2, <1>5, <1>6 DEF t, Ascending

\* A chunk and what stays in flight.
LEMMA CutOrder ==
  ASSUME NEW S, NEW s \in Seq(S), NEW n \in 1..Len(s), Ascending(s)
  PROVE  Before(SubSeq(s, 1, n), SubSeq(s, n + 1, Len(s)))
  <1> DEFINE a == SubSeq(s, 1, n)
             b == SubSeq(s, n + 1, Len(s))
  <1>1. Len(s) \in Nat
    BY LenProperties
  <1>2. a \in Seq(S) /\ Len(a) = n /\ \A i \in 1..n : a[i] = s[i]
    BY <1>1, SubSeqOrder
  <1>3. b \in Seq(S) /\ Len(b) = Len(s) - n /\ \A i \in 1..(Len(s) - n) : b[i] = s[n + i]
    BY <1>1, SubSeqOrder
  <1> HIDE DEF a, b
  <1>4. ASSUME NEW x \in Range(a), NEW y \in Range(b) PROVE Less(x, y)
    <2>1. PICK i \in 1..n : x = s[i]
      <3>1. PICK i \in 1..Len(a) : x = a[i]
        BY <1>2, ElementsOfRange
      <3> QED
        BY <1>2, <3>1
    <2>2. PICK j \in 1..(Len(s) - n) : y = s[n + j]
      <3>1. PICK j \in 1..Len(b) : y = b[j]
        BY <1>3, ElementsOfRange
      <3> QED
        BY <1>3, <3>1
    <2>3. i \in DOMAIN s /\ n + j \in DOMAIN s /\ i < n + j
      BY <1>1, LenProperties
    <2> QED
      BY <2>1, <2>2, <2>3 DEF Ascending
  <1> QED
    BY <1>4 DEF Before, a, b

\* What is received after what there is.
LEMMA ConcatOrder ==
  ASSUME NEW S, NEW s \in Seq(S), NEW t \in Seq(S)
  PROVE  /\ s \o t \in Seq(S) /\ Len(s \o t) = Len(s) + Len(t)
         /\ \A i \in 1..Len(s) : (s \o t)[i] = s[i]
         /\ \A i \in 1..Len(t) : (s \o t)[Len(s) + i] = t[i]
         /\ Range(s \o t) = Range(s) \cup Range(t)
         /\ Ascending(s) /\ Ascending(t) /\ Before(s, t) => Ascending(s \o t)
  <1> DEFINE u == s \o t
  <1>1. Len(s) \in Nat /\ Len(t) \in Nat /\ DOMAIN s = 1..Len(s) /\ DOMAIN t = 1..Len(t)
    BY LenProperties
  <1>2. u \in Seq(S) /\ Len(u) = Len(s) + Len(t)
        /\ \A i \in 1..(Len(s) + Len(t)) : u[i] = IF i <= Len(s) THEN s[i] ELSE t[i - Len(s)]
    BY ConcatProperties
  <1> HIDE DEF u
  <1>3. DOMAIN u = 1..(Len(s) + Len(t))
    BY <1>2, LenProperties
  <1>4. \A i \in 1..Len(s) : i \in DOMAIN u /\ u[i] = s[i]
    BY <1>1, <1>2, <1>3
  <1>5. ASSUME NEW i \in 1..Len(t) PROVE Len(s) + i \in DOMAIN u /\ u[Len(s) + i] = t[i]
    <2>1. Len(s) + i \in 1..(Len(s) + Len(t)) /\ ~(Len(s) + i <= Len(s)) /\ (Len(s) + i) - Len(s) = i
      BY <1>1
    <2> QED
      BY <1>2, <1>3, <2>1
  <1>6. ASSUME NEW i \in DOMAIN u
        PROVE  i \in 1..Len(s) \/ \E j \in 1..Len(t) : i = Len(s) + j
    <2>1. i \in 1..(Len(s) + Len(t))
      BY <1>3
    <2>2. CASE i > Len(s)
      <3>1. i - Len(s) \in 1..Len(t) /\ i = Len(s) + (i - Len(s))
        BY <1>1, <2>1, <2>2
      <3> QED
        BY <3>1
    <2> QED
      BY <1>1, <2>1, <2>2
  <1>7. Range(u) = Range(s) \cup Range(t)
    <2>1. Range(u) \subseteq Range(s) \cup Range(t)
      BY <1>1, <1>4, <1>5, <1>6 DEF Range
    <2>2. Range(s) \subseteq Range(u) /\ Range(t) \subseteq Range(u)
      BY <1>1, <1>4, <1>5 DEF Range
    <2> QED
      BY <2>1, <2>2
  <1>8. ASSUME Ascending(s), Ascending(t), Before(s, t), NEW i \in DOMAIN u, NEW j \in DOMAIN u, i < j
        PROVE  Less(u[i], u[j])
    <2>1. CASE j \in 1..Len(s)
      <3>1. i \in 1..Len(s)
        BY <1>1, <1>3, <1>8, <2>1
      <3> QED
        BY <1>1, <1>4, <1>8, <2>1, <3>1 DEF Ascending
    <2>2. CASE \E l \in 1..Len(t) : j = Len(s) + l
      <3>1. PICK l \in 1..Len(t) : j = Len(s) + l
        BY <2>2
      <3>2. CASE i \in 1..Len(s)
        <4>1. s[i] \in Range(s) /\ t[l] \in Range(t)
          BY <3>2, ElementsOfRange
        <4> QED
          BY <1>4, <1>5, <1>8, <3>1, <3>2, <4>1 DEF Before
      <3>3. CASE \E k \in 1..Len(t) : i = Len(s) + k
        <4>1. PICK k \in 1..Len(t) : i = Len(s) + k
          BY <3>3
        <4>2. k < l
          BY <1>1, <1>8, <3>1, <4>1
        <4> QED
          BY <1>1, <1>5, <1>8, <3>1, <4>1, <4>2 DEF Ascending
      <3> QED
        BY <1>6, <3>2, <3>3
    <2> QED
      BY <1>6, <2>1, <2>2
  <1> QED
    BY <1>2, <1>4, <1>5, <1>7, <1>8 DEF u, Ascending

\* The rest of a sequence.
LEMMA TailOrder ==
  ASSUME NEW S, NEW s \in Seq(S), s # <<>>
  PROVE  /\ Tail(s) \in Seq(S) /\ Len(Tail(s)) = Len(s) - 1
         /\ \A i \in 1..(Len(s) - 1) : Tail(s)[i] = s[i + 1]
         /\ Range(Tail(s)) \subseteq Range(s)
         /\ Ascending(s) => Ascending(Tail(s))
         /\ s[1] \in Range(s) /\ Head(s) = s[1]
  <1>1. Len(s) \in Nat /\ Len(s) # 0
    BY LenProperties, EmptySeq
  <1>2. 2 \in 1..(Len(s) + 1) /\ Len(s) \in (2 - 1)..Len(s) /\ Len(s) - 2 + 1 = Len(s) - 1
    BY <1>1
  <1>3. /\ SubSeq(s, 2, Len(s)) \in Seq(S) /\ Len(SubSeq(s, 2, Len(s))) = Len(s) - 1
        /\ \A i \in 1..(Len(s) - 1) : SubSeq(s, 2, Len(s))[i] = s[2 + i - 1]
        /\ Range(SubSeq(s, 2, Len(s))) \subseteq Range(s)
        /\ Ascending(s) => Ascending(SubSeq(s, 2, Len(s)))
    BY <1>2, SubSeqOrder
  <1>4. Tail(s) = SubSeq(s, 2, Len(s))
    BY <1>1, HeadTailProperties
  <1>5. s[1] \in Range(s) /\ Head(s) = s[1]
    BY <1>1, ElementsOfRange
  <1>6. ASSUME NEW i \in 1..(Len(s) - 1) PROVE Tail(s)[i] = s[i + 1]
    <2>1. 2 + i - 1 = i + 1
      BY <1>1
    <2> QED
      BY <1>3, <1>4, <2>1
  <1> QED
    BY <1>3, <1>4, <1>5, <1>6

-----------------------------------------------------------------------------
(* Whole requests. *)

\* A set of numbers up to n has a largest one.
LEMMA LargestElement ==
  ASSUME NEW n \in Nat, NEW I \in SUBSET (0..n), I # {}
  PROVE  Max(I) \in I /\ \A i \in I : i <= Max(I)
  <1> DEFINE R == OpToRel(<, Nat)
             J == {n - i : i \in I}
  <1>1. IsWellFoundedOn(R, Nat)
    BY NatLessThanWellFounded
  <1>2. \A j, m \in Nat : j < m => <<j, m>> \in R
    BY DEF OpToRel
  <1> HIDE DEF R
  <1>3. J \subseteq Nat /\ J # {}
    <2>1. \A i \in I : i \in 0..n /\ n - i \in Nat
      OBVIOUS
    <2>2. J \subseteq Nat
      BY <2>1
    <2>3. PICK i \in I : TRUE
      OBVIOUS
    <2>4. n - i \in J
      BY <2>3
    <2> QED
      BY <2>2, <2>4
  <1>4. PICK m \in J : \A j \in J : ~(<<j, m>> \in R)
    BY <1>1, <1>3, WFMin
  <1>5. ASSUME NEW i \in I PROVE i <= n - m
    <2>1. n - i \in J /\ n - i \in Nat /\ m \in Nat
      BY <1>3
    <2>2. ~(n - i < m)
      BY <1>2, <1>4, <2>1, Zenon
    <2> QED
      BY <2>1, <2>2
  <1>6. n - m \in I
    <2>1. PICK i \in I : m = n - i
      OBVIOUS
    <2> QED
      BY <2>1
  <1> QED
    BY <1>5, <1>6 DEF Max

\* Multiples of Pieces.
LEMMA Multiples ==
  ASSUME NEW k \in Nat, NEW l \in Nat
  PROVE  /\ k * Pieces \in Nat
         /\ k >= 1 => k * Pieces >= Pieces /\ k * Pieces = (k - 1) * Pieces + Pieces
         /\ k < l => k * Pieces < l * Pieces
         /\ k <= l => k * Pieces <= l * Pieces
  <1>1. Pieces \in Nat /\ Pieces >= 1
    BY SizesAssumption
  <1>2. \A x \in Nat : x * Pieces \in Nat /\ (x >= 1 => x * Pieces >= Pieces)
    BY <1>1
  <1>3. k >= 1 => k * Pieces = (k - 1) * Pieces + Pieces
    BY <1>1
  <1>4. k < l => k * Pieces < l * Pieces
    <2>1. SUFFICES ASSUME k < l PROVE k * Pieces < l * Pieces
      OBVIOUS
    <2>2. l - k \in Nat /\ l - k >= 1
      BY <2>1
    <2>3. (l - k) * Pieces >= Pieces
      BY <1>2, <2>2
    <2>4. (l - k) * Pieces = l * Pieces - k * Pieces
      BY <1>1
    <2> QED
      BY <1>1, <1>2, <2>3, <2>4
  <1> QED
    BY <1>2, <1>3, <1>4

\* The last symbol of the k-th request in b.
LastPiece(b, k) == b[k * Pieces]

LEMMA WholeRequests ==
  ASSUME NEW b \in Seq(Symbols)
  PROVE  /\ Whole(b) \in Nat /\ Whole(b) * Pieces \in 0..Len(b)
         /\ \A k \in 1..Whole(b) : /\ k * Pieces \in 1..Len(b)
                                   /\ LastPiece(b, k) \in Range(b) \ {Flag}
                                   /\ LastPiece(b, k).piece = Pieces
                                   /\ b[(k - 1) * Pieces + 1].piece = 1
  <1> DEFINE Fits(k) == \A i \in 0..(k - 1), p \in 1..Pieces :
                          b[i * Pieces + p] = [req |-> b[i * Pieces + 1].req, piece |-> p]
             I == {k \in 0..Len(b) : k * Pieces <= Len(b) /\ Fits(k)}
             w == Max(I)
  <1>1. Len(b) \in Nat /\ Pieces \in Nat /\ Pieces >= 1
    BY LenProperties, SizesAssumption
  <1>2. 0 \in I
    BY <1>1
  <1>3. w \in I
    <2> HIDE DEF I
    <2>1. I # {}
      BY <1>2
    <2>2. I \subseteq 0..Len(b)
      BY DEF I
    <2> QED
      BY <1>1, <2>1, <2>2, LargestElement
  <1>4. Whole(b) = w
    BY DEF Whole
  <1> HIDE DEF w
  <1> HIDE DEF Fits
  <1>5. w \in Nat /\ w * Pieces <= Len(b) /\ Fits(w)
    BY <1>1, <1>3
  <1> HIDE DEF I
  <1>6. ASSUME NEW k \in 1..w
        PROVE  /\ k * Pieces \in 1..Len(b)
               /\ LastPiece(b, k) \in Range(b) \ {Flag}
               /\ LastPiece(b, k).piece = Pieces
               /\ b[(k - 1) * Pieces + 1].piece = 1
    <2>1. k * Pieces \in Nat /\ k * Pieces >= 1 /\ k * Pieces <= w * Pieces /\ w * Pieces \in Nat
          /\ k * Pieces = (k - 1) * Pieces + Pieces
      BY <1>1, <1>5, Multiples
    <2>2. k * Pieces \in 1..Len(b)
      BY <1>1, <1>5, <2>1
    <2>3. k - 1 \in 0..(w - 1) /\ Pieces \in 1..Pieces /\ 1 \in 1..Pieces
      BY <1>1, <1>5
    <2>4. b[(k - 1) * Pieces + Pieces].piece = Pieces /\ b[(k - 1) * Pieces + 1].piece = 1
      <3>1. \A i \in 0..(w - 1), q \in 1..Pieces :
              b[i * Pieces + q] = [req |-> b[i * Pieces + 1].req, piece |-> q]
        BY <1>5 DEF Fits
      <3>2. \A q \in 1..Pieces :
              b[(k - 1) * Pieces + q] = [req |-> b[(k - 1) * Pieces + 1].req, piece |-> q]
        BY <2>3, <3>1
      <3>3. ASSUME NEW q \in 1..Pieces PROVE b[(k - 1) * Pieces + q].piece = q
        <4>1. b[(k - 1) * Pieces + q] = [req |-> b[(k - 1) * Pieces + 1].req, piece |-> q]
          BY <3>2
        <4>2. \A r : [req |-> r, piece |-> q].piece = q
          OBVIOUS
        <4> QED
          BY <4>1, <4>2, Zenon
      <3> QED
        BY <2>3, <3>3
    <2>5. LastPiece(b, k).piece = Pieces
      BY <2>1, <2>4 DEF LastPiece
    <2>6. LastPiece(b, k) # Flag
      BY <1>1, <2>5, FlagFields
    <2> QED
      BY <2>2, <2>4, <2>5, <2>6, ElementsOfRange DEF LastPiece
  <1> QED
    BY <1>1, <1>4, <1>5, <1>6, Multiples

\* The requests at the front of b are those of its last pieces, in ascending order, and
\* what comes after such a piece belongs to a later request.
LEMMA RequestsInOrder ==
  ASSUME NEW b \in Seq(Symbols), Ascending(b)
  PROVE  /\ RequestsAt(b) \in Seq(Requests) /\ Len(RequestsAt(b)) = Whole(b)
         /\ \A k \in 1..Whole(b) : RequestsAt(b)[k] = LastPiece(b, k).req
         /\ \A k, l \in 1..Whole(b) : k < l => RequestsAt(b)[k] < RequestsAt(b)[l]
         /\ \A k \in 1..Whole(b), x \in Symbols :
              Less(LastPiece(b, k), x) => x = Flag \/ RequestsAt(b)[k] < x.req
         /\ \A k \in 1..Whole(b), x \in Range(Rest(b)) : Less(LastPiece(b, k), x)
         /\ Rest(b) \in Seq(Symbols) /\ Range(Rest(b)) \subseteq Range(b) /\ Ascending(Rest(b))
         /\ Len(Rest(b)) = Len(b) - Whole(b) * Pieces
         /\ \A i \in 1..Len(Rest(b)) : Rest(b)[i] = b[Whole(b) * Pieces + i]
  <1> DEFINE r == RequestsAt(b)
             w == Whole(b)
  <1>1. /\ Len(b) \in Nat /\ Pieces \in Nat /\ Pieces >= 1
        /\ DOMAIN b = 1..Len(b) /\ Range(b) \subseteq Symbols
    BY LenProperties, SizesAssumption, ElementsOfRange
  <1>2. /\ w \in Nat /\ w * Pieces \in 0..Len(b)
        /\ \A k \in 1..w : /\ k * Pieces \in 1..Len(b)
                           /\ LastPiece(b, k) \in Range(b) \ {Flag}
                           /\ LastPiece(b, k).piece = Pieces
    BY WholeRequests
  <1>3. r = [k \in 1..w |-> LastPiece(b, k).req]
    BY DEF RequestsAt, LastPiece
  <1> HIDE DEF r, w
  <1>4. \A k \in 1..w : LastPiece(b, k).req \in Requests
    BY <1>1, <1>2, SymbolFields
  <1>5. r \in Seq(Requests) /\ Len(r) = w /\ \A k \in 1..w : r[k] = LastPiece(b, k).req
    BY <1>2, <1>3, <1>4
  <1>6. ASSUME NEW k \in 1..w, NEW x \in Symbols, Less(LastPiece(b, k), x)
        PROVE  x = Flag \/ r[k] < x.req
    <2>1. SUFFICES ASSUME x # Flag PROVE r[k] < x.req
      OBVIOUS
    <2>2. x.piece \in 1..Pieces
      BY <2>1, SymbolFields
    <2> QED
      BY <1>1, <1>2, <1>5, <1>6, <2>1, <2>2 DEF Less
  <1>7. ASSUME NEW k \in 1..w, NEW l \in 1..w, k < l PROVE r[k] < r[l]
    <2>1. k * Pieces < l * Pieces
      BY <1>2, <1>7, Multiples
    <2>2. Less(LastPiece(b, k), LastPiece(b, l))
      BY <1>1, <1>2, <2>1 DEF Ascending, LastPiece
    <2> QED
      BY <1>1, <1>2, <1>5, <1>6, <2>2
  <1>8. w * Pieces + 1 \in 1..(Len(b) + 1) /\ Len(b) \in ((w * Pieces + 1) - 1)..Len(b)
    BY <1>1, <1>2
  <1>9. Rest(b) = SubSeq(b, w * Pieces + 1, Len(b))
    BY DEF Rest, w
  <1>10. /\ Rest(b) \in Seq(Symbols) /\ Len(Rest(b)) = Len(b) - w * Pieces
         /\ \A i \in 1..(Len(b) - w * Pieces) : Rest(b)[i] = b[w * Pieces + i]
         /\ Range(Rest(b)) \subseteq Range(b) /\ Ascending(Rest(b))
    <2> DEFINE c == w * Pieces
    <2>1. c \in 0..Len(b)
      BY <1>2
    <2>2. Rest(b) = SubSeq(b, c + 1, Len(b)) /\ c + 1 \in 1..(Len(b) + 1) /\ Len(b) \in ((c + 1) - 1)..Len(b)
      BY <1>8, <1>9
    <2> HIDE DEF c
    <2>3. Len(b) - (c + 1) + 1 = Len(b) - c /\ \A i \in 1..(Len(b) - c) : c + 1 + i - 1 = c + i
      BY <1>1, <2>1
    <2>4. /\ Rest(b) \in Seq(Symbols) /\ Len(Rest(b)) = Len(b) - c
          /\ \A i \in 1..(Len(b) - c) : Rest(b)[i] = b[c + 1 + i - 1]
          /\ Range(Rest(b)) \subseteq Range(b) /\ Ascending(Rest(b))
      BY <2>2, <2>3, SubSeqOrder
    <2> QED
      BY <2>3, <2>4 DEF c
  <1>11. ASSUME NEW k \in 1..w, NEW x \in Range(Rest(b)) PROVE Less(LastPiece(b, k), x)
    <2>1. PICK i \in 1..Len(Rest(b)) : x = Rest(b)[i]
      BY <1>10, ElementsOfRange
    <2>2. x = b[w * Pieces + i] /\ w * Pieces + i \in 1..Len(b)
      <3>1. w * Pieces \in 0..Len(b)
        BY <1>2
      <3> QED
        BY <1>1, <1>10, <2>1, <3>1
    <2>3. k * Pieces <= w * Pieces /\ k * Pieces \in 1..Len(b)
      <3>1. k \in Nat /\ w \in Nat /\ k <= w
        BY <1>2
      <3> QED
        BY <1>2, <3>1, Multiples
    <2>4. k * Pieces < w * Pieces + i
      BY <1>2, <2>1, <2>3
    <2> QED
      BY <1>1, <2>2, <2>3, <2>4 DEF Ascending, LastPiece
  <1> QED
    BY <1>5, <1>6, <1>7, <1>10, <1>11 DEF r, w

-----------------------------------------------------------------------------
(* Types. *)

LEMMA IdleIsNoPacket == Idle \notin Packets /\ Len(Kinds) \in Nat
  <1>1. Len(Kinds) \in Nat
    BY KindsAssumption, LenProperties
  <1> QED
    BY <1>1 DEF Idle, Packets, Requests

\* A part of a file is a packet, and so is the answer to a request.
LEMMA PartIsPacket ==
  ASSUME NEW r \in Requests, NEW i \in 1..Parts
  PROVE  Part(r, i) \in Packets /\ Part(r, i).req = r /\ Part(r, i).part = i /\ Part(r, i) # Idle
  <1>1. i \in 0..Parts
    BY SizesAssumption
  <1>2. Part(r, i) \in Packets
    BY <1>1 DEF Part, Packets
  <1> QED
    BY <1>2, IdleIsNoPacket DEF Part

LEMMA AnswersArePackets ==
  ASSUME NEW q \in Seq(Requests)
  PROVE  /\ Answers(q) \in Seq(Packets) /\ Len(Answers(q)) = Len(q)
         /\ \A i \in 1..Len(q) : /\ Answers(q)[i].req = q[i] /\ Answers(q)[i].part = 0
                                 /\ Answers(q)[i].ok = Granted(q, i)
  <1>1. Len(q) \in Nat /\ DOMAIN q = 1..Len(q) /\ \A i \in 1..Len(q) : q[i] \in Requests
    BY LenProperties, ElementOfSeq
  <1>2. \A i : Granted(q, i) \in BOOLEAN
    BY DEF Granted, Permitted
  <1>3. 0 \in 0..Parts
    BY SizesAssumption
  <1>4. \A i \in 1..Len(q) : [req |-> q[i], part |-> 0, ok |-> Granted(q, i)] \in Packets
    BY <1>1, <1>2, <1>3 DEF Packets
  <1>5. Answers(q) = [i \in 1..Len(q) |-> [req |-> q[i], part |-> 0, ok |-> Granted(q, i)]]
    BY <1>1 DEF Answers
  <1> QED
    BY <1>1, <1>4, <1>5

\* The file a batch of requests leaves open: that of its last download, or the one before.
LEMMA OpenedFile ==
  ASSUME TypeOK, NEW q \in Seq(Requests)
  PROVE  \/ \E i \in 1..Len(q) : /\ Opened(q) = Part(q[i], 1) /\ q[i] \in Requests
                                 /\ Kinds[q[i]] = "download" /\ Granted(q, i)
         \/ Opened(q) = Idle
         \/ Opened(q) = stream /\ bound
  <1> DEFINE D == {i \in DOMAIN q : /\ Kinds[q[i]] = "download" /\ Permitted(q, i)
                                    /\ Faults[q[i]] # "parameter"}
  <1>1. Len(q) \in Nat /\ DOMAIN q = 1..Len(q) /\ \A i \in 1..Len(q) : q[i] \in Requests
    BY LenProperties, ElementOfSeq
  <1>2. CASE D # {}
    <2>1. D \subseteq 0..Len(q)
      BY <1>1
    <2>2. Max(D) \in D
      BY <1>1, <1>2, <2>1, LargestElement
    <2>3. Opened(q) = IF Granted(q, Max(D)) THEN Part(q[Max(D)], 1) ELSE Idle
      BY <1>2 DEF Opened
    <2> QED
      BY <1>1, <2>2, <2>3
  <1>3. CASE D = {}
    BY <1>3 DEF Opened
  <1> QED
    BY <1>2, <1>3

LEMMA OpenedType ==
  ASSUME TypeOK, NEW q \in Seq(Requests)
  PROVE  Opened(q) \in Packets \cup {Idle}
  <1>1. 1 \in 1..Parts
    BY SizesAssumption
  <1>2. CASE Opened(q) \in {Idle, stream}
    BY <1>2 DEF TypeOK
  <1>3. ASSUME NEW i \in 1..Len(q), Opened(q) = Part(q[i], 1), q[i] \in Requests
        PROVE  Opened(q) \in Packets
    BY <1>1, <1>3, PartIsPacket
  <1> QED
    BY <1>2, <1>3, OpenedFile

-----------------------------------------------------------------------------
(* What is between the client and ProcessCommand is in order, and what has   *)
(* been handled lies before it.                                              *)

Pipe == Range(buffer) \cup Range(chunk) \cup Range(inflight)

Conveyed ==
  /\ Ascending(buffer) /\ Ascending(chunk) /\ Ascending(inflight)
  /\ Before(buffer, chunk) /\ Before(buffer, inflight) /\ Before(chunk, inflight)

SentBefore == (\A x \in Pipe : x.req < next) /\ \A i \in DOMAIN handled : handled[i] < next

HandledBefore ==
  status = "open" => \A x \in Pipe : x = Flag \/ \A i \in DOMAIN handled : handled[i] < x.req

StreamInv == TypeOK /\ Conveyed /\ SentBefore /\ HandledBefore /\ RequestsOnceInOrder

LEMMA StreamTypes ==
  ASSUME StreamInv
  PROVE  /\ buffer \in Seq(Symbols) /\ chunk \in Seq(Symbols) /\ inflight \in Seq(Symbols)
         /\ Pipe \subseteq Symbols
         /\ handled \in Seq(Requests) /\ Len(handled) \in Nat /\ DOMAIN handled = 1..Len(handled)
         /\ \A i \in DOMAIN handled : handled[i] \in Requests /\ handled[i] \in Nat
         /\ next \in Nat
  <1>1. /\ buffer \in Seq(Symbols) /\ chunk \in Seq(Symbols) /\ inflight \in Seq(Symbols)
        /\ handled \in Seq(Requests) /\ next \in Nat
    BY IdleIsNoPacket DEF StreamInv, TypeOK
  <1>2. Len(handled) \in Nat /\ DOMAIN handled = 1..Len(handled)
        /\ \A i \in DOMAIN handled : handled[i] \in Requests
    BY <1>1, LenProperties, ElementOfSeq
  <1> QED
    BY <1>1, <1>2, ElementsOfRange DEF Pipe, Requests

LEMMA EmptyOrder == Range(<<>>) = {} /\ Ascending(<<>>) /\ <<>> \in Seq(Symbols)
  BY DEF Range, Ascending

LEMMA StreamInit == Init => StreamInv
  <1> SUFFICES ASSUME Init PROVE StreamInv
    OBVIOUS
  <1>1. TypeOK
    <2>1. <<>> \in Seq(Symbols) /\ <<>> \in Seq(Packets) /\ <<>> \in Seq(Requests)
      OBVIOUS
    <2>2. 1 \in 1..(Len(Kinds) + 1)
      BY IdleIsNoPacket
    <2> QED
      BY <2>1, <2>2 DEF Init, TypeOK
  <1>2. Conveyed /\ SentBefore /\ HandledBefore /\ RequestsOnceInOrder
    BY EmptyOrder DEF Init, Conveyed, Before, SentBefore, HandledBefore, Pipe,
                      RequestsOnceInOrder
  <1> QED
    BY <1>1, <1>2 DEF StreamInv

\* A step that handles no request and leaves the symbols where they are.
LEMMA StreamByOthers ==
  ASSUME StreamInv, TypeOK', UNCHANGED <<buffer, chunk, inflight, next, handled>>,
         status' = "open" => status = "open"
  PROVE  StreamInv'
  BY DEF StreamInv, Conveyed, Before, SentBefore, HandledBefore, Pipe, RequestsOnceInOrder

\* A request that is sent comes after everything sent before.
LEMMA StreamByClient ==
  ASSUME StreamInv, ClientSends
  PROVE  StreamInv'
  <1> DEFINE message == [i \in 1..Pieces |-> [req |-> next, piece |-> i]]
  <1>1. PICK flags \in {<<>>, <<Flag>>} : inflight' = inflight \o flags \o message
    BY DEF ClientSends
  <1>2. /\ next \in Requests /\ next' = next + 1
        /\ UNCHANGED <<client, buffer, chunk, handled, elementVars, sendVars, status>>
    BY DEF ClientSends, receiveVars
  <1>3. Pieces \in Nat /\ Pieces >= 1 /\ Len(Kinds) \in Nat
    BY SizesAssumption, IdleIsNoPacket
  <1>4. message \in Seq(Symbols)
    <2>1. \A i \in 1..Pieces : [req |-> next, piece |-> i] \in Symbols
      BY <1>2 DEF Symbols
    <2> QED
      BY <1>3, <2>1
  <1>5. \A x \in Range(message) : x.req = next
    BY DEF Range
  <1>6. Ascending(message)
    BY <1>3 DEF Ascending, Less
  <1>7. flags \in Seq(Symbols) /\ Range(flags) \subseteq {Flag} /\ Ascending(flags)
    <2>1. Flag \in Symbols
      BY DEF Symbols
    <2>2. <<Flag>> \in Seq(Symbols)
      BY <2>1
    <2>3. Range(<<Flag>>) \subseteq {Flag} /\ Ascending(<<Flag>>)
      BY DEF Range, Ascending
    <2> QED
      BY <2>2, <2>3, EmptyOrder
  <1> HIDE DEF message
  <1>8. inflight \in Seq(Symbols) /\ Pipe \subseteq Symbols /\ next \in Nat
    BY StreamTypes
  <1>9. \A x \in Pipe, y \in {Flag} \cup Range(message) : Less(x, y)
    BY <1>5 DEF StreamInv, SentBefore, Less
  <1>10. Range(inflight) \subseteq Pipe
    BY DEF Pipe
  <1>11. /\ inflight \o flags \in Seq(Symbols)
         /\ Range(inflight \o flags) \subseteq Range(inflight) \cup {Flag}
         /\ Ascending(inflight \o flags)
    <2>1. Before(inflight, flags)
      BY <1>7, <1>9, <1>10 DEF Before
    <2> QED
      BY <1>7, <1>8, <2>1, ConcatOrder DEF StreamInv, Conveyed
  <1>12. Before(inflight \o flags, message)
    BY <1>9, <1>10, <1>11 DEF Before, Less
  <1>13. /\ inflight' \in Seq(Symbols) /\ Ascending(inflight')
         /\ Range(inflight') \subseteq Range(inflight) \cup {Flag} \cup Range(message)
    <2> DEFINE before == inflight \o flags
    <2>1. /\ before \in Seq(Symbols) /\ Ascending(before) /\ Before(before, message)
          /\ Range(before) \subseteq Range(inflight) \cup {Flag}
          /\ inflight' = before \o message
      BY <1>1, <1>11, <1>12
    <2> HIDE DEF before
    <2>2. /\ before \o message \in Seq(Symbols) /\ Ascending(before \o message)
          /\ Range(before \o message) = Range(before) \cup Range(message)
      BY <1>4, <1>6, <2>1, ConcatOrder
    <2> QED
      BY <2>1, <2>2
  <1>14. TypeOK'
    <2>1. next' \in 1..(Len(Kinds) + 1)
      BY <1>2, <1>3 DEF Requests
    <2> QED
      BY <1>2, <1>13, <2>1 DEF StreamInv, TypeOK, elementVars, sendVars
  <1>15. Conveyed'
    <2>1. Ascending(buffer') /\ Ascending(chunk') /\ Before(buffer', chunk')
      BY <1>2 DEF StreamInv, Conveyed
    <2>2. ASSUME NEW x \in Range(buffer) \cup Range(chunk), NEW y \in Range(inflight')
          PROVE  Less(x, y)
      <3>1. CASE y \in Range(inflight)
        BY <3>1 DEF StreamInv, Conveyed, Before
      <3>2. CASE y \in {Flag} \cup Range(message)
        BY <1>9, <3>2 DEF Pipe
      <3> QED
        BY <1>13, <3>1, <3>2
    <2> QED
      BY <1>2, <1>13, <2>1, <2>2 DEF Conveyed, Before
  <1>16. \A x \in Pipe' : x \in Pipe \/ x = Flag \/ x \in Range(message)
    BY <1>2, <1>13 DEF Pipe
  <1>17. SentBefore'
    <2>1. \A x \in Symbols : x.req \in Nat
      BY FlagFields, SymbolFields DEF Requests
    <2>2. ASSUME NEW x \in Pipe' PROVE x.req < next'
      <3>1. CASE x \in Pipe
        BY <1>2, <1>8, <2>1, <3>1 DEF StreamInv, SentBefore
      <3>2. CASE x = Flag \/ x \in Range(message)
        BY <1>2, <1>5, <1>8, <3>2, FlagFields
      <3> QED
        BY <1>16, <2>2, <3>1, <3>2
    <2>3. \A i \in DOMAIN handled' : handled'[i] < next'
      BY <1>2, StreamTypes DEF StreamInv, SentBefore
    <2> QED
      BY <2>2, <2>3 DEF SentBefore
  <1>18. HandledBefore'
    <2>1. ASSUME status = "open", NEW x \in Pipe', x # Flag, NEW i \in DOMAIN handled
          PROVE  handled[i] < x.req
      BY <1>5, <1>16, <2>1 DEF StreamInv, SentBefore, HandledBefore
    <2> QED
      BY <1>2, <2>1 DEF HandledBefore
  <1>19. RequestsOnceInOrder'
    BY <1>2 DEF StreamInv, RequestsOnceInOrder
  <1> QED
    BY <1>14, <1>15, <1>17, <1>18, <1>19 DEF StreamInv

\* A chunk is a first part of what is in flight.
LEMMA StreamByReceive ==
  ASSUME StreamInv, ReceiveCompletes
  PROVE  StreamInv'
  <1>1. PICK n \in 1..Len(inflight) : /\ chunk' = SubSeq(inflight, 1, n)
                                      /\ inflight' = SubSeq(inflight, n + 1, Len(inflight))
    BY DEF ReceiveCompletes
  <1>2. UNCHANGED <<client, next, buffer, handled, elementVars, sendVars, status>> /\ chunk = <<>>
    BY DEF ReceiveCompletes, clientVars
  <1>3. inflight \in Seq(Symbols) /\ Len(inflight) \in Nat
    BY StreamTypes, LenProperties
  <1>4. chunk' \in Seq(Symbols) /\ Range(chunk') \subseteq Range(inflight) /\ Ascending(chunk')
    <2>1. 1 \in 1..(Len(inflight) + 1) /\ n \in (1 - 1)..Len(inflight)
      BY <1>3
    <2> QED
      BY <1>1, <1>3, <2>1, SubSeqOrder DEF StreamInv, Conveyed
  <1>5. inflight' \in Seq(Symbols) /\ Range(inflight') \subseteq Range(inflight) /\ Ascending(inflight')
    <2>1. n + 1 \in 1..(Len(inflight) + 1) /\ Len(inflight) \in ((n + 1) - 1)..Len(inflight)
      BY <1>3
    <2> QED
      BY <1>1, <1>3, <2>1, SubSeqOrder DEF StreamInv, Conveyed
  <1>6. Before(chunk', inflight')
    BY <1>1, <1>3, CutOrder DEF StreamInv, Conveyed
  <1>7. TypeOK'
    BY <1>2, <1>4, <1>5 DEF StreamInv, TypeOK, elementVars, sendVars
  <1>8. Conveyed'
    BY <1>2, <1>4, <1>5, <1>6 DEF StreamInv, Conveyed, Before
  <1>9. Pipe' \subseteq Pipe
    BY <1>2, <1>4, <1>5 DEF Pipe
  <1>10. SentBefore' /\ HandledBefore' /\ RequestsOnceInOrder'
    BY <1>2, <1>9 DEF StreamInv, SentBefore, HandledBefore, RequestsOnceInOrder
  <1> QED
    BY <1>7, <1>8, <1>10 DEF StreamInv

\* What is in ReceiveBuffer after the chunk has been written to it.
LEMMA ReceivedInOrder ==
  ASSUME StreamInv, chunk # <<>>
  PROVE  /\ Received \in Seq(Symbols) /\ Ascending(Received)
         /\ Range(Received) \subseteq Pipe
         /\ Before(Received, inflight)
  <1> DEFINE c == IF bound THEN chunk ELSE Tail(chunk)
  <1>1. buffer \in Seq(Symbols) /\ chunk \in Seq(Symbols)
    BY StreamTypes
  <1>2. c \in Seq(Symbols) /\ Range(c) \subseteq Range(chunk) /\ Ascending(c)
    BY <1>1, TailOrder DEF StreamInv, Conveyed
  <1>3. Received = buffer \o c
    BY DEF Received
  <1> HIDE DEF c
  <1>4. Before(buffer, c)
    BY <1>2 DEF StreamInv, Conveyed, Before
  <1>5. /\ Received \in Seq(Symbols) /\ Ascending(Received)
        /\ Range(Received) = Range(buffer) \cup Range(c)
    BY <1>1, <1>2, <1>3, <1>4, ConcatOrder DEF StreamInv, Conveyed
  <1> QED
    BY <1>2, <1>5 DEF StreamInv, Conveyed, Before, Pipe

\* Requests found in order, all of them after those handled before.
LEMMA HandledFollow ==
  ASSUME StreamInv, status = "open", NEW q \in Seq(Requests),
         \A k, l \in 1..Len(q) : k < l => q[k] < q[l],
         \A k \in 1..Len(q) : \E x \in Pipe \ {Flag} : q[k] = x.req,
         handled' = handled \o q
  PROVE  /\ RequestsOnceInOrder'
         /\ handled' \in Seq(Requests)
         /\ \A i \in DOMAIN handled' : handled'[i] < next
         /\ \A i \in DOMAIN handled' : \/ i \in DOMAIN handled /\ handled'[i] = handled[i]
                                       \/ \E k \in 1..Len(q) : handled'[i] = q[k]
  <1>1. /\ handled \in Seq(Requests) /\ Len(handled) \in Nat /\ DOMAIN handled = 1..Len(handled)
        /\ Len(q) \in Nat /\ DOMAIN q = 1..Len(q)
    BY StreamTypes, LenProperties
  <1>2. /\ handled' \in Seq(Requests) /\ Len(handled') = Len(handled) + Len(q)
        /\ \A i \in 1..Len(handled) : handled'[i] = handled[i]
        /\ \A i \in 1..Len(q) : handled'[Len(handled) + i] = q[i]
    BY <1>1, ConcatOrder
  <1>3. ASSUME NEW i \in DOMAIN handled'
        PROVE  \/ i \in 1..Len(handled) /\ handled'[i] = handled[i]
               \/ \E k \in 1..Len(q) : i = Len(handled) + k /\ handled'[i] = q[k]
    <2>1. i \in 1..(Len(handled) + Len(q))
      BY <1>2, LenProperties
    <2>2. CASE i > Len(handled)
      <3>1. i - Len(handled) \in 1..Len(q) /\ i = Len(handled) + (i - Len(handled))
        BY <1>1, <2>1, <2>2
      <3> QED
        BY <1>2, <3>1
    <2> QED
      BY <1>1, <1>2, <2>1, <2>2
  <1>4. \A k \in 1..Len(q) : q[k] < next /\ \A i \in DOMAIN handled : handled[i] < q[k]
    BY DEF StreamInv, SentBefore, HandledBefore
  <1>5. \A i \in DOMAIN handled' : handled'[i] < next
    BY <1>1, <1>3, <1>4 DEF StreamInv, SentBefore
  <1>6. ASSUME NEW i \in DOMAIN handled', NEW j \in DOMAIN handled', i < j
        PROVE  handled'[i] < handled'[j]
    <2>1. CASE j \in 1..Len(handled) /\ handled'[j] = handled[j]
      <3>1. i \in 1..Len(handled) /\ handled'[i] = handled[i]
        BY <1>1, <1>3, <1>6, <2>1
      <3> QED
        BY <1>1, <1>6, <2>1, <3>1 DEF StreamInv, RequestsOnceInOrder
    <2>2. CASE \E l \in 1..Len(q) : j = Len(handled) + l /\ handled'[j] = q[l]
      <3>1. PICK l \in 1..Len(q) : j = Len(handled) + l /\ handled'[j] = q[l]
        BY <2>2
      <3>2. CASE i \in 1..Len(handled) /\ handled'[i] = handled[i]
        BY <1>1, <1>4, <3>1, <3>2
      <3>3. CASE \E k \in 1..Len(q) : i = Len(handled) + k /\ handled'[i] = q[k]
        BY <1>1, <1>6, <3>1, <3>3
      <3> QED
        BY <1>3, <3>2, <3>3
    <2> QED
      BY <1>3, <2>1, <2>2
  <1> QED
    BY <1>1, <1>2, <1>3, <1>5, <1>6 DEF RequestsOnceInOrder

\* ProcessReceive: the packet loop handles the whole requests and clears them, so that
\* what stays belongs to later ones.
LEMMA StreamByHandle ==
  ASSUME StreamInv, TypeOK', HandleRequests
  PROVE  StreamInv'
  <1> DEFINE b == Received
             q == RequestsAt(b)
             w == Whole(b)
  <1>1. /\ status = "open" /\ chunk # <<>> /\ handled' = handled \o q
        /\ buffer' = Rest(b) /\ chunk' = <<>> /\ inflight' = inflight /\ next' = next
    BY DEF HandleRequests, clientVars
  <1>2. b \in Seq(Symbols) /\ Ascending(b) /\ Range(b) \subseteq Pipe /\ Before(b, inflight)
    BY <1>1, ReceivedInOrder
  <1> HIDE DEF b
  <1>3. \A k \in 1..w : LastPiece(b, k) \in Range(b) \ {Flag}
    BY <1>2, WholeRequests
  <1>4. /\ q \in Seq(Requests) /\ Len(q) = w
        /\ \A k \in 1..w : q[k] = LastPiece(b, k).req
        /\ \A k, l \in 1..w : k < l => q[k] < q[l]
        /\ \A k \in 1..w, x \in Symbols :
             Less(LastPiece(b, k), x) => x = Flag \/ q[k] < x.req
        /\ \A k \in 1..w, x \in Range(Rest(b)) : Less(LastPiece(b, k), x)
        /\ Rest(b) \in Seq(Symbols) /\ Range(Rest(b)) \subseteq Range(b) /\ Ascending(Rest(b))
    BY <1>2, RequestsInOrder
  <1> HIDE DEF q, w
  <1>5. /\ RequestsOnceInOrder'
        /\ \A i \in DOMAIN handled' : handled'[i] < next
        /\ \A i \in DOMAIN handled' : \/ i \in DOMAIN handled /\ handled'[i] = handled[i]
                                      \/ \E k \in 1..Len(q) : handled'[i] = q[k]
    <2>1. \A k \in 1..Len(q) : \E x \in Pipe \ {Flag} : q[k] = x.req
      BY <1>2, <1>3, <1>4
    <2> QED
      BY <1>1, <1>4, <2>1, HandledFollow
  <1>6. Pipe' \subseteq Pipe /\ Pipe' = Range(Rest(b)) \cup Range(inflight)
    BY <1>1, <1>2, <1>4, EmptyOrder DEF Pipe
  <1>7. Conveyed'
    BY <1>1, <1>2, <1>4, EmptyOrder DEF StreamInv, Conveyed, Before
  <1>8. SentBefore'
    BY <1>1, <1>5, <1>6 DEF StreamInv, SentBefore
  <1>9. ASSUME NEW x \in Pipe', x # Flag, NEW i \in DOMAIN handled' PROVE handled'[i] < x.req
    <2>1. CASE i \in DOMAIN handled /\ handled'[i] = handled[i]
      BY <1>1, <1>6, <1>9, <2>1 DEF StreamInv, HandledBefore
    <2>2. CASE \E k \in 1..Len(q) : handled'[i] = q[k]
      <3>1. PICK k \in 1..w : handled'[i] = q[k]
        BY <1>4, <2>2
      <3>2. x \in Symbols
        BY <1>6, StreamTypes
      <3>3. Less(LastPiece(b, k), x)
        BY <1>2, <1>3, <1>4, <1>6, <1>9 DEF Before
      <3> QED
        BY <1>4, <1>9, <3>1, <3>2, <3>3
    <2> QED
      BY <1>5, <2>1, <2>2
  <1>10. HandledBefore'
    BY <1>9 DEF HandledBefore
  <1> QED
    BY <1>5, <1>7, <1>8, <1>10 DEF StreamInv

\* An exception out of ProcessCommand leaves the connection without a receive.
LEMMA StreamByRefused ==
  ASSUME StreamInv, TypeOK', SendRefused
  PROVE  StreamInv'
  <1> DEFINE b == Received
             q == RequestsAt(b)
             first == SubSeq(q, 1, 1)
  <1>1. /\ status = "open" /\ chunk # <<>> /\ handled' = handled \o first /\ q # <<>>
        /\ buffer' = b /\ chunk' = <<>> /\ inflight' = inflight /\ next' = next /\ status' = "stuck"
    BY DEF SendRefused, clientVars, MustSend
  <1>2. b \in Seq(Symbols) /\ Ascending(b) /\ Range(b) \subseteq Pipe /\ Before(b, inflight)
    BY <1>1, ReceivedInOrder
  <1> HIDE DEF b
  <1>3. \A k \in 1..Whole(b) : LastPiece(b, k) \in Range(b) \ {Flag}
    BY <1>2, WholeRequests
  <1>4. /\ q \in Seq(Requests) /\ Len(q) = Whole(b)
        /\ \A k \in 1..Whole(b) : q[k] = LastPiece(b, k).req
    BY <1>2, RequestsInOrder
  <1> HIDE DEF q
  <1>5. 1 \in 1..Len(q) /\ Len(q) \in Nat
    BY <1>1, <1>4, LenProperties, EmptySeq
  <1>6. first \in Seq(Requests) /\ Len(first) = 1 /\ first[1] = q[1]
    BY <1>4, <1>5, SubSeqProperties
  <1> HIDE DEF first
  <1>7. RequestsOnceInOrder' /\ \A i \in DOMAIN handled' : handled'[i] < next
    <2>1. \A k \in 1..Len(first) : \E x \in Pipe \ {Flag} : first[k] = x.req
      BY <1>2, <1>3, <1>4, <1>5, <1>6
    <2>2. \A k, l \in 1..Len(first) : k < l => first[k] < first[l]
      BY <1>6
    <2> QED
      BY <1>1, <1>6, <2>1, <2>2, HandledFollow
  <1>8. Pipe' \subseteq Pipe
    BY <1>1, <1>2, EmptyOrder DEF Pipe
  <1>9. Conveyed'
    BY <1>1, <1>2, EmptyOrder DEF StreamInv, Conveyed, Before
  <1>10. SentBefore' /\ HandledBefore'
    BY <1>1, <1>7, <1>8 DEF StreamInv, SentBefore, HandledBefore
  <1> QED
    BY <1>7, <1>9, <1>10 DEF StreamInv

\* SendBuffer after the packets of the answers have been added.
LEMMA AnswersAdded ==
  ASSUME TypeOK, NEW q \in Seq(Requests)
  PROVE  /\ packets \o Answers(q) \in Seq(Packets)
         /\ Len(packets \o Answers(q)) = Len(packets) + Len(q)
         /\ \A i \in 1..Len(packets) : (packets \o Answers(q))[i] = packets[i]
         /\ \A i \in 1..Len(q) : (packets \o Answers(q))[Len(packets) + i] = Answers(q)[i]
         /\ q # <<>> => packets \o Answers(q) # <<>> /\ Head(packets \o Answers(q)) \in Packets
  <1>1. packets \in Seq(Packets) /\ Answers(q) \in Seq(Packets) /\ Len(Answers(q)) = Len(q)
    BY AnswersArePackets DEF TypeOK
  <1>2. Len(packets) \in Nat /\ Len(q) \in Nat /\ (q # <<>> => Len(q) # 0)
    BY <1>1, LenProperties, EmptySeq
  <1> DEFINE list == packets \o Answers(q)
  <1>3. /\ list \in Seq(Packets) /\ Len(list) = Len(packets) + Len(q)
        /\ \A i \in 1..Len(packets) : list[i] = packets[i]
        /\ \A i \in 1..Len(q) : list[Len(packets) + i] = Answers(q)[i]
    <2> DEFINE a == Answers(q)
    <2>1. packets \in Seq(Packets) /\ a \in Seq(Packets)
      BY <1>1
    <2>4. Len(a) = Len(q)
      BY <1>1
    <2> HIDE DEF a
    <2>2. /\ packets \o a \in Seq(Packets) /\ Len(packets \o a) = Len(packets) + Len(a)
          /\ \A i \in 1..Len(packets) : (packets \o a)[i] = packets[i]
          /\ \A i \in 1..Len(a) : (packets \o a)[Len(packets) + i] = a[i]
      BY <2>1, ConcatOrder
    <2>3. /\ packets \o a \in Seq(Packets) /\ Len(packets \o a) = Len(packets) + Len(q)
          /\ \A i \in 1..Len(packets) : (packets \o a)[i] = packets[i]
          /\ \A i \in 1..Len(q) : (packets \o a)[Len(packets) + i] = a[i]
      BY <2>2, <2>4
    <2> QED
      BY <2>3 DEF a
  <1> HIDE DEF list
  <1>4. q # <<>> => list # <<>> /\ Head(list) \in Packets
    <2>1. q # <<>> => list # <<>>
      BY <1>2, <1>3, EmptySeq
    <2> QED
      BY <1>3, <2>1, HeadTailProperties
  <1> QED
    BY <1>3, <1>4 DEF list

LEMMA RemainingType ==
  ASSUME TypeOK
  PROVE  /\ Cleared \in Seq(Packets) /\ Remaining \in Seq(Packets)
         /\ Remaining # <<>> => Head(Remaining) \in Packets
  <1>1. Cleared \in Seq(Packets)
    BY HeadTailProperties, EmptySeq DEF Cleared, TypeOK
  <1>2. Remaining \in Seq(Packets)
    <2>1. stream # Idle => <<stream>> \in Seq(Packets)
      BY DEF TypeOK
    <2> QED
      BY <1>1, <2>1 DEF Remaining
  <1> QED
    BY <1>1, <1>2, HeadTailProperties

\* The requests found in the buffer, and the first of them.
LEMMA FoundRequests ==
  ASSUME StreamInv, chunk # <<>>
  PROVE  /\ Received \in Seq(Symbols) /\ RequestsAt(Received) \in Seq(Requests)
         /\ Rest(Received) \in Seq(Symbols)
         /\ RequestsAt(Received) # <<>> =>
              /\ SubSeq(RequestsAt(Received), 1, 1) \in Seq(Requests)
              /\ Len(SubSeq(RequestsAt(Received), 1, 1)) = 1
              /\ SubSeq(RequestsAt(Received), 1, 1)[1] = RequestsAt(Received)[1]
              /\ 1 \in 1..Len(RequestsAt(Received))
  <1> DEFINE b == Received
             q == RequestsAt(b)
  <1>1. b \in Seq(Symbols) /\ Ascending(b)
    BY ReceivedInOrder
  <1>2. q \in Seq(Requests) /\ Rest(b) \in Seq(Symbols)
    BY <1>1, RequestsInOrder
  <1> HIDE DEF q
  <1>3. ASSUME q # <<>>
        PROVE  /\ SubSeq(q, 1, 1) \in Seq(Requests) /\ Len(SubSeq(q, 1, 1)) = 1
               /\ SubSeq(q, 1, 1)[1] = q[1] /\ 1 \in 1..Len(q)
    <2>1. 1 \in 1..Len(q) /\ Len(q) \in Nat
      BY <1>2, <1>3, LenProperties, EmptySeq
    <2> QED
      BY <1>2, <2>1, SubSeqProperties
  <1> QED
    BY <1>1, <1>2, <1>3 DEF q

LEMMA TypesOfHandling ==
  ASSUME StreamInv, HandleRequests \/ SendRefused
  PROVE  TypeOK'
  <1> DEFINE q == RequestsAt(Received)
             first == SubSeq(q, 1, 1)
  <1>0. TypeOK /\ chunk # <<>>
    BY DEF StreamInv, HandleRequests, SendRefused
  <1>1. /\ Received \in Seq(Symbols) /\ q \in Seq(Requests) /\ Rest(Received) \in Seq(Symbols)
        /\ q # <<>> => first \in Seq(Requests)
    BY <1>0, FoundRequests
  <1>2. handled \in Seq(Requests)
    BY <1>0 DEF TypeOK
  <1>3. LoginsAfter(q) \in BOOLEAN /\ LoginsAfter(first) \in BOOLEAN /\ MustSend \in BOOLEAN
    BY DEF LoginsAfter, MustSend
  <1>4. <<>> \in Seq(Symbols)
    OBVIOUS
  <1>5. CASE HandleRequests
    <2>1. /\ handled' = handled \o q /\ packets' = packets \o Answers(q)
          /\ sending' = IF MustSend THEN FirstPacket(packets \o Answers(q)) ELSE sending
          /\ stream' = Opened(q) /\ logined' = LoginsAfter(q)
          /\ sendAsync' = (MustSend \/ (bound /\ sendAsync))
          /\ buffer' = Rest(Received) /\ bound' = TRUE /\ chunk' = <<>>
          /\ status' \in {"open", "stuck"}
          /\ UNCHANGED <<client, next, inflight, sendDone, wire>>
      BY <1>5 DEF HandleRequests, clientVars
    <2>2. MustSend => q # <<>>
      BY DEF MustSend
    <2> HIDE DEF q
    <2>3. handled' \in Seq(Requests) /\ packets' \in Seq(Packets)
      BY <1>0, <1>1, <1>2, <2>1, ConcatProperties, AnswersAdded
    <2>4. sending' \in Packets \cup {Idle}
      BY <1>0, <1>1, <2>1, <2>2, AnswersAdded DEF FirstPacket, TypeOK
    <2>5. stream' \in Packets \cup {Idle}
      BY <1>0, <1>1, <2>1, OpenedType
    <2>6. sendAsync' \in BOOLEAN
      BY <2>1
    <2> QED
      BY <1>0, <1>1, <1>3, <1>4, <2>1, <2>3, <2>4, <2>5, <2>6 DEF TypeOK
  <1>6. CASE SendRefused
    <2>1. /\ handled' = handled \o first /\ packets' = packets \o Answers(first)
          /\ stream' = Opened(first) /\ logined' = LoginsAfter(first) /\ sendAsync' = TRUE
          /\ buffer' = Received /\ bound' = TRUE /\ chunk' = <<>> /\ status' = "stuck"
          /\ UNCHANGED <<client, next, inflight, sending, sendDone, wire>>
      BY <1>6 DEF SendRefused, clientVars
    <2>2. q # <<>>
      BY <1>6 DEF SendRefused, MustSend
    <2>3. first \in Seq(Requests)
      BY <1>1, <2>2
    <2> HIDE DEF q, first
    <2>4. handled' \in Seq(Requests) /\ packets' \in Seq(Packets)
      BY <1>0, <1>2, <2>1, <2>3, ConcatProperties, AnswersAdded
    <2>5. stream' \in Packets \cup {Idle}
      BY <1>0, <2>1, <2>3, OpenedType
    <2> QED
      BY <1>0, <1>1, <1>3, <1>4, <2>1, <2>4, <2>5 DEF TypeOK
  <1> QED
    BY <1>5, <1>6

LEMMA TypesOfSending ==
  ASSUME TypeOK, SendCompletes \/ IgnoreSent \/ HandleSent \/ HandleSentRefused \/ ConnectionLost
  PROVE  TypeOK'
  <1> USE DEF clientVars, receiveVars, elementVars
  <1>1. CASE SendCompletes
    <2>1. wire' \in Seq(Packets)
      BY <1>1, AppendProperties DEF SendCompletes, TypeOK
    <2> QED
      BY <1>1, <2>1 DEF SendCompletes, TypeOK
  <1>2. CASE IgnoreSent
    <2>1. sendDone' \in Nat
      BY <1>2 DEF IgnoreSent, TypeOK
    <2> QED
      BY <1>2, <2>1 DEF IgnoreSent, TypeOK
  <1>3. CASE HandleSent
    <2>1. sendDone' \in Nat
      BY <1>3 DEF HandleSent, TypeOK
    <2>2. packets' \in Seq(Packets) /\ sending' \in Packets \cup {Idle}
      BY <1>3, RemainingType DEF HandleSent, FirstPacket, TypeOK
    <2> QED
      BY <1>3, <2>1, <2>2 DEF HandleSent, TypeOK
  <1>4. CASE HandleSentRefused
    <2>1. sendDone' \in Nat
      BY <1>4 DEF HandleSentRefused, TypeOK
    <2>2. packets' \in Seq(Packets)
      BY <1>4, RemainingType DEF HandleSentRefused
    <2>3. stream' \in Packets \cup {Idle}
      <3>1. CASE Cleared # <<>> \/ stream.part = 1
        BY <1>4, <3>1 DEF HandleSentRefused, TypeOK
      <3>2. CASE ~(Cleared # <<>> \/ stream.part = 1)
        <4>1. stream # Idle
          BY <1>4, <3>2 DEF HandleSentRefused, Remaining
        <4>2. stream \in Packets /\ stream.req \in Requests /\ stream.part \in 0..Parts
          BY <4>1 DEF TypeOK, Packets
        <4>3. stream' = IF stream.part < Parts THEN Part(stream.req, stream.part + 1) ELSE Idle
          BY <1>4, <3>2 DEF HandleSentRefused
        <4>4. stream.part < Parts => stream.part + 1 \in 1..Parts
          BY <4>2, SizesAssumption
        <4> QED
          BY <4>2, <4>3, <4>4, PartIsPacket
      <3> QED
        BY <3>1, <3>2
    <2> QED
      BY <1>4, <2>1, <2>2, <2>3 DEF HandleSentRefused, TypeOK
  <1>5. CASE ConnectionLost
    <2>1. <<>> \in Seq(Symbols) /\ <<>> \in Seq(Packets)
      OBVIOUS
    <2> QED
      BY <1>5, <2>1 DEF ConnectionLost, TypeOK
  <1> QED
    BY <1>1, <1>2, <1>3, <1>4, <1>5

\* The connection is closed: nothing is in the buffers any more.
LEMMA StreamByLoss ==
  ASSUME StreamInv, ConnectionLost
  PROVE  StreamInv'
  <1>1. /\ TypeOK' /\ chunk' = <<>> /\ buffer' = <<>> /\ status' = "closed"
        /\ UNCHANGED <<inflight, next, handled>>
    BY TypesOfSending DEF StreamInv, ConnectionLost, clientVars
  <1> QED
    BY <1>1, EmptyOrder
    DEF StreamInv, Conveyed, Before, SentBefore, HandledBefore, Pipe, RequestsOnceInOrder

LEMMA StreamNext == StreamInv /\ [Next]_vars => StreamInv'
  <1> SUFFICES ASSUME StreamInv, [Next]_vars PROVE StreamInv'
    OBVIOUS
  <1>1. CASE UNCHANGED vars
    <2>1. TypeOK'
      BY <1>1 DEF vars, clientVars, receiveVars, elementVars, sendVars, StreamInv, TypeOK
    <2> QED
      BY <1>1, <2>1, StreamByOthers DEF vars, clientVars, receiveVars
  <1>2. CASE SendCompletes \/ IgnoreSent \/ HandleSent \/ HandleSentRefused
    <2>1. UNCHANGED <<buffer, chunk, inflight, next, handled, status>>
      BY <1>2 DEF SendCompletes, IgnoreSent, HandleSent, HandleSentRefused, clientVars, receiveVars
    <2> QED
      BY <1>2, <2>1, TypesOfSending, StreamByOthers DEF StreamInv
  <1>3. CASE HandleRequests \/ SendRefused
    BY <1>3, TypesOfHandling, StreamByHandle, StreamByRefused
  <1> QED
    BY <1>1, <1>2, <1>3, StreamByClient, StreamByReceive, StreamByLoss DEF Next, Server

LEMMA StreamInvariance == Spec => []StreamInv
  BY StreamInit, StreamNext, PTL DEF Spec

\* The buffers, the element and the send in progress keep their types.
THEOREM PipelineTypeOK == Spec => []TypeOK
  <1>1. StreamInv => TypeOK
    BY DEF StreamInv
  <1> QED
    BY <1>1, StreamInvariance, PTL

\* For any client and any cut of its bytes: ProcessCommand is called at most once for
\* each request, and in the order in which the client has sent them.
THEOREM EachRequestOnceInOrder == Spec => []RequestsOnceInOrder
  <1>1. StreamInv => RequestsOnceInOrder
    BY DEF StreamInv
  <1> QED
    BY <1>1, StreamInvariance, PTL

-----------------------------------------------------------------------------
(* What is sent.  New answers come after everything written before, since    *)
(* the requests they answer are handled after it; a file that is open when a *)
(* new send starts belongs to one of the requests just handled.              *)

NotAfter(p, q) == p.req < q.req \/ (p.req = q.req /\ p.part <= q.part)

Sorted(s) == \A i, j \in 1..Len(s) : i < j => NotAfter(s[i], s[j])

File == {stream} \ {Idle}
Transmitted == {sending} \ {Idle}
Replies == Range(wire) \cup Transmitted \cup Range(packets) \cup File

LoginIn(h, n) == \E j \in 1..n : LogsIn(h[j])

\* A packet belongs to a request in h, which may have it.
Justified(h, p) ==
  \E k \in 1..Len(h) :
    /\ h[k] = p.req
    /\ p.ok /\ Kinds[p.req] \in {"dir", "download"} => LoginIn(h, k - 1)

SentInOrder ==
  /\ Sorted(wire) /\ Sorted(packets)
  /\ \A p \in Range(wire), q \in Transmitted \cup Range(packets) \cup File : NotAfter(p, q)
  /\ \A p \in Transmitted, q \in Range(packets) \cup File : NotAfter(p, q)

AllJustified ==
  /\ \A p \in Replies : Justified(handled, p)
  /\ bound /\ logined => LoginIn(handled, Len(handled))

\* Only the element whose m_sendAsync is set has a file, that of a granted request.
FileOfElement == stream # Idle => bound /\ sendAsync /\ stream.ok

ReplyInv == StreamInv /\ SentInOrder /\ AllJustified /\ FileOfElement

LEMMA ReplyTypes ==
  ASSUME TypeOK
  PROVE  /\ wire \in Seq(Packets) /\ packets \in Seq(Packets)
         /\ Replies \subseteq Packets
         /\ \A p \in Packets : p.req \in Nat /\ p.part \in Nat /\ p.req \in Requests
         /\ Len(wire) \in Nat /\ Len(packets) \in Nat
         /\ DOMAIN wire = 1..Len(wire) /\ DOMAIN packets = 1..Len(packets)
  <1>1. wire \in Seq(Packets) /\ packets \in Seq(Packets)
    BY DEF TypeOK
  <1>2. Range(wire) \subseteq Packets /\ Range(packets) \subseteq Packets
    BY <1>1, ElementsOfRange
  <1>3. Transmitted \subseteq Packets /\ File \subseteq Packets
    BY DEF TypeOK, Transmitted, File
  <1>4. \A p \in Packets : p.req \in Nat /\ p.part \in Nat /\ p.req \in Requests
    BY SizesAssumption DEF Packets, Requests
  <1> QED
    BY <1>1, <1>2, <1>3, <1>4, LenProperties DEF Replies

\* NotAfter is an order.
LEMMA OrderOfPackets ==
  ASSUME NEW p \in Packets, NEW q \in Packets, NEW r \in Packets
  PROVE  NotAfter(p, p) /\ (NotAfter(p, q) /\ NotAfter(q, r) => NotAfter(p, r))
  <1>1. \A x \in Packets : x.req \in Nat /\ x.part \in Nat
    BY SizesAssumption DEF Packets, Requests
  <1> QED
    BY <1>1 DEF NotAfter

\* More requests justify no less.
LEMMA JustifiedStays ==
  ASSUME NEW h \in Seq(Requests), NEW q \in Seq(Requests), NEW p, Justified(h, p)
  PROVE  Justified(h \o q, p)
  <1>1. PICK k \in 1..Len(h) :
          /\ h[k] = p.req
          /\ p.ok /\ Kinds[p.req] \in {"dir", "download"} => LoginIn(h, k - 1)
    BY DEF Justified
  <1> DEFINE g == h \o q
  <1>2. /\ Len(h) \in Nat /\ Len(q) \in Nat /\ Len(g) = Len(h) + Len(q)
        /\ \A i \in 1..Len(h) : g[i] = h[i]
    BY LenProperties, ConcatOrder
  <1> HIDE DEF g
  <1>3. k \in 1..Len(g) /\ g[k] = p.req
    BY <1>1, <1>2
  <1>4. LoginIn(h, k - 1) => LoginIn(g, k - 1)
    BY <1>2 DEF LoginIn
  <1>5. Justified(g, p)
    BY <1>1, <1>3, <1>4 DEF Justified
  <1> QED
    BY <1>5 DEF g

\* The answer to a request of a batch, and the file it opens, are justified by it.
LEMMA BatchJustifies ==
  ASSUME StreamInv, AllJustified, NEW q \in Seq(Requests), NEW k \in 1..Len(q), NEW p,
         p.req = q[k], p.ok => Granted(q, k)
  PROVE  Justified(handled \o q, p)
  <1> DEFINE g == handled \o q
             n == Len(handled)
  <1>1. handled \in Seq(Requests) /\ n \in Nat /\ Len(q) \in Nat
    BY StreamTypes, LenProperties
  <1>2. /\ Len(g) = n + Len(q)
        /\ \A i \in 1..n : g[i] = handled[i]
        /\ \A i \in 1..Len(q) : g[n + i] = q[i]
    BY <1>1, ConcatOrder
  <1>3. bound /\ logined => LoginIn(handled, n)
    BY DEF AllJustified
  <1> HIDE DEF g, n
  <1>4. n + k \in 1..Len(g) /\ g[n + k] = p.req
    BY <1>1, <1>2
  <1>5. ASSUME p.ok, Kinds[p.req] \in {"dir", "download"} PROVE LoginIn(g, n + k - 1)
    <2>1. \/ bound /\ logined
          \/ \E j \in 1..(k - 1) : LogsIn(q[j])
      BY <1>5 DEF Granted, Permitted
    <2>2. CASE bound /\ logined
      <3>1. PICK j \in 1..n : LogsIn(handled[j])
        BY <1>3, <2>2 DEF LoginIn
      <3>2. j \in 1..(n + k - 1) /\ g[j] = handled[j]
        BY <1>1, <1>2
      <3> QED
        BY <3>1, <3>2 DEF LoginIn
    <2>3. CASE \E j \in 1..(k - 1) : LogsIn(q[j])
      <3>1. PICK j \in 1..(k - 1) : LogsIn(q[j])
        BY <2>3
      <3>2. n + j \in 1..(n + k - 1) /\ g[n + j] = q[j]
        BY <1>1, <1>2
      <3> QED
        BY <3>1, <3>2 DEF LoginIn
    <2> QED
      BY <2>1, <2>2, <2>3
  <1>6. (n + k) - 1 = n + k - 1
    BY <1>1
  <1>7. Justified(g, p)
    <2> DEFINE m == n + k
    <2>1. m \in 1..Len(g) /\ g[m] = p.req
      BY <1>4
    <2>2. p.ok /\ Kinds[p.req] \in {"dir", "download"} => LoginIn(g, m - 1)
      BY <1>5, <1>6
    <2> HIDE DEF m
    <2> QED
      BY <2>1, <2>2 DEF Justified
  <1> QED
    BY <1>7 DEF g

\* Requests that are handled in a batch: in order, and from the pipe.
Batch(q) ==
  /\ q \in Seq(Requests)
  /\ \A k, l \in 1..Len(q) : k < l => q[k] < q[l]
  /\ \A k \in 1..Len(q) : \E x \in Pipe \ {Flag} : q[k] = x.req

\* They come after the requests of everything written so far.
LEMMA BatchFollows ==
  ASSUME StreamInv, AllJustified, status = "open", NEW q, Batch(q),
         NEW p \in Replies, NEW k \in 1..Len(q)
  PROVE  p.req < q[k]
  <1>1. PICK i \in 1..Len(handled) : handled[i] = p.req
    BY DEF AllJustified, Justified
  <1>2. PICK x \in Pipe \ {Flag} : q[k] = x.req
    BY DEF Batch
  <1>3. i \in DOMAIN handled
    BY StreamTypes
  <1>4. handled[i] < x.req
    BY <1>2, <1>3 DEF StreamInv, HandledBefore
  <1> QED
    BY <1>1, <1>2, <1>4

\* SendBuffer with the answers of a batch.
LEMMA BatchAnswers ==
  ASSUME StreamInv, AllJustified, SentInOrder, status = "open", NEW q, Batch(q)
  PROVE  LET list == packets \o Answers(q)
         IN  /\ list \in Seq(Packets) /\ Len(list) \in Nat
             /\ Sorted(list)
             /\ \A x \in Range(list) :
                  \/ x \in Range(packets)
                  \/ (\A p \in Replies : NotAfter(p, x)) /\ Justified(handled \o q, x)
             /\ q # <<>> =>
                  /\ list # <<>> /\ Head(list) = list[1] /\ list[1] \in Range(list)
                  /\ \A x \in Range(list) : NotAfter(list[1], x)
                  /\ \A k \in 1..Len(q) : NotAfter(list[1], Part(q[k], 1))
  <1> DEFINE list == packets \o Answers(q)
             n == Len(packets)
             a == Answers(q)
  <1>1. TypeOK /\ q \in Seq(Requests) /\ Len(q) \in Nat /\ n \in Nat /\ packets \in Seq(Packets)
    BY LenProperties, ReplyTypes DEF StreamInv, Batch
  <1>2. /\ list \in Seq(Packets) /\ Len(list) = n + Len(q)
        /\ \A i \in 1..n : list[i] = packets[i]
        /\ \A i \in 1..Len(q) : list[n + i] = a[i]
        /\ q # <<>> => list # <<>>
    BY <1>1, AnswersAdded
  <1>3. \A k \in 1..Len(q) : a[k].req = q[k] /\ a[k].part = 0 /\ a[k].ok = Granted(q, k)
    BY <1>1, AnswersArePackets
  <1> HIDE DEF list, n, a
  <1>4. ASSUME NEW i \in 1..Len(list)
        PROVE  \/ i \in 1..n /\ list[i] = packets[i]
               \/ \E k \in 1..Len(q) : i = n + k /\ list[i] = a[k]
    <2>1. CASE i > n
      <3>1. i - n \in 1..Len(q) /\ i = n + (i - n)
        BY <1>1, <1>2, <2>1
      <3> QED
        BY <1>2, <3>1
    <2> QED
      BY <1>1, <1>2, <2>1
  <1>5. \A i \in 1..n : packets[i] \in Range(packets) /\ packets[i] \in Replies
    BY <1>1, ElementsOfRange DEF n, Replies
  <1>6. ASSUME NEW p \in Replies, NEW k \in 1..Len(q) PROVE NotAfter(p, a[k]) /\ p.req < q[k]
    BY <1>3, BatchFollows DEF NotAfter
  <1>7. \A k \in 1..Len(q) : Justified(handled \o q, a[k])
    BY <1>1, <1>3, BatchJustifies
  <1>8. Sorted(list)
    <2>1. SUFFICES ASSUME NEW i \in 1..Len(list), NEW j \in 1..Len(list), i < j
                   PROVE  NotAfter(list[i], list[j])
      BY DEF Sorted
    <2>2. CASE j \in 1..n /\ list[j] = packets[j]
      <3>1. i \in 1..n /\ list[i] = packets[i]
        BY <1>1, <1>4, <2>1, <2>2
      <3> QED
        BY <2>1, <2>2, <3>1 DEF SentInOrder, Sorted, n
    <2>3. CASE \E l \in 1..Len(q) : j = n + l /\ list[j] = a[l]
      <3>1. PICK l \in 1..Len(q) : j = n + l /\ list[j] = a[l]
        BY <2>3
      <3>2. CASE i \in 1..n /\ list[i] = packets[i]
        BY <1>5, <1>6, <3>1, <3>2
      <3>3. CASE \E k \in 1..Len(q) : i = n + k /\ list[i] = a[k]
        <4>1. PICK k \in 1..Len(q) : i = n + k /\ list[i] = a[k]
          BY <3>3
        <4>2. k < l
          BY <1>1, <2>1, <3>1, <4>1
        <4> QED
          BY <1>3, <3>1, <4>1, <4>2 DEF Batch, NotAfter
      <3> QED
        BY <1>4, <3>2, <3>3
    <2> QED
      BY <1>4, <2>2, <2>3
  <1>9. ASSUME NEW x \in Range(list)
        PROVE  \/ x \in Range(packets)
               \/ (\A p \in Replies : NotAfter(p, x)) /\ Justified(handled \o q, x)
    <2>1. PICK i \in 1..Len(list) : x = list[i]
      BY <1>2, ElementsOfRange
    <2> QED
      BY <1>4, <1>5, <1>6, <1>7, <2>1
  <1>10. ASSUME q # <<>>
         PROVE  /\ list # <<>> /\ Head(list) = list[1] /\ list[1] \in Range(list)
                /\ \A x \in Range(list) : NotAfter(list[1], x)
                /\ \A k \in 1..Len(q) : NotAfter(list[1], Part(q[k], 1))
    <2>1. Len(q) >= 1 /\ 1 \in 1..Len(list) /\ 1 \in 1..Len(q)
      <3>1. Len(q) # 0
        BY <1>1, <1>10, EmptySeq
      <3> QED
        BY <1>1, <1>2, <3>1
    <2>2. Head(list) = list[1] /\ list[1] \in Range(list) /\ list # <<>>
      BY <1>2, <1>10, <2>1, ElementsOfRange, HeadTailProperties
    <2>3. ASSUME NEW x \in Range(list) PROVE NotAfter(list[1], x)
      <3>1. PICK j \in 1..Len(list) : x = list[j]
        BY <1>2, ElementsOfRange
      <3>2. CASE j = 1
        <4>1. x \in Packets
          BY <1>2, ElementsOfRange
        <4> QED
          BY <3>1, <3>2, <4>1, OrderOfPackets
      <3>3. CASE j # 1
        <4>1. 1 < j
          BY <3>3
        <4> QED
          BY <1>8, <2>1, <3>1, <4>1 DEF Sorted
      <3> QED
        BY <3>2, <3>3
    <2>4. ASSUME NEW k \in 1..Len(q) PROVE NotAfter(list[1], Part(q[k], 1))
      <3>1. Part(q[k], 1).req = q[k] /\ Part(q[k], 1).part = 1
        BY DEF Part
      <3>2. CASE 1 \in 1..n /\ list[1] = packets[1]
        BY <1>5, <1>6, <3>1, <3>2 DEF NotAfter
      <3>3. CASE \E l \in 1..Len(q) : 1 = n + l /\ list[1] = a[l]
        <4>1. PICK l \in 1..Len(q) : 1 = n + l /\ list[1] = a[l]
          BY <3>3
        <4>2. l = 1 /\ a[1].req = q[1] /\ a[1].part = 0
          BY <1>1, <1>3, <2>1, <4>1
        <4>3. k = 1 \/ q[1] < q[k]
          BY <2>1 DEF Batch
        <4> QED
          BY <3>1, <4>1, <4>2, <4>3 DEF NotAfter
      <3> QED
        BY <1>4, <2>1, <3>2, <3>3
    <2> QED
      BY <2>2, <2>3, <2>4
  <1> QED
    BY <1>1, <1>2, <1>8, <1>9, <1>10 DEF list

\* The file that is open after a batch.
LEMMA BatchFile ==
  ASSUME StreamInv, AllJustified, status = "open", NEW q, Batch(q), Opened(q) # Idle
  PROVE  \/ Opened(q) = stream /\ stream # Idle /\ bound
         \/ /\ \E k \in 1..Len(q) : Opened(q) = Part(q[k], 1)
            /\ \A p \in Replies : NotAfter(p, Opened(q))
            /\ Justified(handled \o q, Opened(q))
  <1>1. TypeOK /\ q \in Seq(Requests)
    BY DEF StreamInv, Batch
  <1>2. CASE \E k \in 1..Len(q) : Opened(q) = Part(q[k], 1) /\ Granted(q, k)
    <2>1. PICK k \in 1..Len(q) : Opened(q) = Part(q[k], 1) /\ Granted(q, k)
      BY <1>2
    <2>2. Opened(q).req = q[k] /\ Opened(q).part = 1
      BY <2>1 DEF Part
    <2>3. \A p \in Replies : NotAfter(p, Opened(q))
      BY <2>2, BatchFollows DEF NotAfter
    <2>4. Justified(handled \o q, Opened(q))
      BY <1>1, <2>1, <2>2, BatchJustifies
    <2> QED
      BY <2>1, <2>3, <2>4
  <1>3. CASE Opened(q) = stream /\ bound
    BY <1>3
  <1> QED
    BY <1>1, <1>2, <1>3, OpenedFile

\* A login in a batch was handled.
LEMMA BatchLogins ==
  ASSUME StreamInv, AllJustified, NEW q, Batch(q), LoginsAfter(q)
  PROVE  LoginIn(handled \o q, Len(handled \o q))
  <1> DEFINE g == handled \o q
             n == Len(handled)
  <1>1. /\ handled \in Seq(Requests) /\ q \in Seq(Requests)
        /\ n \in Nat /\ Len(q) \in Nat /\ DOMAIN q = 1..Len(q)
    BY StreamTypes, LenProperties DEF Batch
  <1>2. /\ Len(g) = n + Len(q)
        /\ \A i \in 1..n : g[i] = handled[i]
        /\ \A i \in 1..Len(q) : g[n + i] = q[i]
    BY <1>1, ConcatOrder
  <1>3. bound /\ logined => LoginIn(handled, n)
    BY DEF AllJustified
  <1> HIDE DEF g, n
  <1>4. CASE bound /\ logined
    <2>1. PICK j \in 1..n : LogsIn(handled[j])
      BY <1>3, <1>4 DEF LoginIn
    <2>2. j \in 1..Len(g) /\ g[j] = handled[j]
      BY <1>1, <1>2
    <2> QED
      BY <2>1, <2>2 DEF LoginIn, g
  <1>5. CASE \E j \in DOMAIN q : LogsIn(q[j])
    <2>1. PICK j \in 1..Len(q) : LogsIn(q[j])
      BY <1>1, <1>5
    <2>2. n + j \in 1..Len(g) /\ g[n + j] = q[j]
      BY <1>1, <1>2
    <2> QED
      BY <2>1, <2>2 DEF LoginIn, g
  <1> QED
    BY <1>4, <1>5 DEF LoginsAfter

\* A batch is handled, and a send is started or not.
LEMMA ReplyByBatch ==
  ASSUME ReplyInv, StreamInv', status = "open", NEW q, Batch(q),
         handled' = handled \o q, packets' = packets \o Answers(q), wire' = wire,
         stream' = Opened(q), logined' = LoginsAfter(q), bound' = TRUE,
         \/ sending' = sending
         \/ q # <<>> /\ ~(bound /\ sendAsync) /\ sending' = Head(packets'),
         q # <<>> \/ (bound /\ sendAsync) => sendAsync'
  PROVE  ReplyInv'
  <1> DEFINE list == packets \o Answers(q)
             h == handled \o q
             f == Opened(q)
  <1>1. StreamInv /\ AllJustified /\ SentInOrder /\ FileOfElement
    BY DEF ReplyInv
  <1>2. /\ list \in Seq(Packets) /\ Sorted(list)
        /\ \A x \in Range(list) :
             \/ x \in Range(packets)
             \/ (\A p \in Replies : NotAfter(p, x)) /\ Justified(h, x)
        /\ q # <<>> =>
             /\ list # <<>> /\ Head(list) = list[1] /\ list[1] \in Range(list)
             /\ \A x \in Range(list) : NotAfter(list[1], x)
             /\ \A k \in 1..Len(q) : NotAfter(list[1], Part(q[k], 1))
    BY <1>1, BatchAnswers
  <1>3. f # Idle =>
          \/ f = stream /\ stream # Idle /\ bound
          \/ /\ \E k \in 1..Len(q) : f = Part(q[k], 1)
             /\ \A p \in Replies : NotAfter(p, f)
             /\ Justified(h, f)
    BY <1>1, BatchFile
  <1>4. \A p \in Replies : Justified(h, p)
    <2>1. handled \in Seq(Requests) /\ q \in Seq(Requests)
      BY <1>1, StreamTypes DEF Batch
    <2> QED
      BY <1>1, <2>1, JustifiedStays DEF AllJustified
  <1>5. LoginsAfter(q) => LoginIn(h, Len(h))
    BY <1>1, BatchLogins
  <1>6. (\E k \in 1..Len(q) : TRUE) => q # <<>>
    OBVIOUS
  <1> HIDE DEF list, h, f
  <1>7. /\ handled' = h /\ packets' = list /\ stream' = f
        /\ sending' = sending \/ (q # <<>> /\ ~(bound /\ sendAsync) /\ sending' = list[1])
    BY <1>2 DEF h, list, f
  <1>8. FileOfElement'
    <2>1. \A k \in 1..Len(q) : Part(q[k], 1).ok
      BY DEF Part
    <2> QED
      BY <1>1, <1>3, <1>6, <1>7, <2>1 DEF FileOfElement
  <1>9. \A p \in Transmitted' : p \in Transmitted \/ (p = list[1] /\ q # <<>> /\ ~(bound /\ sendAsync))
    BY <1>7 DEF Transmitted
  <1>10. \A p \in File' : p = f /\ f # Idle
    BY <1>7 DEF File
  <1>11. AllJustified'
    <2>1. ASSUME NEW p \in Replies' PROVE Justified(h, p)
      <3>1. \/ p \in Replies \/ p \in Range(list) \/ (p = f /\ f # Idle)
        BY <1>2, <1>7, <1>9, <1>10 DEF Replies
      <3>2. Range(packets) \subseteq Replies
        BY DEF Replies
      <3>3. CASE f = stream /\ stream # Idle
        BY <1>2, <1>4, <3>1, <3>2, <3>3 DEF Replies, File
      <3> QED
        BY <1>2, <1>3, <1>4, <3>1, <3>2, <3>3
    <2> QED
      BY <1>5, <1>7, <2>1 DEF AllJustified
  <1>12. SentInOrder'
    <2>1. Sorted(wire') /\ Sorted(packets')
      BY <1>1, <1>2, <1>7 DEF SentInOrder
    <2>2. \A p \in Range(wire) \cup Transmitted, x \in Range(list) : NotAfter(p, x)
      BY <1>1, <1>2 DEF SentInOrder, Replies
    <2>3. f # Idle => \A p \in Range(wire) \cup Transmitted : NotAfter(p, f)
      BY <1>1, <1>3 DEF SentInOrder, Replies, File
    <2>4. ASSUME NEW p \in Range(wire), NEW x \in Transmitted' \cup Range(packets') \cup File'
          PROVE  NotAfter(p, x)
      <3>1. CASE x \in Transmitted'
        BY <1>1, <1>2, <1>9, <2>2, <3>1 DEF SentInOrder
      <3> QED
        BY <1>7, <1>10, <2>2, <2>3, <3>1
    <2>5. ASSUME NEW p \in Transmitted', NEW x \in Range(packets') \cup File'
          PROVE  NotAfter(p, x)
      <3>1. CASE p \in Transmitted
        BY <1>7, <1>10, <2>2, <2>3, <3>1
      <3>2. CASE p = list[1] /\ q # <<>> /\ ~(bound /\ sendAsync)
        <4>1. stream = Idle
          BY <1>1, <3>2 DEF FileOfElement
        <4>2. x \in File' => NotAfter(p, x)
          BY <1>2, <1>3, <1>10, <3>2, <4>1
        <4> QED
          BY <1>2, <1>7, <3>2, <4>2
      <3> QED
        BY <1>9, <3>1, <3>2
    <2> QED
      BY <2>1, <2>4, <2>5 DEF SentInOrder
  <1> QED
    BY <1>8, <1>11, <1>12 DEF ReplyInv

\* The requests found in the buffer are a batch, and so is the first of them.
LEMMA BatchFound ==
  ASSUME StreamInv, chunk # <<>>
  PROVE  /\ Batch(RequestsAt(Received))
         /\ RequestsAt(Received) # <<>> => Batch(SubSeq(RequestsAt(Received), 1, 1))
  <1> DEFINE b == Received
             q == RequestsAt(b)
             first == SubSeq(q, 1, 1)
  <1>1. b \in Seq(Symbols) /\ Ascending(b) /\ Range(b) \subseteq Pipe
    BY ReceivedInOrder
  <1>2. \A k \in 1..Whole(b) : LastPiece(b, k) \in Range(b) \ {Flag}
    BY <1>1, WholeRequests
  <1>3. /\ q \in Seq(Requests) /\ Len(q) = Whole(b)
        /\ \A k \in 1..Whole(b) : q[k] = LastPiece(b, k).req
        /\ \A k, l \in 1..Whole(b) : k < l => q[k] < q[l]
    BY <1>1, RequestsInOrder
  <1>4. q # <<>> => first \in Seq(Requests) /\ Len(first) = 1 /\ first[1] = q[1] /\ 1 \in 1..Len(q)
    BY FoundRequests
  <1> HIDE DEF b, q, first
  <1>5. \A k \in 1..Len(q) : \E x \in Pipe \ {Flag} : q[k] = x.req
    BY <1>1, <1>2, <1>3
  <1>6. Batch(q)
    BY <1>3, <1>5 DEF Batch
  <1>7. ASSUME q # <<>> PROVE Batch(first)
    <2>4. Len(first) = 1 /\ 1..1 = {1}
      BY <1>4, <1>7
    <2>5. first[1] = q[1] /\ first \in Seq(Requests)
      BY <1>4, <1>7
    <2>1. 1..Len(first) = {1} /\ first[1] = q[1] /\ first \in Seq(Requests)
      BY <2>4, <2>5
    <2>2. \A k, l \in {1} : ~(k < l)
      OBVIOUS
    <2>3. \E x \in Pipe \ {Flag} : q[1] = x.req
      BY <1>4, <1>5, <1>7
    <2> QED
      BY <2>1, <2>2, <2>3 DEF Batch
  <1> QED
    BY <1>6, <1>7 DEF b, q, first

LEMMA ReplyByHandle ==
  ASSUME ReplyInv, StreamInv', HandleRequests
  PROVE  ReplyInv'
  <1> DEFINE q == RequestsAt(Received)
  <1>1. /\ status = "open" /\ chunk # <<>> /\ StreamInv
        /\ handled' = handled \o q /\ packets' = packets \o Answers(q) /\ wire' = wire
        /\ stream' = Opened(q) /\ logined' = LoginsAfter(q) /\ bound' = TRUE
        /\ sending' = IF MustSend THEN Head(packets') ELSE sending
        /\ sendAsync' = (MustSend \/ (bound /\ sendAsync))
    BY DEF HandleRequests, FirstPacket, ReplyInv
  <1>2. Batch(q)
    BY <1>1, BatchFound
  <1>3. MustSend <=> q # <<>> /\ ~(bound /\ sendAsync)
    BY DEF MustSend
  <1> HIDE DEF q
  <1> QED
    BY <1>1, <1>2, <1>3, ReplyByBatch

LEMMA ReplyByRefused ==
  ASSUME ReplyInv, StreamInv', SendRefused
  PROVE  ReplyInv'
  <1> DEFINE q == SubSeq(RequestsAt(Received), 1, 1)
  <1>1. /\ status = "open" /\ chunk # <<>> /\ RequestsAt(Received) # <<>> /\ StreamInv
        /\ handled' = handled \o q /\ packets' = packets \o Answers(q) /\ wire' = wire
        /\ stream' = Opened(q) /\ logined' = LoginsAfter(q) /\ bound' = TRUE
        /\ sending' = sending /\ sendAsync' = TRUE
    BY DEF SendRefused, MustSend, ReplyInv
  <1>2. Batch(q)
    BY <1>1, BatchFound
  <1> HIDE DEF q
  <1> QED
    BY <1>1, <1>2, ReplyByBatch

\* The packet leaves, and comes before everything that waits.
LEMMA ReplyBySend ==
  ASSUME ReplyInv, StreamInv', SendCompletes
  PROVE  ReplyInv'
  <1>1. /\ sending # Idle /\ wire' = Append(wire, sending) /\ sending' = Idle
        /\ UNCHANGED <<handled, packets, stream, bound, logined, sendAsync>>
    BY DEF SendCompletes, receiveVars, elementVars
  <1>2. /\ TypeOK /\ wire \in Seq(Packets) /\ Len(wire) \in Nat /\ sending \in Packets
        /\ sending \in Transmitted
    BY <1>1, ReplyTypes DEF ReplyInv, StreamInv, TypeOK, Transmitted
  <1>3. /\ wire' \in Seq(Packets) /\ Len(wire') = Len(wire) + 1
        /\ \A i \in 1..Len(wire) : wire'[i] = wire[i]
        /\ wire'[Len(wire) + 1] = sending
    BY <1>1, <1>2, AppendProperties
  <1>4. ASSUME NEW i \in 1..Len(wire')
        PROVE  \/ i \in 1..Len(wire) /\ wire'[i] = wire[i] /\ wire'[i] \in Range(wire)
               \/ i = Len(wire) + 1 /\ wire'[i] = sending
    BY <1>2, <1>3, ElementsOfRange
  <1>5. \A p \in Range(wire') : p \in Range(wire) \/ p = sending
    BY <1>3, <1>4, ElementsOfRange
  <1>6. Sorted(wire')
    <2>1. SUFFICES ASSUME NEW i \in 1..Len(wire'), NEW j \in 1..Len(wire'), i < j
                   PROVE  NotAfter(wire'[i], wire'[j])
      BY DEF Sorted
    <2>2. CASE j \in 1..Len(wire) /\ wire'[j] = wire[j]
      <3>1. i \in 1..Len(wire) /\ wire'[i] = wire[i]
        BY <1>2, <1>4, <2>1, <2>2
      <3> QED
        BY <2>1, <2>2, <3>1 DEF ReplyInv, SentInOrder, Sorted
    <2>3. CASE j = Len(wire) + 1 /\ wire'[j] = sending
      <3>1. i \in 1..Len(wire) /\ wire'[i] \in Range(wire)
        BY <1>2, <1>3, <1>4, <2>1, <2>3
      <3> QED
        BY <1>2, <2>3, <3>1 DEF ReplyInv, SentInOrder
    <2> QED
      BY <1>4, <2>2, <2>3
  <1>7. Transmitted' = {} /\ File' = File
    BY <1>1 DEF Transmitted, File
  <1>8. SentInOrder'
    BY <1>1, <1>2, <1>5, <1>6, <1>7 DEF ReplyInv, SentInOrder
  <1>9. Replies' \subseteq Replies
    BY <1>1, <1>2, <1>5, <1>7 DEF Replies
  <1>10. AllJustified' /\ FileOfElement'
    BY <1>1, <1>9 DEF ReplyInv, AllJustified, FileOfElement
  <1> QED
    BY <1>8, <1>10 DEF ReplyInv

\* What is left in SendBuffer, or the next part of the file.
LEMMA RemainingOrder ==
  ASSUME ReplyInv
  PROVE  /\ Remaining \in Seq(Packets) /\ Sorted(Remaining)
         /\ Range(Remaining) \subseteq Range(packets) \cup File
         /\ Remaining # <<>> =>
              /\ Head(Remaining) \in Range(Remaining)
              /\ \A x \in Range(Remaining) : NotAfter(Head(Remaining), x)
         /\ Cleared = <<>> /\ stream # Idle => \A x \in Range(Remaining) : x = stream
  <1>1. TypeOK /\ packets \in Seq(Packets) /\ Len(packets) \in Nat /\ Sorted(packets)
    BY ReplyTypes DEF ReplyInv, StreamInv, SentInOrder
  <1>2. Remaining \in Seq(Packets) /\ Cleared \in Seq(Packets)
    BY <1>1, RemainingType
  <1>3. Sorted(<<>>) /\ Range(<<>>) = {}
    BY DEF Sorted, Range
  <1>4. Sorted(Cleared) /\ Range(Cleared) \subseteq Range(packets)
    <2>1. CASE packets = <<>>
      BY <1>3, <2>1 DEF Cleared
    <2>2. CASE packets # <<>>
      <3>1. /\ Cleared = Tail(packets) /\ Len(Cleared) = Len(packets) - 1
            /\ \A i \in 1..(Len(packets) - 1) : Cleared[i] = packets[i + 1]
            /\ Range(Cleared) \subseteq Range(packets)
        BY <1>1, <2>2, TailOrder DEF Cleared
      <3> QED
        BY <1>1, <3>1 DEF Sorted
    <2> QED
      BY <2>1, <2>2
  <1>5. ASSUME Cleared = <<>>, stream # Idle
        PROVE  /\ Len(Remaining) = 1 /\ Remaining[1] = stream
               /\ \A x \in Range(Remaining) : x = stream
    <2>1. Remaining = <<stream>>
      BY <1>5 DEF Remaining
    <2>2. Len(Remaining) = 1 /\ Remaining[1] = stream
      BY <2>1
    <2> QED
      BY <1>2, <2>2, ElementsOfRange
  <1>6. ~(Cleared = <<>> /\ stream # Idle) => Remaining = Cleared
    BY DEF Remaining
  <1>7. Sorted(Remaining) /\ Range(Remaining) \subseteq Range(packets) \cup File
    <2>1. CASE Cleared = <<>> /\ stream # Idle
      <3>1. \A i, j \in 1..1 : ~(i < j)
        OBVIOUS
      <3>2. Sorted(Remaining)
        BY <1>5, <2>1, <3>1 DEF Sorted
      <3> QED
        BY <1>5, <2>1, <3>2 DEF File
    <2> QED
      BY <1>4, <1>6, <2>1
  <1>8. ASSUME Remaining # <<>>
        PROVE  /\ Head(Remaining) \in Range(Remaining)
               /\ \A x \in Range(Remaining) : NotAfter(Head(Remaining), x)
    <2>1. Head(Remaining) = Remaining[1] /\ Head(Remaining) \in Range(Remaining)
      BY <1>2, <1>8, TailOrder
    <2>2. ASSUME NEW x \in Range(Remaining) PROVE NotAfter(Remaining[1], x)
      <3>1. PICK i \in 1..Len(Remaining) : x = Remaining[i]
        BY <1>2, ElementsOfRange
      <3>2. x \in Packets /\ Len(Remaining) \in Nat
        BY <1>2, ElementsOfRange
      <3>3. CASE i = 1
        BY <3>1, <3>2, <3>3, OrderOfPackets
      <3>4. CASE i # 1
        <4>1. 1 < i /\ 1 \in 1..Len(Remaining)
          BY <3>2, <3>4
        <4> QED
          BY <1>7, <3>1, <4>1 DEF Sorted
      <3> QED
        BY <3>3, <3>4
    <2> QED
      BY <2>1, <2>2
  <1> QED
    BY <1>2, <1>5, <1>7, <1>8

\* SendCompleted sends the next packet, and the element with its file is dropped.
LEMMA ReplyBySent ==
  ASSUME ReplyInv, StreamInv', HandleSent
  PROVE  ReplyInv'
  <1>1. /\ Remaining # <<>> => sending = Idle
        /\ packets' = Remaining
        /\ sending' = IF Remaining = <<>> THEN sending ELSE Head(Remaining)
        /\ bound' = FALSE /\ stream' = Idle /\ UNCHANGED <<handled, wire>>
    BY DEF HandleSent, FirstPacket, receiveVars
  <1>2. File' = {}
    BY <1>1 DEF File
  <1>3. Transmitted' \subseteq Transmitted \cup Range(Remaining)
    BY <1>1, RemainingOrder DEF Transmitted
  <1>4. Range(Remaining) \subseteq Range(packets) \cup File
    BY RemainingOrder
  <1>5. SentInOrder'
    <2>1. Sorted(wire') /\ Sorted(packets')
      BY <1>1, RemainingOrder DEF ReplyInv, SentInOrder
    <2>2. \A p \in Range(wire'), x \in Transmitted' \cup Range(packets') \cup File' : NotAfter(p, x)
      BY <1>1, <1>2, <1>3, <1>4 DEF ReplyInv, SentInOrder
    <2>3. \A p \in Transmitted', x \in Range(packets') : NotAfter(p, x)
      <3>1. CASE Remaining = <<>>
        BY <1>1, <3>1 DEF Range
      <3>2. CASE Remaining # <<>>
        <4>1. Transmitted' \subseteq {Head(Remaining)}
          BY <1>1, <3>2 DEF Transmitted
        <4> QED
          BY <1>1, <3>2, <4>1, RemainingOrder
      <3> QED
        BY <3>1, <3>2
    <2> QED
      BY <1>2, <2>1, <2>2, <2>3 DEF SentInOrder
  <1>6. Replies' \subseteq Replies
    BY <1>1, <1>2, <1>3, <1>4 DEF Replies
  <1>7. AllJustified' /\ FileOfElement'
    BY <1>1, <1>6 DEF ReplyInv, AllJustified, FileOfElement
  <1> QED
    BY <1>5, <1>7 DEF ReplyInv

\* SendEventArgs is in use: the packets wait, and the file may be one part further.
LEMMA ReplyBySentRefused ==
  ASSUME ReplyInv, StreamInv', HandleSentRefused
  PROVE  ReplyInv'
  <1>1. /\ Remaining # <<>> /\ sending # Idle /\ packets' = Remaining /\ bound
        /\ sendAsync' = TRUE /\ UNCHANGED <<handled, wire, sending, bound, logined>>
        /\ stream' = CASE Cleared # <<>> \/ stream.part = 1 -> stream
                     [] OTHER -> IF stream.part < Parts THEN Part(stream.req, stream.part + 1)
                                 ELSE Idle
    BY DEF HandleSentRefused, receiveVars
  <1>2. TypeOK /\ (stream # Idle => stream \in Packets)
    BY DEF ReplyInv, StreamInv, TypeOK
  <1>3. stream' # Idle =>
          /\ stream # Idle
          /\ stream' = stream \/ stream' = Part(stream.req, stream.part + 1)
    BY <1>1 DEF Remaining
  <1>4. ASSUME stream' # Idle
        PROVE  /\ stream \in File /\ stream' \in Packets /\ NotAfter(stream, stream')
               /\ stream'.req = stream.req /\ stream.ok /\ stream'.ok
    <2>1. stream \in File /\ stream.ok /\ stream \in Packets /\ stream' \in Packets
      BY <1>2, <1>3, <1>4 DEF File, ReplyInv, FileOfElement, StreamInv, TypeOK
    <2>2. stream.part \in Nat
      BY <2>1, ReplyTypes, <1>2
    <2>3. CASE stream' = stream
      BY <2>1, <2>3, OrderOfPackets
    <2>4. CASE stream' = Part(stream.req, stream.part + 1)
      BY <2>1, <2>2, <2>4 DEF Part, NotAfter
    <2> QED
      BY <1>3, <1>4, <2>1, <2>3, <2>4
  <1>5. ASSUME NEW p \in Range(wire) \cup Transmitted, NEW x \in File' PROVE NotAfter(p, x)
    <2>1. x = stream' /\ stream' # Idle
      BY DEF File
    <2>2. NotAfter(p, stream) /\ p \in Packets
      BY <1>2, <1>4, <2>1, ReplyTypes DEF ReplyInv, SentInOrder, Replies
    <2>3. stream \in Packets
      BY <1>2, <1>3, <2>1
    <2> QED
      BY <1>4, <2>1, <2>2, <2>3, OrderOfPackets
  <1>6. Transmitted' = Transmitted /\ Range(packets') \subseteq Range(packets) \cup File
    BY <1>1, RemainingOrder DEF Transmitted
  <1>7. SentInOrder'
    <2>1. Sorted(wire') /\ Sorted(packets')
      BY <1>1, RemainingOrder DEF ReplyInv, SentInOrder
    <2> QED
      BY <1>1, <1>5, <1>6, <2>1 DEF ReplyInv, SentInOrder
  <1>8. AllJustified'
    <2>1. ASSUME NEW p \in Replies' PROVE Justified(handled, p)
      <3>1. CASE p \in Replies
        BY <3>1 DEF ReplyInv, AllJustified
      <3>2. CASE p \in File'
        <4>1. p = stream' /\ stream' # Idle
          BY <3>2 DEF File
        <4>2. Justified(handled, stream)
          BY <1>4, <4>1 DEF ReplyInv, AllJustified, Replies
        <4> QED
          BY <1>4, <4>1, <4>2 DEF Justified
      <3> QED
        BY <1>1, <1>6, <2>1, <3>1, <3>2 DEF Replies
    <2> QED
      BY <1>1, <2>1 DEF ReplyInv, AllJustified
  <1>9. FileOfElement'
    BY <1>1, <1>4 DEF FileOfElement
  <1> QED
    BY <1>7, <1>8, <1>9 DEF ReplyInv

\* Nothing waits any more.
LEMMA ReplyByLoss ==
  ASSUME ReplyInv, StreamInv', ConnectionLost
  PROVE  ReplyInv'
  <1>1. /\ packets' = <<>> /\ stream' = Idle /\ sending' = Idle /\ bound' = FALSE
        /\ UNCHANGED <<handled, wire>>
    BY DEF ConnectionLost
  <1>2. File' = {} /\ Transmitted' = {} /\ Range(packets') = {} /\ Sorted(packets')
    BY <1>1 DEF File, Transmitted, Range, Sorted
  <1>3. Replies' \subseteq Replies
    BY <1>1, <1>2 DEF Replies
  <1> QED
    BY <1>1, <1>2, <1>3 DEF ReplyInv, SentInOrder, AllJustified, FileOfElement

\* A step that leaves the element and the packets alone.
LEMMA ReplyByOthers ==
  ASSUME ReplyInv, StreamInv',
         UNCHANGED <<packets, stream, sending, bound, logined, sendAsync, handled, wire>>
  PROVE  ReplyInv'
  BY DEF ReplyInv, SentInOrder, AllJustified, FileOfElement, File, Transmitted, Replies

LEMMA ReplyInit == Init => ReplyInv
  <1> SUFFICES ASSUME Init PROVE ReplyInv
    OBVIOUS
  <1>1. File = {} /\ Transmitted = {} /\ Range(<<>>) = {} /\ Sorted(<<>>)
    BY DEF File, Transmitted, Range, Sorted, Init
  <1> QED
    BY <1>1, StreamInit
    DEF Init, ReplyInv, SentInOrder, AllJustified, FileOfElement, Replies

LEMMA ReplyNext == ReplyInv /\ [Next]_vars => ReplyInv'
  <1> SUFFICES ASSUME ReplyInv, [Next]_vars PROVE ReplyInv'
    OBVIOUS
  <1>1. StreamInv'
    BY StreamNext DEF ReplyInv
  <1>2. CASE UNCHANGED vars
    BY <1>1, <1>2, ReplyByOthers DEF vars, receiveVars, elementVars, sendVars
  <1>3. CASE ClientSends \/ ReceiveCompletes \/ IgnoreSent
    BY <1>1, <1>3, ReplyByOthers
    DEF ClientSends, ReceiveCompletes, IgnoreSent, receiveVars, elementVars, sendVars
  <1> QED
    BY <1>1, <1>2, <1>3, ReplyByHandle, ReplyByRefused, ReplyBySend, ReplyBySent,
       ReplyBySentRefused, ReplyByLoss
    DEF Next, Server

LEMMA InvariantAnswers == ReplyInv => Responses
  <1> SUFFICES ASSUME ReplyInv PROVE Responses
    OBVIOUS
  <1>1. /\ DOMAIN wire = 1..Len(wire) /\ wire \in Seq(Packets)
        /\ DOMAIN handled = 1..Len(handled) /\ Len(handled) \in Nat
    BY ReplyTypes, StreamTypes DEF ReplyInv, StreamInv
  <1>2. InOrder
    BY <1>1 DEF InOrder, ReplyInv, SentInOrder, Sorted, NotAfter
  <1>3. ASSUME NEW i \in DOMAIN wire, wire[i].ok, Kinds[wire[i].req] \in {"dir", "download"}
        PROVE  \E j, k \in DOMAIN handled :
                 j < k /\ handled[k] = wire[i].req /\ LogsIn(handled[j])
    <2>1. wire[i] \in Replies
      BY <1>1, ElementsOfRange DEF Replies
    <2>2. PICK k \in 1..Len(handled) : handled[k] = wire[i].req /\ LoginIn(handled, k - 1)
      BY <1>3, <2>1 DEF ReplyInv, AllJustified, Justified
    <2>3. PICK j \in 1..(k - 1) : LogsIn(handled[j])
      BY <2>2 DEF LoginIn
    <2> QED
      BY <1>1, <2>2, <2>3
  <1> QED
    BY <1>2, <1>3 DEF Responses, GrantedAfterLogin

\* For any client: packets leave in the order of their requests and of their parts, and
\* what needs a login is granted only after one was handled on the connection, although
\* elements come and go with their m_logined and their files.
THEOREM ResponsesInOrder == Spec => []Responses
  BY ReplyInit, ReplyNext, InvariantAnswers, PTL DEF Spec

-----------------------------------------------------------------------------
(* One send at a time: when a regular client's requests are found by an      *)
(* element that knows of no send, there is none, and SendBuffer is empty.    *)

\* What has not been handled, in the order of the client.
Line == buffer \o chunk \o inflight
Unread == Len(buffer) + Len(chunk) + Len(inflight)

\* Each request is followed by a flag.
Apart(s) == \A i \in 1..(Len(s) - 1) : s[i].piece = Pieces => s[i + 1] = Flag

\* A flag has been taken for the beginning of a request: no other is ever found.
Misread == buffer # <<>> /\ buffer[1] = Flag

\* The flag comes with each request.  The element that has answered one knows of the send;
\* as long as it is bound the next flag is misread, and a new element begins with a flag.
FlagEach ==
  /\ stream = Idle /\ Len(packets) <= 1
  /\ packets # <<>> => bound /\ sendAsync
  /\ bound /\ logined => sendAsync
  /\ status = "open" /\ ~Misread =>
       /\ Apart(Line)
       /\ \/ bound /\ ~sendAsync
          \/ buffer = <<>> /\ (Line # <<>> => Line[1] = Flag)

AllHandled == \E i \in DOMAIN handled : handled[i] = next - 1

\* The flag comes once and the next request after the response.  After the first request
\* no more than one is unread; a new element takes its first symbol for a flag, and an
\* element that finds it whole has found one before and knows of its send.
FlagOnce ==
  /\ next = 1 => Unread = 0 /\ ~bound
  /\ status = "open" =>
       /\ handled = <<>> => Unread <= Pieces + (IF bound THEN 0 ELSE 1)
       /\ handled # <<>> =>
            /\ Unread <= Pieces
            /\ AllHandled => Unread = 0
            /\ AllHandled \/ Unread = Pieces => (bound => sendAsync)

\* SendEventArgs transmits the first packet of SendBuffer; what is behind it and the
\* part of the file that comes next have not been transmitted.
SentOnce ==
  /\ sending # Idle => /\ sendDone = 0 /\ packets # <<>>
                       /\ packets[1] = sending /\ sending \notin Range(wire)
  /\ sendDone # 0 => sendDone = 1 /\ packets # <<>>
  /\ IsInjective(wire) /\ IsInjective(packets)
  /\ \A i \in 2..Len(packets) : packets[i] \notin Range(wire)
  /\ stream # Idle => stream \notin Range(wire) \cup Range(packets)

OnceInv ==
  /\ ReplyInv
  /\ client.flags = "each" => FlagEach
  /\ client.flags = "once" /\ client.waits => FlagOnce
  /\ Regular => SentOnce

\* The last part of a sequence.
LEMMA ApartSuffix ==
  ASSUME NEW s \in Seq(Symbols), NEW t \in Seq(Symbols), NEW n \in Nat,
         Len(s) = n + Len(t), \A i \in 1..Len(t) : t[i] = s[n + i], Apart(s)
  PROVE  Apart(t)
  <1>1. Len(t) \in Nat
    BY LenProperties
  <1>2. ASSUME NEW i \in 1..(Len(t) - 1), t[i].piece = Pieces PROVE t[i + 1] = Flag
    <2>1. i \in 1..Len(t) /\ i + 1 \in 1..Len(t) /\ n + i \in 1..(Len(s) - 1)
          /\ n + (i + 1) = (n + i) + 1
      BY <1>1
    <2>2. t[i] = s[n + i] /\ t[i + 1] = s[(n + i) + 1]
      BY <2>1
    <2> QED
      BY <1>2, <2>1, <2>2 DEF Apart
  <1> QED
    BY <1>2 DEF Apart

\* When requests are followed by flags, no more than one is whole.
LEMMA OneWhole ==
  ASSUME NEW b \in Seq(Symbols), Ascending(b), NEW t \in Seq(Symbols), Apart(b \o t)
  PROVE  /\ Whole(b) \in {0, 1}
         /\ Whole(b) = 0 => Rest(b) = b
         /\ Whole(b) = 1 =>
              /\ Rest(b) # <<>> => Rest(b)[1] = Flag
              /\ Rest(b) = <<>> => Apart(t) /\ (t # <<>> => t[1] = Flag)
  <1> DEFINE u == b \o t
             w == Whole(b)
  <1>1. /\ Len(b) \in Nat /\ Len(t) \in Nat /\ Pieces \in Nat /\ Pieces >= 1
        /\ (t # <<>> => Len(t) # 0)
    BY LenProperties, SizesAssumption, EmptySeq
  <1>2. /\ u \in Seq(Symbols) /\ Len(u) = Len(b) + Len(t)
        /\ \A i \in 1..Len(b) : u[i] = b[i]
        /\ \A i \in 1..Len(t) : u[Len(b) + i] = t[i]
    BY ConcatOrder
  <1>3. /\ w \in Nat /\ w * Pieces \in 0..Len(b)
        /\ \A k \in 1..w : /\ k * Pieces \in 1..Len(b)
                           /\ LastPiece(b, k).piece = Pieces
                           /\ b[(k - 1) * Pieces + 1].piece = 1
    BY WholeRequests
  <1>4. /\ Rest(b) \in Seq(Symbols) /\ Len(Rest(b)) = Len(b) - w * Pieces
        /\ \A i \in 1..Len(Rest(b)) : Rest(b)[i] = b[w * Pieces + i]
        /\ (Rest(b) # <<>> => Len(Rest(b)) # 0) /\ (Rest(b) = <<>> => Len(Rest(b)) = 0)
    BY RequestsInOrder, EmptySeq
  <1> HIDE DEF w
  <1>5. Apart(u)
    OBVIOUS
  <1> HIDE DEF u
  <1>6. w >= 1 => /\ Pieces \in 1..Len(b) /\ u[Pieces].piece = Pieces
                  /\ Len(u) > Pieces => u[Pieces + 1] = Flag
    <2>1. SUFFICES ASSUME w >= 1
                   PROVE  /\ Pieces \in 1..Len(b) /\ u[Pieces].piece = Pieces
                          /\ Len(u) > Pieces => u[Pieces + 1] = Flag
      OBVIOUS
    <2>2. 1 \in 1..w /\ 1 * Pieces = Pieces
      BY <1>1, <1>3, <2>1
    <2>3. Pieces \in 1..Len(b) /\ b[Pieces].piece = Pieces
      BY <1>3, <2>2 DEF LastPiece
    <2>4. u[Pieces].piece = Pieces
      BY <1>2, <2>3
    <2>5. Len(u) > Pieces => Pieces \in 1..(Len(u) - 1)
      BY <1>1, <1>2
    <2> QED
      BY <1>5, <2>3, <2>4, <2>5 DEF Apart
  <1>7. w < 2
    <2>1. SUFFICES ASSUME w >= 2 PROVE FALSE
      BY <1>3
    <2>2. 2 \in 1..w /\ 2 * Pieces = Pieces + Pieces /\ (2 - 1) * Pieces + 1 = Pieces + 1
      BY <1>1, <1>3, <2>1
    <2>3. b[Pieces + 1].piece = 1 /\ Pieces + 1 \in 1..Len(b)
      <3>1. b[(2 - 1) * Pieces + 1].piece = 1 /\ 2 * Pieces \in 1..Len(b)
        BY <1>3, <2>2
      <3> QED
        BY <1>1, <2>2, <3>1
    <2>4. u[Pieces + 1] = Flag /\ u[Pieces + 1] = b[Pieces + 1]
      <3>1. Len(u) > Pieces
        BY <1>1, <1>2, <2>3
      <3>2. w >= 1
        BY <1>3, <2>1
      <3> QED
        BY <1>2, <1>6, <2>3, <3>1, <3>2
    <2> QED
      BY <2>3, <2>4, FlagFields
  <1>8. ASSUME w = 0 PROVE Rest(b) = b
    <2>1. w * Pieces = 0
      BY <1>1, <1>8
    <2> QED
      BY <1>1, <1>4, <2>1, SeqEqual
  <1>9. ASSUME w = 1, Rest(b) # <<>> PROVE Rest(b)[1] = Flag
    <2>1. w * Pieces = Pieces
      BY <1>1, <1>9
    <2>2. Len(b) > Pieces /\ 1 \in 1..Len(Rest(b))
      BY <1>1, <1>3, <1>4, <1>9, <2>1
    <2>3. Rest(b)[1] = b[Pieces + 1] /\ b[Pieces + 1] = u[Pieces + 1]
      BY <1>1, <1>2, <1>4, <2>1, <2>2
    <2> QED
      BY <1>1, <1>2, <1>6, <1>9, <2>2, <2>3
  <1>10. ASSUME w = 1, Rest(b) = <<>> PROVE Apart(t) /\ (t # <<>> => t[1] = Flag)
    <2>1. w * Pieces = Pieces
      BY <1>1, <1>10
    <2>2. Len(b) = Pieces
      BY <1>1, <1>4, <1>10, <2>1
    <2>3. Apart(t)
      BY <1>1, <1>2, <1>5, ApartSuffix
    <2>4. t # <<>> => t[1] = u[Pieces + 1] /\ Len(u) > Pieces
      BY <1>1, <1>2, <2>2
    <2> QED
      BY <1>6, <1>10, <2>3, <2>4
  <1> QED
    BY <1>3, <1>7, <1>8, <1>9, <1>10 DEF w

\* No request begins with a flag, and none is shorter than its pieces.
LEMMA NoneWhole ==
  ASSUME NEW b \in Seq(Symbols), Ascending(b)
  PROVE  /\ b # <<>> /\ b[1] = Flag => Whole(b) = 0
         /\ Len(b) < Pieces => Whole(b) = 0
         /\ Len(b) <= Pieces /\ Whole(b) # 0 => Whole(b) = 1 /\ Len(b) = Pieces /\ Len(Rest(b)) = 0
         /\ Whole(b) = 0 => Rest(b) = b
  <1>1. Len(b) \in Nat /\ Pieces \in Nat /\ Pieces >= 1
    BY LenProperties, SizesAssumption
  <1>2. /\ Whole(b) \in Nat /\ Whole(b) * Pieces \in 0..Len(b)
        /\ \A k \in 1..Whole(b) : b[(k - 1) * Pieces + 1].piece = 1
    BY WholeRequests
  <1>3. /\ Rest(b) \in Seq(Symbols) /\ Len(Rest(b)) = Len(b) - Whole(b) * Pieces
        /\ \A i \in 1..Len(Rest(b)) : Rest(b)[i] = b[Whole(b) * Pieces + i]
    BY RequestsInOrder
  <1>4. ASSUME b[1] = Flag PROVE Whole(b) = 0
    <2>1. SUFFICES ASSUME Whole(b) # 0 PROVE FALSE
      OBVIOUS
    <2>2. 1 \in 1..Whole(b) /\ (1 - 1) * Pieces + 1 = 1
      BY <1>1, <1>2, <2>1
    <2>3. b[1].piece = 1
      BY <1>2, <2>2
    <2> QED
      BY <1>4, <2>3, FlagFields
  <1>5. Whole(b) # 0 => Whole(b) * Pieces >= Pieces
    BY <1>2, Multiples
  <1>6. Whole(b) >= 2 => Whole(b) * Pieces > Pieces
    <2>1. SUFFICES ASSUME Whole(b) >= 2 PROVE Whole(b) * Pieces > Pieces
      OBVIOUS
    <2>2. 1 \in Nat /\ 1 < Whole(b) /\ 1 * Pieces = Pieces
      BY <1>1, <1>2, <2>1
    <2>3. 1 * Pieces < Whole(b) * Pieces
      BY <1>2, <2>2, Multiples
    <2> QED
      BY <1>1, <1>2, <2>2, <2>3
  <1>7. ASSUME Whole(b) = 0 PROVE Rest(b) = b
    <2>1. Whole(b) * Pieces = 0
      BY <1>1, <1>7
    <2> QED
      BY <1>1, <1>3, <2>1, SeqEqual
  <1>8. ASSUME Len(b) <= Pieces, Whole(b) # 0
        PROVE  Whole(b) = 1 /\ Len(b) = Pieces /\ Len(Rest(b)) = 0
    <2>1. Whole(b) * Pieces \in Nat
      BY <1>2
    <2>2. Whole(b) * Pieces = Pieces /\ Len(b) = Pieces
      BY <1>1, <1>2, <1>5, <1>8, <2>1
    <2>3. Whole(b) = 1
      <3>1. ~(Whole(b) >= 2)
        BY <1>1, <1>6, <2>2
      <3> QED
        BY <1>2, <1>8, <3>1
    <2> QED
      BY <1>1, <1>3, <2>2, <2>3
  <1>9. Len(b) < Pieces => Whole(b) = 0
    BY <1>1, <1>2, <1>5
  <1> QED
    BY <1>4, <1>7, <1>8, <1>9

\* What is in ReceiveBuffer and what is still to come.
LEMMA ReceivedLine ==
  ASSUME StreamInv, chunk # <<>>
  PROVE  /\ Received \in Seq(Symbols) /\ Ascending(Received) /\ inflight \in Seq(Symbols)
         /\ Len(buffer) \in Nat /\ Len(chunk) \in Nat /\ Len(inflight) \in Nat /\ Len(chunk) # 0
         /\ Len(Received) = Len(buffer) + Len(chunk) - (IF bound THEN 0 ELSE 1)
         /\ Line \in Seq(Symbols) /\ Line # <<>>
         /\ (bound \/ buffer = <<>>) /\ Apart(Line) => Apart(Received \o inflight)
         /\ bound /\ buffer = <<>> => Received = chunk /\ Line[1] = chunk[1]
  <1>1. /\ buffer \in Seq(Symbols) /\ chunk \in Seq(Symbols) /\ inflight \in Seq(Symbols)
        /\ Len(buffer) \in Nat /\ Len(chunk) \in Nat /\ Len(inflight) \in Nat /\ Len(chunk) # 0
    BY StreamTypes, LenProperties, EmptySeq
  <1>2. Received \in Seq(Symbols) /\ Ascending(Received)
    BY ReceivedInOrder
  <1> DEFINE front == buffer \o chunk
  <1>3. front \in Seq(Symbols) /\ Len(front) = Len(buffer) + Len(chunk)
    BY <1>1, ConcatOrder
  <1>4. /\ Line \in Seq(Symbols) /\ Len(Line) = Len(front) + Len(inflight)
        /\ \A i \in 1..Len(front) : Line[i] = front[i]
        /\ \A i \in 1..Len(inflight) : Line[Len(front) + i] = inflight[i]
    <2>1. Line = front \o inflight
      BY DEF Line
    <2> HIDE DEF front
    <2>2. /\ front \o inflight \in Seq(Symbols)
          /\ Len(front \o inflight) = Len(front) + Len(inflight)
          /\ \A i \in 1..Len(front) : (front \o inflight)[i] = front[i]
          /\ \A i \in 1..Len(inflight) : (front \o inflight)[Len(front) + i] = inflight[i]
      <3>1. front \in Seq(Symbols) /\ inflight \in Seq(Symbols)
        BY <1>1, <1>3
      <3> QED
        BY <3>1, ConcatOrder
    <2> QED
      BY <2>1, <2>2
  <1>5. Line # <<>>
    BY <1>1, <1>3, <1>4, EmptySeq
  <1>6. CASE bound
    <2>1. Received = front
      BY <1>6 DEF Received
    <2>2. Received \o inflight = Line
      BY <2>1 DEF Line
    <2>3. buffer = <<>> => Received = chunk /\ Line[1] = chunk[1]
      <3>1. buffer = <<>> => front = chunk
        BY <1>1, ConcatEmptySeq
      <3>2. 1 \in 1..Len(front)
        BY <1>1, <1>3
      <3> QED
        BY <1>4, <2>1, <3>1, <3>2
    <2> QED
      BY <1>1, <1>2, <1>3, <1>4, <1>5, <1>6, <2>1, <2>2, <2>3
  <1>7. CASE ~bound
    <2>1. /\ Tail(chunk) \in Seq(Symbols) /\ Len(Tail(chunk)) = Len(chunk) - 1
          /\ \A i \in 1..(Len(chunk) - 1) : Tail(chunk)[i] = chunk[i + 1]
      BY <1>1, TailOrder
    <2>2. Received = buffer \o Tail(chunk)
      BY <1>7 DEF Received
    <2>3. Len(Received) = Len(buffer) + Len(chunk) - 1
      BY <1>1, <2>1, <2>2, ConcatOrder
    <2>4. ASSUME buffer = <<>>, Apart(Line) PROVE Apart(Received \o inflight)
      <3> DEFINE t == Received \o inflight
      <3>1. Received = Tail(chunk) /\ front = chunk
        BY <1>1, <2>1, <2>2, <2>4, ConcatEmptySeq
      <3>2. /\ t \in Seq(Symbols) /\ Len(t) = Len(Received) + Len(inflight)
            /\ \A i \in 1..Len(Received) : t[i] = Received[i]
            /\ \A i \in 1..Len(inflight) : t[Len(Received) + i] = inflight[i]
        BY <1>1, <1>2, ConcatOrder
      <3> HIDE DEF t, front
      <3>3. Len(Received) = Len(chunk) - 1
        BY <2>1, <3>1
      <3>4. ASSUME NEW i \in 1..Len(t) PROVE t[i] = Line[1 + i]
        <4>1. CASE i <= Len(chunk) - 1
          <5>1. t[i] = Tail(chunk)[i] /\ Tail(chunk)[i] = chunk[i + 1]
            BY <1>1, <2>1, <3>1, <3>2, <3>3, <4>1
          <5>2. i + 1 \in 1..Len(front) /\ i + 1 = 1 + i
            BY <1>1, <3>1, <4>1
          <5> QED
            BY <1>4, <3>1, <5>1, <5>2
        <4>2. CASE i > Len(chunk) - 1
          <5> DEFINE k == i - (Len(chunk) - 1)
          <5>1. k \in 1..Len(inflight) /\ i = Len(Received) + k /\ 1 + i = Len(front) + k
            BY <1>1, <3>1, <3>2, <3>3, <4>2
          <5> HIDE DEF k
          <5>2. t[i] = inflight[k]
            BY <3>2, <5>1
          <5>3. Line[1 + i] = inflight[k]
            BY <1>4, <5>1
          <5> QED
            BY <5>2, <5>3
        <4> QED
          BY <1>1, <4>1, <4>2
      <3>5. Len(Line) = 1 + Len(t)
        BY <1>1, <1>4, <3>1, <3>2, <3>3
      <3>6. Apart(t)
        BY <1>4, <2>4, <3>2, <3>4, <3>5, ApartSuffix
      <3> QED
        BY <3>6 DEF t
    <2> QED
      BY <1>1, <1>2, <1>4, <1>5, <1>7, <2>3, <2>4
  <1> QED
    BY <1>6, <1>7

\* With a flag for each request: unless what is received begins with a flag, no element
\* that knows of a send receives it, and each request in it is followed by a flag.
LEMMA EachReads ==
  ASSUME StreamInv, FlagEach, status = "open", chunk # <<>>,
         ~(Received # <<>> /\ Received[1] = Flag)
  PROVE  /\ ~(bound /\ sendAsync)
         /\ Apart(Received \o inflight)
  <1> DEFINE b == Received
  <1>1. /\ Len(buffer) \in Nat /\ Len(chunk) \in Nat /\ Line # <<>>
        /\ b \in Seq(Symbols)
        /\ Len(b) = Len(buffer) + Len(chunk) - (IF bound THEN 0 ELSE 1)
        /\ (bound \/ buffer = <<>>) /\ Apart(Line) => Apart(b \o inflight)
        /\ bound /\ buffer = <<>> => b = chunk /\ Line[1] = chunk[1]
    BY ReceivedLine
  <1>2. ~(b # <<>> /\ b[1] = Flag)
    OBVIOUS
  <1>3. ~Misread
    <2>1. SUFFICES ASSUME buffer # <<>>, buffer[1] = Flag PROVE FALSE
      BY DEF Misread
    <2>2. buffer \in Seq(Symbols) /\ Len(buffer) # 0
      BY <2>1, StreamTypes, EmptySeq
    <2> DEFINE c == IF bound THEN chunk ELSE Tail(chunk)
    <2>3. c \in Seq(Symbols)
      BY StreamTypes, TailOrder
    <2>4. b = buffer \o c
      BY DEF b, Received
    <2> HIDE DEF c, b
    <2>5. 1 \in 1..Len(buffer)
      BY <1>1, <2>2
    <2>6. b[1] = buffer[1] /\ Len(b) = Len(buffer) + Len(c) /\ Len(c) \in Nat
      BY <2>2, <2>3, <2>4, <2>5, ConcatOrder, LenProperties
    <2>7. b # <<>>
      BY <1>1, <2>2, <2>6, EmptySeq
    <2> QED
      BY <1>2, <2>1, <2>6, <2>7
  <1> HIDE DEF b
  <1>4. /\ Apart(Line)
        /\ \/ bound /\ ~sendAsync
           \/ buffer = <<>> /\ Line[1] = Flag
    BY <1>1, <1>3 DEF FlagEach
  <1>5. ~(bound /\ sendAsync)
    <2>1. SUFFICES ASSUME bound, sendAsync PROVE FALSE
      OBVIOUS
    <2>2. b = chunk /\ b[1] = Flag
      BY <1>1, <1>4, <2>1
    <2> QED
      BY <1>2, <2>2
  <1>6. Apart(b \o inflight)
    BY <1>1, <1>4, <1>5
  <1> QED
    BY <1>5, <1>6 DEF b

\* Who finds a request finds one, and if it sends the answer nothing else waits.
LEMMA RegularStarts ==
  ASSUME OnceInv, Regular, status = "open", chunk # <<>>, RequestsAt(Received) # <<>>
  PROVE  /\ Whole(Received) = 1
         /\ MustSend => packets = <<>> /\ sending = Idle /\ sendDone = 0
         /\ client.flags = "each" => /\ packets = <<>> /\ ~(bound /\ sendAsync)
                                      /\ ~(bound /\ logined) /\ Apart(Received \o inflight)
         /\ client.flags = "once" => Len(Received) = Pieces
  <1> DEFINE b == Received
             w == Whole(b)
  <1>1. StreamInv /\ SentOnce /\ ReplyInv
    BY DEF OnceInv, ReplyInv
  <1>2. /\ b \in Seq(Symbols) /\ Ascending(b) /\ inflight \in Seq(Symbols)
        /\ Len(buffer) \in Nat /\ Len(chunk) \in Nat /\ Len(inflight) \in Nat /\ Len(chunk) # 0
        /\ Len(b) = Len(buffer) + Len(chunk) - (IF bound THEN 0 ELSE 1)
        /\ Line # <<>>
        /\ (bound \/ buffer = <<>>) /\ Apart(Line) => Apart(b \o inflight)
        /\ bound /\ buffer = <<>> => b = chunk /\ Line[1] = chunk[1]
    BY <1>1, ReceivedLine
  <1>3. /\ Len(RequestsAt(b)) = w /\ w # 0 /\ w \in Nat
    BY <1>2, RequestsInOrder, WholeRequests, EmptySeq
  <1>4. /\ ~(b # <<>> /\ b[1] = Flag) /\ ~(Len(b) < Pieces)
        /\ Len(b) <= Pieces => w = 1 /\ Len(b) = Pieces
    BY <1>2, <1>3, NoneWhole
  <1>5. packets = <<>> => sending = Idle /\ sendDone = 0
    BY <1>1 DEF SentOnce
  <1>6. MustSend => ~(bound /\ sendAsync)
    BY DEF MustSend
  <1> HIDE DEF b, w
  <1>7. CASE client.flags = "each"
    <2>1. FlagEach
      BY <1>7 DEF OnceInv
    <2>4. ~(bound /\ sendAsync) /\ Apart(b \o inflight)
      BY <1>1, <1>4, <2>1, EachReads DEF b
    <2>5. packets = <<>> /\ ~(bound /\ logined)
      BY <2>1, <2>4 DEF FlagEach
    <2>7. w = 1
      BY <1>2, <1>3, <2>4, OneWhole DEF w
    <2> QED
      BY <1>5, <1>7, <2>4, <2>5, <2>7 DEF b, w
  <1>8. CASE client.flags = "once" /\ client.waits
    <2>1. FlagOnce
      BY <1>8 DEF OnceInv
    <2>2. Pieces \in Nat /\ Pieces >= 1
      BY SizesAssumption
    <2>3. Len(b) <= Pieces
      BY <1>2, <2>1, <2>2 DEF FlagOnce, Unread
    <2>4. w = 1 /\ Len(b) = Pieces
      BY <1>4, <2>3
    <2>5. ~(bound /\ sendAsync) => packets = <<>>
      <3>1. SUFFICES ASSUME ~(bound /\ sendAsync), packets # <<>> PROVE FALSE
        OBVIOUS
      <3>2. handled # <<>>
        <4>1. TypeOK /\ packets \in Seq(Packets) /\ packets[1] \in Range(packets)
          BY <1>1, <3>1, ReplyTypes, TailOrder DEF StreamInv
        <4>2. Justified(handled, packets[1])
          BY <1>1, <4>1 DEF ReplyInv, AllJustified, Replies
        <4>3. Len(handled) # 0
          BY <4>2 DEF Justified
        <4> QED
          BY <4>3
      <3>3. Unread <= Pieces /\ (Unread = Pieces => (bound => sendAsync))
        BY <2>1, <3>2 DEF FlagOnce
      <3>4. ~bound
        BY <1>2, <2>4, <3>1, <3>3 DEF Unread
      <3> QED
        BY <1>2, <2>2, <2>4, <3>3, <3>4 DEF Unread
    <2> QED
      BY <1>5, <1>6, <1>8, <2>4, <2>5 DEF b, w
  <1> QED
    BY <1>7, <1>8 DEF Regular

\* HandleRequests without a request, and with one.
LEMMA HandledNone ==
  ASSUME StreamInv, HandleRequests, RequestsAt(Received) = <<>>
  PROVE  /\ Whole(Received) = 0 /\ Rest(Received) = Received
         /\ packets' = packets /\ handled' = handled
         /\ stream' \in {Idle, stream} /\ (logined' <=> bound /\ logined)
         /\ (sendAsync' <=> bound /\ sendAsync) /\ sending' = sending
  <1> DEFINE q == RequestsAt(Received)
  <1>1. /\ chunk # <<>> /\ handled' = handled \o q /\ packets' = packets \o Answers(q)
        /\ stream' = Opened(q) /\ logined' = LoginsAfter(q)
        /\ sending' = IF MustSend THEN FirstPacket(packets') ELSE sending
        /\ sendAsync' = (MustSend \/ (bound /\ sendAsync))
    BY DEF HandleRequests
  <1>2. /\ Received \in Seq(Symbols) /\ Ascending(Received)
        /\ TypeOK /\ handled \in Seq(Requests) /\ packets \in Seq(Packets)
    BY <1>1, ReceivedInOrder, StreamTypes, ReplyTypes DEF StreamInv
  <1>3. q = <<>> /\ q \in Seq(Requests) /\ Len(q) = 0 /\ 1..Len(q) = {} /\ Len(q) = Whole(Received)
    BY <1>2, RequestsInOrder
  <1>4. ~MustSend
    BY <1>3 DEF MustSend
  <1>5. Whole(Received) = 0 /\ Rest(Received) = Received
    BY <1>2, <1>3, NoneWhole
  <1> HIDE DEF q
  <1>6. Answers(q) = <<>>
    <2>1. Answers(q) \in Seq(Packets) /\ Len(Answers(q)) = 0
      BY <1>3, AnswersArePackets
    <2> QED
      BY <2>1, EmptySeq
  <1>7. packets' = packets /\ handled' = handled
    BY <1>1, <1>2, <1>3, <1>6, ConcatEmptySeq
  <1>8. stream' \in {Idle, stream}
    BY <1>1, <1>2, <1>3, OpenedFile
  <1>9. logined' <=> bound /\ logined
    <2>1. DOMAIN q = {}
      BY <1>3, LenProperties
    <2> QED
      BY <1>1, <2>1 DEF LoginsAfter
  <1> QED
    BY <1>1, <1>4, <1>5, <1>7, <1>8, <1>9

LEMMA EachByHandle ==
  ASSUME OnceInv, HandleRequests, client.flags = "each"
  PROVE  FlagEach'
  <1> DEFINE b == Received
             q == RequestsAt(b)
             rest == Rest(b)
  <1>1. /\ status = "open" /\ chunk # <<>> /\ packets' = packets \o Answers(q)
        /\ stream' = Opened(q) /\ buffer' = rest /\ bound' = TRUE /\ chunk' = <<>>
        /\ sendAsync' = (MustSend \/ (bound /\ sendAsync))
        /\ inflight' = inflight
    BY DEF HandleRequests
  <1>2. StreamInv /\ TypeOK /\ FlagEach /\ Regular /\ packets \in Seq(Packets)
    BY ReplyTypes DEF OnceInv, ReplyInv, StreamInv, Regular
  <1>3. b \in Seq(Symbols) /\ Ascending(b) /\ inflight \in Seq(Symbols)
    BY <1>1, <1>2, ReceivedLine
  <1>4. q \in Seq(Requests) /\ Len(q) = Whole(b) /\ rest \in Seq(Symbols)
    BY <1>3, RequestsInOrder
  <1>5. Line' = rest \o inflight
    <2>1. Line' = (rest \o <<>>) \o inflight
      BY <1>1 DEF Line
    <2>2. rest \o <<>> = rest
      BY <1>4, ConcatEmptySeq
    <2> QED
      BY <2>1, <2>2
  <1>6. CASE q = <<>>
    <2>1. /\ rest = b /\ packets' = packets /\ stream' \in {Idle, stream}
          /\ (logined' <=> bound /\ logined) /\ (sendAsync' <=> bound /\ sendAsync)
      BY <1>2, <1>6, HandledNone
    <2>2. /\ stream' = Idle /\ Len(packets') <= 1
          /\ packets' # <<>> => bound' /\ sendAsync'
          /\ bound' /\ logined' => sendAsync'
      BY <1>1, <1>2, <2>1 DEF FlagEach
    <2>3. ASSUME ~Misread' PROVE Apart(Line)' /\ ~sendAsync'
      <3>1. ~(b # <<>> /\ b[1] = Flag)
        BY <1>1, <2>1, <2>3 DEF Misread
      <3>2. ~(bound /\ sendAsync) /\ Apart(b \o inflight)
        BY <1>1, <1>2, <3>1, EachReads
      <3>3. Line' = b \o inflight
        BY <1>5, <2>1
      <3> HIDE DEF b
      <3>4. Apart(Line')
        BY <3>2, <3>3
      <3> QED
        BY <2>1, <3>2, <3>4 DEF Apart
    <2> QED
      BY <1>1, <2>2, <2>3 DEF FlagEach
  <1>7. CASE q # <<>>
    <2>1. /\ Whole(b) = 1 /\ packets = <<>> /\ ~(bound /\ sendAsync) /\ ~(bound /\ logined)
          /\ Apart(b \o inflight)
      BY <1>1, <1>2, <1>7, RegularStarts
    <2>2. sendAsync'
      BY <1>1, <1>7, <2>1 DEF MustSend
    <2>3. Len(packets') = 1
      <3>1. Len(packets') = Len(packets) + Len(q)
        BY <1>1, <1>2, <1>4, AnswersAdded
      <3> QED
        BY <1>4, <2>1, <3>1
    <2>4. stream' = Idle
      <3>1. ASSUME NEW i \in 1..Len(q), Kinds[q[i]] = "download", Granted(q, i) PROVE FALSE
        <4>1. i = 1
          BY <1>4, <2>1
        <4>2. 1..(i - 1) = {}
          BY <4>1
        <4> QED
          BY <2>1, <3>1, <4>2 DEF Granted, Permitted
      <3> QED
        BY <1>1, <1>2, <1>4, <3>1, OpenedFile DEF FlagEach
    <2>5. ASSUME ~Misread'
          PROVE  Apart(Line)' /\ buffer' = <<>> /\ (Line' # <<>> => Line'[1] = Flag)
      <3>1. /\ rest # <<>> => rest[1] = Flag
            /\ rest = <<>> => Apart(inflight) /\ (inflight # <<>> => inflight[1] = Flag)
        BY <1>3, <2>1, OneWhole
      <3>2. rest = <<>>
        BY <1>1, <2>5, <3>1 DEF Misread
      <3>3. Line' = inflight
        <4>1. <<>> \o inflight = inflight
          BY <1>3, ConcatEmptySeq
        <4> QED
          BY <1>5, <3>2, <4>1
      <3>4. Apart(Line')
        BY <3>1, <3>2, <3>3
      <3> QED
        BY <1>1, <3>1, <3>2, <3>3, <3>4 DEF Apart
    <2> QED
      BY <1>1, <2>2, <2>3, <2>4, <2>5 DEF FlagEach
  <1> QED
    BY <1>6, <1>7

LEMMA FlagOnceByHandle ==
  ASSUME OnceInv, HandleRequests, client.flags = "once", client.waits
  PROVE  FlagOnce'
  <1> DEFINE b == Received
             q == RequestsAt(b)
  <1>1. /\ status = "open" /\ chunk # <<>> /\ handled' = handled \o q
        /\ buffer' = Rest(b) /\ bound' = TRUE /\ chunk' = <<>>
        /\ sendAsync' = (MustSend \/ (bound /\ sendAsync))
        /\ inflight' = inflight /\ next' = next
    BY DEF HandleRequests, clientVars
  <1>2. StreamInv /\ FlagOnce /\ Regular /\ handled \in Seq(Requests)
    BY StreamTypes DEF OnceInv, ReplyInv, Regular
  <1>3. /\ b \in Seq(Symbols) /\ Ascending(b)
        /\ Len(buffer) \in Nat /\ Len(chunk) \in Nat /\ Len(inflight) \in Nat /\ Len(chunk) # 0
        /\ Len(b) = Len(buffer) + Len(chunk) - (IF bound THEN 0 ELSE 1)
    BY <1>1, <1>2, ReceivedLine
  <1>4. Pieces \in Nat /\ Pieces >= 1 /\ next # 1
    BY <1>2, <1>3, SizesAssumption DEF FlagOnce, Unread
  <1>5. Unread' = Len(Rest(b)) + Len(inflight)
    <2>1. Len(<<>>) = 0 /\ Len(Rest(b)) \in Nat
      BY <1>3, RequestsInOrder, LenProperties
    <2> QED
      BY <1>1, <1>3, <2>1 DEF Unread
  <1>6. CASE q = <<>>
    <2>1. Rest(b) = b /\ handled' = handled /\ (sendAsync' <=> bound /\ sendAsync)
      BY <1>2, <1>6, HandledNone
    <2>2. Unread' = Unread - (IF bound THEN 0 ELSE 1) /\ Unread \in Nat /\ Unread > 0
      BY <1>3, <1>5, <2>1 DEF Unread
    <2>3. AllHandled' <=> AllHandled
      BY <1>1, <2>1 DEF AllHandled
    <2>4. handled = <<>> => Unread' <= Pieces
      BY <1>1, <1>2, <1>4, <2>2 DEF FlagOnce
    <2>5. handled # <<>> => /\ Unread' <= Pieces /\ ~AllHandled
                            /\ Unread' = Pieces => bound /\ sendAsync
      BY <1>1, <1>2, <1>4, <2>2 DEF FlagOnce
    <2> QED
      BY <1>1, <1>4, <2>1, <2>3, <2>4, <2>5 DEF FlagOnce
  <1>7. CASE q # <<>>
    <2>1. Whole(b) = 1 /\ Len(b) = Pieces
      BY <1>1, <1>2, <1>7, RegularStarts
    <2>2. Len(Rest(b)) = 0
      <3>1. Len(b) <= Pieces /\ Whole(b) # 0
        BY <1>4, <2>1
      <3> QED
        BY <1>3, <3>1, NoneWhole
    <2>3. Unread <= Pieces + (IF bound THEN 0 ELSE 1)
      <3>1. Unread \in Nat
        BY <1>3 DEF Unread
      <3> QED
        BY <1>1, <1>2, <1>4, <3>1 DEF FlagOnce
    <2>4. Unread' = 0
      BY <1>3, <1>4, <1>5, <2>1, <2>2, <2>3 DEF Unread
    <2>5. sendAsync'
      BY <1>1, <1>7 DEF MustSend
    <2>6. handled' # <<>>
      <3>1. q \in Seq(Requests)
        BY <1>3, RequestsInOrder
      <3> HIDE DEF q
      <3> QED
        BY <1>1, <1>2, <1>7, <3>1, ConcatSimplifications
    <2> QED
      BY <1>1, <1>4, <2>4, <2>5, <2>6 DEF FlagOnce
  <1> QED
    BY <1>6, <1>7

LEMMA SentByHandle ==
  ASSUME OnceInv, HandleRequests, Regular
  PROVE  SentOnce'
  <1> DEFINE q == RequestsAt(Received)
             list == packets \o Answers(q)
             n == Len(packets)
  <1>1. /\ status = "open" /\ chunk # <<>> /\ packets' = list
        /\ sending' = IF MustSend THEN Head(list) ELSE sending
        /\ stream' = Opened(q) /\ wire' = wire /\ sendDone' = sendDone
    BY DEF HandleRequests, FirstPacket
  <1>2. ReplyInv /\ StreamInv /\ AllJustified /\ TypeOK /\ SentOnce
    BY DEF OnceInv, ReplyInv, StreamInv
  <1>3. CASE q = <<>>
    <2>1. packets' = packets /\ stream' \in {Idle, stream} /\ sending' = sending
      BY <1>2, <1>3, HandledNone
    <2> QED
      BY <1>1, <1>2, <2>1 DEF SentOnce
  <1>4. CASE q # <<>>
    <2>1. /\ MustSend => packets = <<>> /\ sending = Idle /\ sendDone = 0
          /\ Batch(q)
      BY <1>1, <1>2, <1>4, RegularStarts, BatchFound
    <2>2. /\ packets \in Seq(Packets) /\ n \in Nat /\ Len(q) \in Nat /\ q \in Seq(Requests)
          /\ q # <<>> /\ DOMAIN packets = 1..n
          /\ \A p \in Packets : p.req \in Nat
      BY <1>2, <1>4, <2>1, ReplyTypes, LenProperties DEF Batch
    <2>3. /\ list \in Seq(Packets) /\ Len(list) = n + Len(q) /\ list # <<>>
          /\ \A i \in 1..n : list[i] = packets[i]
          /\ \A k \in 1..Len(q) : list[n + k].req = q[k] /\ list[n + k].part = 0
      BY <1>2, <2>2, AnswersAdded, AnswersArePackets
    <2>4. \A p \in Replies, k \in 1..Len(q) : p.req < q[k]
      BY <1>1, <1>2, <2>1, BatchFollows
    <2>5. MustSend \/ (bound /\ sendAsync)
      BY <1>4 DEF MustSend
    <2> HIDE DEF q, list, n
    <2>6. ASSUME NEW i \in 1..Len(list)
          PROVE  \/ i \in 1..n /\ list[i] = packets[i] /\ packets[i] \in Range(packets)
                 \/ \E k \in 1..Len(q) : i = n + k /\ list[i].req = q[k] /\ list[i].part = 0
      <3>1. CASE i > n
        <4>1. i - n \in 1..Len(q) /\ i = n + (i - n)
          BY <2>2, <2>3, <3>1
        <4> QED
          BY <2>3, <4>1
      <3>2. CASE i <= n
        BY <2>2, <2>3, <3>2, ElementsOfRange DEF n
      <3> QED
        BY <2>2, <3>1, <3>2
    <2>7. DOMAIN list = 1..Len(list) /\ Len(list) \in Nat /\ Len(list) # 0
      BY <2>3, LenProperties, EmptySeq
    <2>8. IsInjective(list)
      <3>1. SUFFICES ASSUME NEW i \in 1..Len(list), NEW j \in 1..Len(list), list[i] = list[j], i < j
                     PROVE  FALSE
        BY <2>7 DEF IsInjective
      <3>2. CASE j \in 1..n /\ list[j] = packets[j]
        <4>1. i \in 1..n /\ list[i] = packets[i]
          BY <2>2, <2>6, <3>1, <3>2
        <4> QED
          BY <1>2, <2>2, <3>1, <3>2, <4>1, SMTT(30) DEF SentOnce, IsInjective
      <3>3. CASE \E l \in 1..Len(q) : j = n + l /\ list[j].req = q[l] /\ list[j].part = 0
        <4>1. PICK l \in 1..Len(q) : j = n + l /\ list[j].req = q[l]
          BY <3>3
        <4>2. CASE i \in 1..n /\ list[i] = packets[i] /\ packets[i] \in Range(packets)
          <5>1. list[i] \in Replies
            BY <4>2 DEF Replies
          <5>2. list[i].req < q[l] /\ list[i].req \in Nat
            BY <1>2, <2>2, <2>4, <5>1, ReplyTypes
          <5> QED
            BY <3>1, <4>1, <5>2
        <4>3. CASE \E k \in 1..Len(q) : i = n + k /\ list[i].req = q[k]
          <5>1. PICK k \in 1..Len(q) : i = n + k /\ list[i].req = q[k]
            BY <4>3
          <5>2. k < l
            BY <2>2, <3>1, <4>1, <5>1
          <5>3. q[k] < q[l] /\ q[k] \in Nat
            <6>1. list[i] \in Packets
              BY <2>3, ElementOfSeq
            <6> QED
              BY <2>1, <2>2, <5>1, <5>2, <6>1 DEF Batch
          <5> QED
            BY <3>1, <4>1, <5>1, <5>3
        <4> QED
          BY <2>6, <4>2, <4>3
      <3> QED
        BY <2>6, <3>2, <3>3
    <2>9. ASSUME NEW i \in 1..Len(list), i >= 2 \/ n = 0 PROVE list[i] \notin Range(wire)
      <3>1. CASE i \in 1..n /\ list[i] = packets[i]
        BY <1>2, <2>2, <2>9, <3>1 DEF SentOnce, n
      <3>2. CASE \E k \in 1..Len(q) : i = n + k /\ list[i].req = q[k]
        <4>1. PICK k \in 1..Len(q) : list[i].req = q[k]
          BY <3>2
        <4>2. ASSUME list[i] \in Range(wire) PROVE FALSE
          <5>1. list[i] \in Replies /\ list[i] \in Packets
            BY <1>2, <4>2, ReplyTypes DEF Replies
          <5>2. list[i].req < q[k] /\ list[i].req \in Nat
            BY <2>2, <2>4, <5>1
          <5> QED
            BY <4>1, <5>2
        <4> QED
          BY <4>2
      <3> QED
        BY <2>6, <3>1, <3>2
    <2>10. sending' # Idle => /\ sendDone' = 0 /\ packets' # <<>>
                              /\ packets'[1] = sending' /\ sending' \notin Range(wire')
      <3>1. 1 \in 1..Len(list)
        BY <2>7
      <3>2. CASE MustSend
        <4>1. n = 0 /\ sendDone = 0
          BY <2>1, <3>2 DEF n
        <4>2. Head(list) = list[1]
          BY <2>3, TailOrder
        <4> QED
          BY <1>1, <2>3, <2>9, <3>1, <3>2, <4>1, <4>2
      <3>3. CASE ~MustSend
        <4>1. SUFFICES ASSUME sending # Idle
                       PROVE  sendDone = 0 /\ list[1] = sending /\ sending \notin Range(wire)
          BY <1>1, <2>3, <3>3
        <4>2. sendDone = 0 /\ packets # <<>> /\ packets[1] = sending /\ sending \notin Range(wire)
          BY <1>2, <4>1 DEF SentOnce
        <4>3. 1 \in 1..n
          BY <2>2, <4>2, EmptySeq DEF n
        <4> QED
          BY <2>3, <4>2, <4>3
      <3> QED
        BY <3>2, <3>3
    <2>11. sendDone' # 0 => sendDone' = 1 /\ packets' # <<>>
      BY <1>1, <1>2, <2>3 DEF SentOnce
    <2>12. stream' # Idle => stream' \notin Range(wire') \cup Range(packets')
      <3>1. SUFFICES ASSUME stream' # Idle, stream' \in Range(wire) \cup Range(list) PROVE FALSE
        BY <1>1
      <3>2. stream' \in Range(wire) \/ \E i \in 1..Len(list) : stream' = list[i]
        BY <2>3, <3>1, ElementsOfRange
      <3>3. CASE \E k \in 1..Len(q) : stream' = Part(q[k], 1)
        <4>1. PICK k \in 1..Len(q) : stream' = Part(q[k], 1)
          BY <3>3
        <4>2. stream'.req = q[k] /\ stream'.part = 1
          BY <4>1 DEF Part
        <4>3. stream' \notin Replies
          <5>1. SUFFICES ASSUME stream' \in Replies PROVE FALSE
            OBVIOUS
          <5>2. stream' \in Packets /\ stream'.req < q[k]
            BY <1>2, <2>4, <5>1, ReplyTypes
          <5>3. stream'.req \in Nat
            BY <2>2, <5>2
          <5> QED
            BY <4>2, <5>2, <5>3
        <4> QED
          BY <2>6, <3>2, <4>2, <4>3 DEF Replies
      <3>4. CASE stream' = stream /\ stream # Idle
        <4>1. stream \in Replies /\ stream \in Packets
          BY <1>2, <3>4, ReplyTypes DEF Replies, File
        <4>2. stream \notin Range(wire) \cup Range(packets)
          BY <1>2, <3>4 DEF SentOnce
        <4>3. PICK i \in 1..Len(list) : stream = list[i]
          BY <3>2, <3>4, <4>2
        <4>4. PICK k \in 1..Len(q) : stream.req = q[k]
          BY <2>6, <4>2, <4>3
        <4>5. stream.req < q[k] /\ stream.req \in Nat
          BY <2>2, <2>4, <4>1
        <4> QED
          BY <4>4, <4>5
      <3> QED
        BY <1>1, <1>2, <2>2, <3>1, <3>3, <3>4, OpenedFile
    <2>13. \A i \in 2..Len(packets') : packets'[i] \notin Range(wire')
      <3>1. \A i \in 2..Len(list) : i \in 1..Len(list) /\ i >= 2
        BY <2>7
      <3> QED
        BY <1>1, <2>9, <3>1
    <2> QED
      BY <1>1, <1>2, <2>8, <2>10, <2>11, <2>12, <2>13 DEF SentOnce, IsInjective
  <1> QED
    BY <1>3, <1>4

\* Without a request on the way and without an element, a request and its flag are sent;
\* after that a request that has been waited for.
LEMMA OnceByClient ==
  ASSUME OnceInv, ReplyInv', ClientSends
  PROVE  OnceInv'
  <1> DEFINE message == [i \in 1..Pieces |-> [req |-> next, piece |-> i]]
  <1>1. /\ next \in Requests /\ next' = next + 1
        /\ client.waits => \A r \in 1..(next - 1) : Answered(r)
        /\ client.flags = "each" => inflight' = inflight \o <<Flag>> \o message
        /\ client.flags = "once" =>
             inflight' = inflight \o (IF next = 1 THEN <<Flag>> ELSE <<>>) \o message
    BY DEF ClientSends
  <1>2. UNCHANGED <<client, buffer, chunk, handled, bound, logined, sendAsync, stream,
                    packets, sending, sendDone, wire, status>>
    BY DEF ClientSends, receiveVars, elementVars, sendVars
  <1>3. /\ ReplyInv /\ StreamInv
        /\ buffer \in Seq(Symbols) /\ chunk \in Seq(Symbols) /\ inflight \in Seq(Symbols)
        /\ next \in Nat /\ Len(handled) \in Nat /\ DOMAIN handled = 1..Len(handled)
        /\ \A i \in DOMAIN handled : handled[i] \in Nat /\ handled[i] >= 1 /\ handled[i] < next
    BY StreamTypes DEF OnceInv, ReplyInv, StreamInv, SentBefore, Requests
  <1>4. Pieces \in Nat /\ Pieces >= 1 /\ Flag \in Symbols
    BY SizesAssumption DEF Symbols
  <1>5. /\ message \in Seq(Symbols) /\ Len(message) = Pieces
        /\ \A i \in 1..Pieces : message[i].piece = i
    <2>1. \A i \in 1..Pieces : [req |-> next, piece |-> i] \in Symbols
      BY <1>1 DEF Symbols
    <2> QED
      BY <1>4, <2>1
  <1> HIDE DEF message
  <1>6. SentOnce \/ ~Regular
    BY DEF OnceInv
  <1>7. Regular' => SentOnce'
    BY <1>2, <1>6 DEF Regular, SentOnce, IsInjective
  <1>8. ASSUME client.flags = "each" PROVE FlagEach'
    <2> DEFINE m == <<Flag>> \o message
               front == buffer \o chunk
    <2>1. FlagEach
      BY <1>8 DEF OnceInv
    <2>2. <<Flag>> \in Seq(Symbols) /\ Len(<<Flag>>) = 1 /\ <<Flag>>[1] = Flag
      BY <1>4
    <2>3. /\ m \in Seq(Symbols) /\ Len(m) = Pieces + 1 /\ m[1] = Flag
          /\ \A i \in 1..Pieces : m[i + 1].piece = i
      <3> DEFINE f == <<Flag>>
      <3>0. f \in Seq(Symbols) /\ Len(f) = 1 /\ f[1] = Flag
        BY <2>2
      <3> HIDE DEF f
      <3>1. /\ f \o message \in Seq(Symbols) /\ Len(f \o message) = 1 + Pieces
            /\ \A i \in 1..1 : (f \o message)[i] = f[i]
            /\ \A i \in 1..Pieces : (f \o message)[1 + i] = message[i]
        <4>1. f \in Seq(Symbols) /\ message \in Seq(Symbols)
          BY <1>5, <3>0
        <4>2. /\ f \o message \in Seq(Symbols) /\ Len(f \o message) = Len(f) + Len(message)
              /\ \A i \in 1..Len(f) : (f \o message)[i] = f[i]
              /\ \A i \in 1..Len(message) : (f \o message)[Len(f) + i] = message[i]
          BY <4>1, ConcatOrder
        <4> QED
          BY <1>5, <3>0, <4>2
      <3>2. (f \o message)[1] = Flag
        BY <3>0, <3>1
      <3>3. ASSUME NEW i \in 1..Pieces PROVE (f \o message)[i + 1].piece = i
        <4>1. 1 + i = i + 1
          BY <1>4
        <4> QED
          BY <1>5, <3>1, <4>1
      <3>4. 1 + Pieces = Pieces + 1
        BY <1>4
      <3> QED
        BY <3>1, <3>2, <3>3, <3>4 DEF f
    <2>4. Line \in Seq(Symbols) /\ Line' = Line \o m /\ Len(Line) \in Nat
      <3>1. front \in Seq(Symbols)
        BY <1>3, ConcatProperties
      <3>2. Line = front \o inflight
        BY DEF Line
      <3>3. inflight' = inflight \o m
        <4> DEFINE f == <<Flag>>
        <4>1. inflight \in Seq(Symbols) /\ f \in Seq(Symbols) /\ message \in Seq(Symbols)
          BY <1>3, <1>5, <2>2
        <4>2. inflight' = (inflight \o f) \o message
          BY <1>1, <1>8
        <4> HIDE DEF f
        <4>3. (inflight \o f) \o message = inflight \o (f \o message)
          BY <4>1, ConcatAssociative
        <4> QED
          BY <4>2, <4>3 DEF f
      <3>4. Line' = front \o inflight'
        BY <1>2 DEF Line
      <3> HIDE DEF m, front
      <3>5. front \o (inflight \o m) = (front \o inflight) \o m
        <4>1. front \in Seq(Symbols) /\ inflight \in Seq(Symbols) /\ m \in Seq(Symbols)
          BY <1>3, <2>3, <3>1
        <4> QED
          BY <4>1, ConcatAssociative
      <3>6. front \o inflight \in Seq(Symbols)
        BY <1>3, <3>1, ConcatProperties
      <3> QED
        BY <3>2, <3>3, <3>4, <3>5, <3>6, LenProperties
    <2> HIDE DEF m
    <2>5. /\ Len(Line \o m) = Len(Line) + Len(m)
          /\ \A i \in 1..Len(Line) : (Line \o m)[i] = Line[i]
          /\ \A i \in 1..Len(m) : (Line \o m)[Len(Line) + i] = m[i]
      <3>1. Line \in Seq(Symbols) /\ m \in Seq(Symbols)
        BY <2>3, <2>4
      <3> QED
        BY <3>1, ConcatOrder
    <2>6. ASSUME Apart(Line) PROVE Apart(Line')
      <3>1. SUFFICES ASSUME NEW i \in 1..(Len(Line') - 1), Line'[i].piece = Pieces
                     PROVE  Line'[i + 1] = Flag
        BY DEF Apart
      <3>2. CASE i < Len(Line)
        <4>1. i \in 1..(Len(Line) - 1) /\ i \in 1..Len(Line) /\ i + 1 \in 1..Len(Line)
          BY <1>4, <2>3, <2>4, <2>5, <3>1, <3>2
        <4>2. Line'[i] = Line[i] /\ Line'[i + 1] = Line[i + 1]
          BY <2>4, <2>5, <4>1
        <4> QED
          BY <2>6, <3>1, <4>1, <4>2 DEF Apart
      <3>3. CASE i = Len(Line)
        <4>1. 1 \in 1..Len(m)
          BY <1>4, <2>3
        <4> QED
          BY <2>3, <2>4, <2>5, <3>3, <4>1
      <3>4. CASE i > Len(Line)
        <4> DEFINE k == i - Len(Line)
        <4>1. k \in 1..Pieces /\ k \in 1..Len(m) /\ i = Len(Line) + k
          BY <1>4, <2>3, <2>4, <2>5, <3>1, <3>4
        <4> HIDE DEF k
        <4>2. Line'[i] = m[k]
          BY <2>4, <2>5, <4>1
        <4>3. k = 1 \/ (k - 1 \in 1..Pieces /\ k = (k - 1) + 1)
          BY <1>4, <4>1
        <4>4. m[k].piece < Pieces
          <5>1. CASE k = 1
            BY <1>4, <2>3, <5>1, FlagFields
          <5>2. CASE k - 1 \in 1..Pieces /\ k = (k - 1) + 1
            <6>1. m[k].piece = k - 1
              BY <2>3, <5>2
            <6> QED
              BY <1>4, <4>1, <6>1
          <5> QED
            BY <4>3, <5>1, <5>2
        <4> QED
          BY <1>4, <3>1, <4>2, <4>4
      <3> QED
        BY <2>4, <3>2, <3>3, <3>4
    <2>7. ASSUME Line # <<>> => Line[1] = Flag PROVE Line'[1] = Flag
      <3>1. CASE Line = <<>>
        <4>1. Len(Line) = 0 /\ 1 \in 1..Len(m)
          BY <1>4, <2>3, <3>1
        <4>2. (Line \o m)[Len(Line) + 1] = m[1] /\ Len(Line) + 1 = 1
          BY <2>5, <4>1
        <4> QED
          BY <2>3, <2>4, <4>2
      <3>2. CASE Line # <<>>
        <4>1. 1 \in 1..Len(Line)
          BY <2>4, <3>2, EmptySeq
        <4> QED
          BY <2>4, <2>5, <2>7, <3>2, <4>1
      <3> QED
        BY <3>1, <3>2
    <2>8. ASSUME status = "open", ~Misread
          PROVE  /\ Apart(Line')
                 /\ \/ bound /\ ~sendAsync
                    \/ buffer = <<>> /\ Line'[1] = Flag
      BY <2>1, <2>6, <2>7, <2>8 DEF FlagEach
    <2>9. Misread' <=> Misread
      BY <1>2 DEF Misread
    <2>10. Apart(Line') => Apart(Line)'
      BY DEF Apart
    <2> QED
      BY <1>2, <2>1, <2>8, <2>9, <2>10 DEF FlagEach
  <1>9. ASSUME client.flags = "once", client.waits PROVE FlagOnce'
    <2> DEFINE f == IF next = 1 THEN <<Flag>> ELSE <<>>
    <2>1. FlagOnce
      BY <1>9 DEF OnceInv
    <2>2. f \in Seq(Symbols) /\ Len(f) = (IF next = 1 THEN 1 ELSE 0)
      BY <1>4
    <2> HIDE DEF f
    <2>3. inflight' = (inflight \o f) \o message
      BY <1>1, <1>9 DEF f
    <2>4. inflight \o f \in Seq(Symbols) /\ Len(inflight \o f) = Len(inflight) + Len(f)
      BY <1>3, <2>2, ConcatProperties
    <2>5. Len(inflight') = Len(inflight) + (IF next = 1 THEN 1 ELSE 0) + Pieces
      <3> DEFINE front == inflight \o f
      <3>1. front \in Seq(Symbols) /\ message \in Seq(Symbols)
        BY <1>5, <2>4
      <3>2. inflight' = front \o message /\ Len(front) = Len(inflight) + Len(f)
        BY <2>3, <2>4
      <3> HIDE DEF front
      <3>3. Len(front \o message) = Len(front) + Len(message)
        BY <3>1, ConcatProperties
      <3> QED
        BY <1>5, <2>2, <3>2, <3>3
    <2>6. Unread' = Unread + (IF next = 1 THEN 1 ELSE 0) + Pieces /\ Unread \in Nat
      <3>1. Len(buffer) \in Nat /\ Len(chunk) \in Nat /\ Len(inflight) \in Nat
        BY <1>3, LenProperties
      <3> QED
        <4>1. Unread' = Len(buffer) + Len(chunk) + Len(inflight')
          BY <1>2 DEF Unread
        <4>2. CASE next = 1
          BY <1>4, <2>5, <3>1, <4>1, <4>2 DEF Unread
        <4>3. CASE next # 1
          BY <1>4, <2>5, <3>1, <4>1, <4>3 DEF Unread
        <4> QED
          BY <4>2, <4>3
    <2>7. next' # 1
      BY <1>1, <1>3 DEF Requests
    <2>8. CASE next = 1
      <3>1. Unread' = Pieces + 1 /\ ~bound
        BY <1>4, <2>1, <2>6, <2>8 DEF FlagOnce
      <3>2. handled = <<>>
        <4>1. SUFFICES ASSUME handled # <<>> PROVE FALSE
          OBVIOUS
        <4>2. handled \in Seq(Requests)
          BY <1>3, StreamTypes
        <4>3. 1 \in DOMAIN handled
          BY <1>3, <4>1, <4>2, EmptySeq
        <4>4. handled[1] >= 1 /\ handled[1] < 1 /\ handled[1] \in Nat
          BY <1>3, <2>8, <4>3
        <4> QED
          BY <4>4
      <3> QED
        BY <1>2, <1>4, <2>7, <3>1, <3>2 DEF FlagOnce
    <2>9. CASE next # 1
      <3>1. next - 1 \in 1..(next - 1)
        BY <1>1, <1>3, <2>9 DEF Requests
      <3>2. PICK p \in Range(wire) : p.req = next - 1
        BY <1>1, <1>9, <3>1 DEF Answered
      <3>3. Justified(handled, p)
        BY <1>3, <3>2 DEF ReplyInv, AllJustified, Replies
      <3>4. PICK k \in DOMAIN handled : handled[k] = next - 1
        BY <1>3, <3>2, <3>3 DEF Justified
      <3>5. AllHandled /\ handled # <<>>
        <4>1. Len(handled) # 0
          BY <1>3, <3>4
        <4> QED
          BY <3>4, <4>1 DEF AllHandled
      <3>6. status = "open" => Unread' = Pieces /\ (bound => sendAsync)
        BY <1>4, <2>1, <2>6, <2>9, <3>5 DEF FlagOnce
      <3>7. ~AllHandled'
        <4>1. \A i \in DOMAIN handled : handled[i] # next' - 1
          BY <1>1, <1>3
        <4> QED
          BY <1>2, <4>1 DEF AllHandled
      <3> QED
        BY <1>2, <1>4, <2>7, <3>5, <3>6, <3>7 DEF FlagOnce
    <2> QED
      BY <2>8, <2>9
  <1> QED
    BY <1>2, <1>7, <1>8, <1>9 DEF OnceInv

\* A chunk is cut off: the line and its length stay.
LEMMA OnceByReceive ==
  ASSUME OnceInv, ReplyInv', ReceiveCompletes
  PROVE  OnceInv'
  <1>1. PICK n \in 1..Len(inflight) : /\ chunk' = SubSeq(inflight, 1, n)
                                      /\ inflight' = SubSeq(inflight, n + 1, Len(inflight))
    BY DEF ReceiveCompletes
  <1>2. /\ chunk = <<>>
        /\ UNCHANGED <<client, next, buffer, handled, bound, logined, sendAsync, stream,
                       packets, sending, sendDone, wire, status>>
    BY DEF ReceiveCompletes, clientVars, elementVars, sendVars
  <1>3. /\ buffer \in Seq(Symbols) /\ inflight \in Seq(Symbols) /\ Len(inflight) \in Nat
        /\ chunk' \in Seq(Symbols) /\ inflight' \in Seq(Symbols) /\ Len(buffer) \in Nat
    <2>1. StreamInv /\ StreamInv'
      BY DEF OnceInv, ReplyInv
    <2>2. chunk' \in Seq(Symbols) /\ inflight' \in Seq(Symbols)
      BY <2>1 DEF StreamInv, TypeOK
    <2> QED
      BY <2>1, <2>2, StreamTypes, LenProperties
  <1>4. chunk' \o inflight' = inflight /\ Len(chunk') + Len(inflight') = Len(inflight)
    <2>1. /\ 1 \in 1..(Len(inflight) + 1) /\ n \in (1 - 1)..Len(inflight)
          /\ n + 1 \in 1..(Len(inflight) + 1) /\ Len(inflight) \in ((n + 1) - 1)..Len(inflight)
          /\ n \in Nat /\ n <= Len(inflight) /\ n - 1 + 1 = n /\ Len(inflight) - (n + 1) + 1 = Len(inflight) - n
          /\ \A i \in 1..n : 1 + i - 1 = i
          /\ \A i \in 1..(Len(inflight) - n) : n + 1 + i - 1 = n + i
      BY <1>3
    <2> DEFINE s == SubSeq(inflight, 1, n)
               t == SubSeq(inflight, n + 1, Len(inflight))
    <2>2. s \in Seq(Symbols) /\ Len(s) = n /\ \A i \in 1..n : s[i] = inflight[i]
      BY <1>3, <2>1, SubSeqOrder
    <2>3. /\ t \in Seq(Symbols) /\ Len(t) = Len(inflight) - n
          /\ \A i \in 1..(Len(inflight) - n) : t[i] = inflight[n + i]
      <3> DEFINE m == n + 1
                 l == Len(inflight)
      <3>1. inflight \in Seq(Symbols) /\ m \in 1..(l + 1) /\ l \in (m - 1)..l
        BY <1>3, <2>1
      <3>2. t = SubSeq(inflight, m, l)
        OBVIOUS
      <3> HIDE DEF m, t
      <3>3. /\ t \in Seq(Symbols) /\ Len(t) = l - m + 1
            /\ \A i \in 1..(l - m + 1) : t[i] = inflight[m + i - 1]
        BY <3>1, <3>2, SubSeqOrder
      <3>4. l - m + 1 = l - n /\ \A i \in 1..(l - n) : m + i - 1 = n + i
        BY <1>3, <2>1 DEF m
      <3> QED
        BY <3>3, <3>4
    <2> HIDE DEF s, t
    <2>4. /\ s \o t \in Seq(Symbols) /\ Len(s \o t) = Len(s) + Len(t)
          /\ \A i \in 1..Len(s) : (s \o t)[i] = s[i]
          /\ \A i \in 1..Len(t) : (s \o t)[Len(s) + i] = t[i]
      <3>1. s \in Seq(Symbols) /\ t \in Seq(Symbols)
        BY <2>2, <2>3
      <3> QED
        BY <3>1, ConcatOrder
    <2>5. ASSUME NEW i \in 1..Len(inflight) PROVE (s \o t)[i] = inflight[i]
      <3>1. CASE i <= n
        BY <2>2, <2>4, <3>1
      <3>2. CASE i > n
        <4>1. i - n \in 1..(Len(inflight) - n) /\ i = n + (i - n)
          BY <1>3, <3>2
        <4>2. (s \o t)[n + (i - n)] = t[i - n] /\ t[i - n] = inflight[n + (i - n)]
          BY <2>2, <2>3, <2>4, <4>1
        <4> QED
          BY <4>1, <4>2
      <3>3. i <= n \/ i > n
        BY <2>1
      <3> QED
        BY <3>1, <3>2, <3>3
    <2>6. Len(s \o t) = Len(inflight) /\ Len(s) + Len(t) = Len(inflight)
      BY <1>3, <2>2, <2>3, <2>4
    <2>7. s \o t = inflight
      BY <1>3, <2>4, <2>5, <2>6, SeqEqual
    <2> QED
      BY <1>1, <2>6, <2>7 DEF s, t
  <1>5. Line' = Line
    <2>1. Line' = (buffer \o chunk') \o inflight'
      BY <1>2 DEF Line
    <2>2. (buffer \o chunk') \o inflight' = buffer \o (chunk' \o inflight')
      BY <1>3, ConcatAssociative, SMTT(30)
    <2>3. buffer \o <<>> = buffer
      BY <1>3, ConcatEmptySeq
    <2>4. Line = buffer \o inflight
      BY <1>2, <2>3 DEF Line
    <2> QED
      BY <1>4, <2>1, <2>2, <2>4
  <1>6. Unread' = Unread
    <2>1. Len(chunk') \in Nat /\ Len(inflight') \in Nat /\ Len(chunk) = 0
      BY <1>2, <1>3, LenProperties
    <2> QED
      <3>1. Unread' = Len(buffer) + Len(chunk') + Len(inflight')
        BY <1>2 DEF Unread
      <3>2. Unread = Len(buffer) + 0 + Len(inflight)
        BY <2>1 DEF Unread
      <3>3. Len(chunk') + Len(inflight') = Len(inflight)
        BY <1>4
      <3> QED
        BY <1>3, <2>1, <3>1, <3>2, <3>3
  <1>7. ASSUME FlagEach PROVE FlagEach'
    <2>1. (Misread' <=> Misread) /\ (Apart(Line)' <=> Apart(Line))
      BY <1>2, <1>5 DEF Misread, Apart
    <2> QED
      BY <1>2, <1>5, <1>7, <2>1 DEF FlagEach
  <1>8. FlagOnce => FlagOnce'
    BY <1>2, <1>6 DEF FlagOnce, AllHandled
  <1>9. SentOnce => SentOnce'
    BY <1>2 DEF SentOnce, IsInjective
  <1> QED
    BY <1>2, <1>7, <1>8, <1>9 DEF OnceInv, Regular

\* The packet that leaves was the first, and none of the others is the same.
LEMMA OnceBySend ==
  ASSUME OnceInv, ReplyInv', SendCompletes
  PROVE  OnceInv'
  <1>1. /\ sending # Idle /\ wire' = Append(wire, sending) /\ sending' = Idle
        /\ sendDone' = sendDone + 1
        /\ UNCHANGED <<client, next, inflight, chunk, buffer, handled, bound, logined,
                       sendAsync, stream, packets, status>>
    BY DEF SendCompletes, clientVars, receiveVars, elementVars
  <1>2. /\ TypeOK /\ wire \in Seq(Packets) /\ Len(wire) \in Nat /\ sending \in Packets
        /\ packets \in Seq(Packets) /\ Len(packets) \in Nat /\ DOMAIN packets = 1..Len(packets)
        /\ DOMAIN wire = 1..Len(wire)
    BY <1>1, ReplyTypes DEF OnceInv, ReplyInv, StreamInv, TypeOK
  <1>3. /\ wire' \in Seq(Packets) /\ Len(wire') = Len(wire) + 1
        /\ \A i \in 1..Len(wire) : wire'[i] = wire[i]
        /\ wire'[Len(wire) + 1] = sending
    BY <1>1, <1>2, AppendProperties
  <1>4. ASSUME NEW i \in 1..Len(wire')
        PROVE  \/ i \in 1..Len(wire) /\ wire'[i] = wire[i] /\ wire'[i] \in Range(wire)
               \/ i = Len(wire) + 1 /\ wire'[i] = sending
    BY <1>2, <1>3, ElementsOfRange
  <1>5. \A p \in Range(wire') : p \in Range(wire) \/ p = sending
    BY <1>3, <1>4, ElementsOfRange
  <1>6. DOMAIN wire' = 1..Len(wire')
    BY <1>3, LenProperties
  <1>7. ASSUME SentOnce PROVE SentOnce'
    <2>1. /\ sendDone = 0 /\ packets # <<>> /\ packets[1] = sending /\ sending \notin Range(wire)
          /\ 1 \in 1..Len(packets)
      BY <1>1, <1>2, <1>7, EmptySeq DEF SentOnce
    <2>2. IsInjective(wire')
      <3>1. SUFFICES ASSUME NEW i \in 1..Len(wire'), NEW j \in 1..Len(wire'), wire'[i] = wire'[j]
                     PROVE  i = j
        BY <1>6 DEF IsInjective
      <3> QED
        BY <1>2, <1>4, <1>7, <2>1, <3>1 DEF SentOnce, IsInjective
    <2>3. ASSUME NEW i \in 2..Len(packets) PROVE packets[i] \notin Range(wire')
      <3>1. packets[i] \notin Range(wire)
        BY <1>7 DEF SentOnce
      <3>2. i \in 1..Len(packets) /\ i # 1
        BY <1>2
      <3>3. packets[i] # packets[1]
        BY <1>2, <1>7, <2>1, <3>2 DEF SentOnce, IsInjective
      <3> QED
        BY <1>5, <2>1, <3>1, <3>3
    <2>4. sending \in Range(packets)
      BY <1>2, <2>1, ElementsOfRange
    <2>5. stream # Idle => stream \notin Range(wire') \cup Range(packets)
      BY <1>5, <1>7, <2>4 DEF SentOnce
    <2>6. IsInjective(packets)
      BY <1>7 DEF SentOnce
    <2> QED
      BY <1>1, <2>1, <2>2, <2>3, <2>5, <2>6 DEF SentOnce, IsInjective
  <1>8. FlagEach => FlagEach'
    <2>1. Line' = Line /\ (Misread' <=> Misread)
      BY <1>1 DEF Line, Misread
    <2>2. Apart(Line)' <=> Apart(Line)
      BY <2>1 DEF Apart
    <2> QED
      BY <1>1, <2>1, <2>2 DEF FlagEach
  <1>9. FlagOnce => FlagOnce'
    BY <1>1 DEF FlagOnce, Unread, AllHandled
  <1> QED
    BY <1>1, <1>7, <1>8, <1>9 DEF OnceInv, Regular

\* The next packet has not been sent; the element that knew of the send goes with it.
LEMMA OnceBySent ==
  ASSUME OnceInv, ReplyInv', HandleSent
  PROVE  OnceInv'
  <1>1. /\ sendDone > 0 /\ bound /\ packets' = Remaining
        /\ sending' = IF Remaining = <<>> THEN sending ELSE Head(Remaining)
        /\ bound' = FALSE /\ logined' = FALSE /\ sendAsync' = FALSE /\ stream' = Idle
        /\ sendDone' = sendDone - 1
        /\ UNCHANGED <<client, next, inflight, chunk, buffer, handled, wire, status>>
    BY DEF HandleSent, FirstPacket, clientVars, receiveVars
  <1>2. /\ TypeOK /\ packets \in Seq(Packets) /\ Len(packets) \in Nat
        /\ DOMAIN packets = 1..Len(packets) /\ Remaining \in Seq(Packets)
        /\ sendDone \in Nat
    BY ReplyTypes, RemainingType DEF OnceInv, ReplyInv, StreamInv, TypeOK
  <1>3. ASSUME SentOnce
        PROVE  SentOnce' /\ packets # <<>>
    <2>1. sendDone = 1 /\ packets # <<>> /\ sending = Idle
      BY <1>1, <1>2, <1>3 DEF SentOnce
    <2>2. /\ Cleared = Tail(packets) /\ Cleared \in Seq(Packets)
          /\ Len(Cleared) = Len(packets) - 1
          /\ \A i \in 1..(Len(packets) - 1) : Cleared[i] = packets[i + 1]
          /\ DOMAIN Cleared = 1..Len(Cleared)
      BY <1>2, <2>1, TailOrder, LenProperties DEF Cleared
    <2>3. ASSUME NEW i \in 1..Len(Cleared) PROVE Cleared[i] \notin Range(wire)
      <3>1. i + 1 \in 2..Len(packets) /\ Cleared[i] = packets[i + 1]
        BY <1>2, <2>2
      <3> QED
        BY <1>3, <3>1 DEF SentOnce
    <2>4. IsInjective(Cleared)
      <3>1. SUFFICES ASSUME NEW i \in 1..Len(Cleared), NEW j \in 1..Len(Cleared),
                            Cleared[i] = Cleared[j]
                     PROVE  i = j
        BY <2>2 DEF IsInjective
      <3>2. i + 1 \in DOMAIN packets /\ j + 1 \in DOMAIN packets /\ packets[i + 1] = packets[j + 1]
        BY <1>2, <2>2, <3>1
      <3>3. i + 1 = j + 1
        BY <1>3, <3>2 DEF SentOnce, IsInjective
      <3> QED
        BY <1>2, <2>2, <3>1, <3>3
    <2>5. /\ IsInjective(Remaining)
          /\ \A i \in 1..Len(Remaining) : Remaining[i] \notin Range(wire)
      <3>1. CASE Cleared = <<>> /\ stream # Idle
        <4>1. Remaining = <<stream>>
          BY <3>1 DEF Remaining
        <4>2. Len(Remaining) = 1 /\ Remaining[1] = stream /\ DOMAIN Remaining = {1}
          BY <4>1
        <4> QED
          BY <1>3, <3>1, <4>2 DEF SentOnce, IsInjective
      <3>2. CASE ~(Cleared = <<>> /\ stream # Idle)
        BY <2>3, <2>4, <3>2 DEF Remaining
      <3> QED
        BY <3>1, <3>2
    <2>6. ASSUME Remaining # <<>>
          PROVE  Head(Remaining) = Remaining[1] /\ 1 \in 1..Len(Remaining)
      BY <1>2, <2>6, TailOrder, EmptySeq, LenProperties
    <2>7. /\ sending' # Idle => /\ packets' # <<>> /\ packets'[1] = sending'
                                /\ sending' \notin Range(wire')
          /\ sendDone' = 0
      BY <1>1, <2>1, <2>5, <2>6
    <2>8. \A i \in 2..Len(packets') : packets'[i] \notin Range(wire')
      <3>1. Len(Remaining) \in Nat
        BY <1>2, LenProperties
      <3>2. \A i \in 2..Len(Remaining) : i \in 1..Len(Remaining)
        BY <3>1
      <3> QED
        BY <1>1, <2>5, <3>2
    <2> QED
      BY <1>1, <1>3, <2>1, <2>5, <2>7, <2>8 DEF SentOnce, IsInjective
  <1>4. ASSUME FlagEach, SentOnce PROVE FlagEach'
    <2>1. packets # <<>> /\ Len(packets) = 1 /\ sendAsync /\ stream = Idle
      BY <1>2, <1>3, <1>4, EmptySeq DEF FlagEach
    <2>2. Remaining = <<>>
      <3>1. Len(Cleared) = 0 /\ Cleared \in Seq(Packets)
        BY <1>2, <2>1, TailOrder DEF Cleared
      <3> QED
        BY <2>1, <3>1, EmptySeq DEF Remaining
    <2>3. Line' = Line /\ (Misread' <=> Misread)
      BY <1>1 DEF Line, Misread
    <2>4. Apart(Line)' <=> Apart(Line)
      BY <2>3 DEF Apart
    <2>5. Len(<<>>) = 0
      OBVIOUS
    <2> QED
      BY <1>1, <1>4, <2>1, <2>2, <2>3, <2>4, <2>5 DEF FlagEach
  <1>5. ASSUME FlagOnce PROVE FlagOnce'
    <2>1. Unread' = Unread /\ (AllHandled' <=> AllHandled)
      BY <1>1 DEF Unread, AllHandled
    <2>2. Pieces \in Nat /\ Unread \in Nat
      <3>1. StreamInv
        BY DEF OnceInv, ReplyInv
      <3> QED
        BY <3>1, SizesAssumption, StreamTypes, LenProperties DEF Unread
    <2> QED
      BY <1>1, <1>5, <2>1, <2>2 DEF FlagOnce
  <1> QED
    BY <1>1, <1>3, <1>4, <1>5 DEF OnceInv, Regular

\* An ignored completion: for a regular client its element knew of the send.
LEMMA OnceByIgnored ==
  ASSUME OnceInv, ReplyInv', IgnoreSent
  PROVE  OnceInv'
  <1>1. /\ sendDone > 0 /\ sendDone' = sendDone - 1
        /\ UNCHANGED <<client, next, inflight, chunk, buffer, handled, bound, logined,
                       sendAsync, stream, packets, sending, wire, status>>
    BY DEF IgnoreSent, clientVars, receiveVars, elementVars
  <1>2. sendDone \in Nat
    BY DEF OnceInv, ReplyInv, StreamInv, TypeOK
  <1>3. SentOnce => SentOnce'
    BY <1>1, <1>2 DEF SentOnce, IsInjective
  <1>4. FlagEach => FlagEach'
    <2>1. Line' = Line /\ (Misread' <=> Misread)
      BY <1>1 DEF Line, Misread
    <2>2. Apart(Line)' <=> Apart(Line)
      BY <2>1 DEF Apart
    <2> QED
      BY <1>1, <2>1, <2>2 DEF FlagEach
  <1>5. FlagOnce => FlagOnce'
    BY <1>1 DEF FlagOnce, Unread, AllHandled
  <1> QED
    BY <1>1, <1>3, <1>4, <1>5 DEF OnceInv, Regular

\* For a regular client SendEventArgs is never found in use.
LEMMA NoneRefused ==
  ASSUME OnceInv, Regular
  PROVE  ~SendRefused /\ ~HandleSentRefused
  <1>1. ASSUME SendRefused PROVE FALSE
    <2>1. status = "open" /\ chunk # <<>> /\ MustSend /\ sending # Idle
      BY <1>1 DEF SendRefused
    <2>2. RequestsAt(Received) # <<>>
      BY <2>1 DEF MustSend
    <2> QED
      BY <2>1, <2>2, RegularStarts
  <1>2. ASSUME HandleSentRefused PROVE FALSE
    BY <1>2 DEF HandleSentRefused, OnceInv, SentOnce
  <1> QED
    BY <1>1, <1>2

LEMMA OnceByLoss ==
  ASSUME OnceInv, ReplyInv', ConnectionLost
  PROVE  OnceInv'
  <1>1. /\ status' = "closed" /\ chunk' = <<>> /\ buffer' = <<>> /\ packets' = <<>>
        /\ bound' = FALSE /\ stream' = Idle /\ sending' = Idle /\ sendDone' = 0
        /\ UNCHANGED <<client, next, inflight, handled, wire>>
    BY DEF ConnectionLost, clientVars
  <1>2. Len(<<>>) = 0 /\ Range(<<>>) = {} /\ DOMAIN <<>> = {} /\ 2..0 = {}
    BY DEF Range
  <1>3. SentOnce => SentOnce'
    BY <1>1, <1>2 DEF SentOnce, IsInjective
  <1>4. FlagEach'
    BY <1>1, <1>2 DEF FlagEach
  <1>5. FlagOnce => FlagOnce'
    <2>1. ASSUME next = 1, Unread = 0 PROVE Unread' = 0
      <3>1. StreamInv
        BY DEF OnceInv, ReplyInv
      <3>2. Len(buffer) \in Nat /\ Len(chunk) \in Nat /\ Len(inflight) \in Nat
        BY <3>1, StreamTypes, LenProperties
      <3>3. Len(inflight) = 0
        BY <2>1, <3>2 DEF Unread
      <3> QED
        BY <1>1, <1>2, <3>3 DEF Unread
    <2> QED
      BY <1>1, <2>1 DEF FlagOnce
  <1> QED
    BY <1>1, <1>3, <1>4, <1>5 DEF OnceInv, Regular

\* A step that changes none of this (the refused sends of other clients do not matter).
LEMMA OnceByStutter ==
  ASSUME OnceInv, ReplyInv', UNCHANGED vars
  PROVE  OnceInv'
  <1>1. UNCHANGED <<client, next, inflight, chunk, buffer, handled, bound, logined, sendAsync,
                    stream, packets, sending, sendDone, wire, status>>
    BY DEF vars, clientVars, receiveVars, elementVars, sendVars
  <1>2. FlagEach => FlagEach'
    <2>1. Line' = Line /\ (Misread' <=> Misread)
      BY <1>1 DEF Line, Misread
    <2>2. Apart(Line)' <=> Apart(Line)
      BY <2>1 DEF Apart
    <2> QED
      BY <1>1, <2>1, <2>2 DEF FlagEach
  <1>3. (FlagOnce => FlagOnce') /\ (SentOnce => SentOnce')
    BY <1>1 DEF FlagOnce, Unread, AllHandled, SentOnce, IsInjective
  <1> QED
    BY <1>1, <1>2, <1>3 DEF OnceInv, Regular

LEMMA OnceInit == Init => OnceInv
  <1> SUFFICES ASSUME Init PROVE OnceInv
    OBVIOUS
  <1>1. /\ Len(<<>>) = 0 /\ Range(<<>>) = {} /\ DOMAIN <<>> = {} /\ 2..0 = {}
        /\ <<>> \o <<>> = <<>> /\ 1..(0 - 1) = {}
    BY DEF Range
  <1>2. /\ buffer = <<>> /\ chunk = <<>> /\ inflight = <<>> /\ packets = <<>> /\ wire = <<>>
        /\ handled = <<>> /\ bound = FALSE /\ stream = Idle /\ sending = Idle /\ sendDone = 0
    BY DEF Init
  <1>3. Line = <<>>
    BY <1>1, <1>2 DEF Line
  <1>4. FlagEach
    BY <1>1, <1>2, <1>3 DEF FlagEach, Apart
  <1>5. FlagOnce
    <2>1. Unread = 0
      BY <1>1, <1>2 DEF Unread
    <2> QED
      BY <1>2, <2>1, SizesAssumption DEF FlagOnce
  <1>6. SentOnce
    BY <1>1, <1>2 DEF SentOnce, IsInjective
  <1> QED
    BY <1>4, <1>5, <1>6, ReplyInit DEF OnceInv

LEMMA OnceNext == OnceInv /\ [Next]_vars => OnceInv'
  <1> SUFFICES ASSUME OnceInv, [Next]_vars PROVE OnceInv'
    OBVIOUS
  <1>1. ReplyInv'
    BY ReplyNext DEF OnceInv
  <1>2. CASE HandleRequests
    <2>1. client' = client
      BY <1>2 DEF HandleRequests, clientVars
    <2> QED
      BY <1>1, <1>2, <2>1, EachByHandle, FlagOnceByHandle, SentByHandle DEF OnceInv, Regular
  <1>3. CASE SendRefused \/ HandleSentRefused
    <2>1. client' = client
      BY <1>3 DEF SendRefused, HandleSentRefused, clientVars
    <2> QED
      BY <1>1, <1>3, <2>1, NoneRefused DEF OnceInv, Regular
  <1> QED
    BY <1>1, <1>2, <1>3, OnceByClient, OnceByReceive, OnceBySend, OnceByIgnored, OnceBySent,
       OnceByLoss, OnceByStutter
    DEF Next, Server

LEMMA OnceIsOne == OnceInv => OneSend
  <1> SUFFICES ASSUME OnceInv, Regular PROVE SentBytesStay /\ IsInjective(wire)
    BY DEF OneSend
  <1>1. packets # <<>> => Head(packets) = packets[1]
    <2>1. packets \in Seq(Packets)
      BY ReplyTypes DEF OnceInv, ReplyInv, StreamInv
    <2> QED
      BY <2>1, TailOrder
  <1> QED
    BY <1>1 DEF OnceInv, SentOnce, SentBytesStay

\* For a client that sends the flag once and waits for each response, and for one that
\* sends it with each request: what SendAsync reads is not moved, and no packet is
\* transmitted twice, although m_sendAsync is lost with the element.
THEOREM OneSendAtATime == Spec => []OneSend
  BY OnceInit, OnceNext, OnceIsOne, PTL DEF Spec

=================================================================================
