----------------------------- MODULE StreamsProofs -----------------------------
(***************************************************************************)
(* What a client receives, for any answers, requests and characters.       *)
(*                                                                         *)
(* First the texts: what Trim, Cut and the gate make of any text, by       *)
(* induction over the rounds of their loops.  What they need of each       *)
(* other: the gate gives the same for a text in pieces (PushTwice), and    *)
(* never more than Unfenced leaves of the whole (GateWithin).              *)
(*                                                                         *)
(* The inductive invariant has two parts.  Base is about what is read:     *)
(* frame is a beginning of the text, tracker that beginning cleaned, and   *)
(* gate what tracker makes of a new gate.  Heard is about out: while the   *)
(* answer is read, the message is the only item that is not done and the   *)
(* text in out is what was let through (OnTheWay); at the end out is an    *)
(* answer as the properties want it (Ending).                              *)
(***************************************************************************)
EXTENDS Streams, FiniteSetTheorems, SequenceTheorems, WellFoundedInduction, TLAPS

-------------------------------------------------------------------------------
\* Induction, and the functions it defines.

\* A set of numbers that is not empty has a least element.
LEMMA Least ==
  ASSUME NEW T \in SUBSET Nat, T # {}
  PROVE  \E n \in T : \A m \in T : n <= m
<1>1. PICK n \in T : \A m \in T : ~(<<m, n>> \in OpToRel(<, Nat))
  BY NatLessThanWellFounded, WFMin
<1>2. \A m \in T : ~(m < n)
  BY <1>1 DEF OpToRel
<1> QED
  BY <1>2

\* What holds for 0, and for n + 1 if it holds for n, holds for every number.
LEMMA Induct ==
  ASSUME NEW T, 0 \in T, \A n \in Nat : n \in T => n + 1 \in T
  PROVE  Nat \subseteq T
<1> SUFFICES ASSUME Nat \ T # {} PROVE FALSE
  OBVIOUS
<1>1. PICK n \in Nat \ T : \A m \in Nat \ T : n <= m
  BY Least
<1>2. n - 1 \in Nat /\ n - 1 \in T
  BY <1>1
<1> QED
  BY <1>1, <1>2

\* There is a function that starts with x and goes on by F.
LEMMA RoundsExist ==
  ASSUME NEW S, NEW F \in [S -> S], NEW x \in S
  PROVE  \E f \in [Nat -> S] : f = [n \in Nat |-> IF n = 0 THEN x ELSE F[f[n - 1]]]
<1> DEFINE Good(g, n) == g \in [0 .. n -> S] /\ g[0] = x /\ \A i \in 1 .. n : g[i] = F[g[i - 1]]
           T == {n \in Nat : \E g : Good(g, n)}
<1>1. 0 \in T
  <2>1. Good([i \in 0 .. 0 |-> x], 0)
    OBVIOUS
  <2> QED
    BY <2>1
<1>2. ASSUME NEW n \in Nat, n \in T PROVE n + 1 \in T
  <2>1. PICK g : Good(g, n)
    BY <1>2
  <2> DEFINE h == [i \in 0 .. n + 1 |-> IF i <= n THEN g[i] ELSE F[g[n]]]
  <2>2. Good(h, n + 1)
    BY <2>1
  <2> QED
    BY <2>2, SMTT(30)
<1> HIDE DEF Good
<1>3. \A n \in Nat : \E g : Good(g, n)
  BY <1>1, <1>2, Induct
<1> DEFINE G(n) == CHOOSE g : Good(g, n)
<1>4. \A n \in Nat : Good(G(n), n)
  BY <1>3
<1> HIDE DEF G
<1>5. ASSUME NEW m \in Nat, NEW k \in Nat, m <= k PROVE G(k)[m] = G(m)[m]
  <2> DEFINE U == {i \in Nat : i <= m => G(k)[i] = G(m)[i]}
  <2>1. 0 \in U
    BY <1>4, <1>5 DEF Good
  <2>2. ASSUME NEW i \in Nat, i \in U PROVE i + 1 \in U
    BY <1>4, <1>5, <2>2 DEF Good
  <2> HIDE DEF U
  <2>3. m \in U
    BY <2>1, <2>2, Induct
  <2> QED
    BY <2>3 DEF U
<1> DEFINE f == [n \in Nat |-> G(n)[n]]
<1>6. f \in [Nat -> S]
  BY <1>4 DEF Good
<1>7. ASSUME NEW n \in Nat PROVE f[n] = IF n = 0 THEN x ELSE F[f[n - 1]]
  BY <1>4, <1>5 DEF Good
<1>8. f = [n \in Nat |-> IF n = 0 THEN x ELSE F[f[n - 1]]]
  BY <1>6, <1>7
<1> QED
  BY <1>6, <1>8

-------------------------------------------------------------------------------
\* Texts, character by character.

\* The parts before and behind a place.
LEMMA UptoIs ==
  ASSUME NEW S, NEW s \in Seq(S), NEW i \in 1 .. Len(s) + 1
  PROVE  /\ Upto(s, i) \in Seq(S)
         /\ Len(Upto(s, i)) = i - 1
         /\ \A k \in 1 .. i - 1 : Upto(s, i)[k] = s[k]
<1>1. \A k \in 1 .. i - 1 : s[k] \in S
  OBVIOUS
<1> QED
  BY <1>1, SubSeqProperties DEF Upto

LEMMA AfterIs ==
  ASSUME NEW S, NEW s \in Seq(S), NEW i \in 0 .. Len(s)
  PROVE  /\ After(s, i) \in Seq(S)
         /\ Len(After(s, i)) = Len(s) - i
         /\ \A k \in 1 .. Len(s) - i : After(s, i)[k] = s[i + k]
<1>1. \A k \in i + 1 .. Len(s) : s[k] \in S
  OBVIOUS
<1>2. /\ SubSeq(s, i + 1, Len(s)) \in Seq(S)
      /\ Len(SubSeq(s, i + 1, Len(s))) = IF i + 1 <= Len(s) THEN Len(s) - (i + 1) + 1 ELSE 0
      /\ \A k \in 1 .. Len(s) - (i + 1) + 1 : SubSeq(s, i + 1, Len(s))[k] = s[i + 1 + k - 1]
  BY <1>1, SubSeqProperties
<1> QED
  BY <1>2 DEF After

LEMMA FrontIs ==
  ASSUME NEW S, NEW s \in Seq(S), NEW n \in 0 .. Len(s)
  PROVE  /\ SubSeq(s, 1, n) \in Seq(S)
         /\ Len(SubSeq(s, 1, n)) = n
         /\ \A k \in 1 .. n : SubSeq(s, 1, n)[k] = s[k]
<1>1. Upto(s, n + 1) = SubSeq(s, 1, n)
  BY DEF Upto
<1> QED
  BY <1>1, UptoIs

\* What is cut in two and put together again.
LEMMA FrontAfter ==
  ASSUME NEW S, NEW s \in Seq(S), NEW n \in 0 .. Len(s)
  PROVE  SubSeq(s, 1, n) \o After(s, n) = s
<1> DEFINE u == SubSeq(s, 1, n)
           v == After(s, n)
<1>1. u \in Seq(S) /\ Len(u) = n /\ \A k \in 1 .. n : u[k] = s[k]
  BY FrontIs
<1>2. v \in Seq(S) /\ Len(v) = Len(s) - n /\ \A k \in 1 .. Len(s) - n : v[k] = s[n + k]
  BY AfterIs
<1> HIDE DEF u, v
<1>3. /\ u \o v \in Seq(S)
      /\ Len(u \o v) = Len(u) + Len(v)
      /\ \A i \in 1 .. Len(u) + Len(v) : (u \o v)[i] = IF i <= Len(u) THEN u[i] ELSE v[i - Len(u)]
  BY <1>1, <1>2, ConcatProperties
<1>4. \A i \in 1 .. Len(s) : (u \o v)[i] = s[i]
  BY <1>1, <1>2, <1>3
<1>5. Len(u \o v) = Len(s)
  BY <1>1, <1>2, <1>3
<1>6. u \o v = s
  BY <1>3, <1>4, <1>5, SeqEqual
<1> QED
  BY <1>6 DEF u, v

\* Behind a place of s, and then the text that is put behind s.
LEMMA AfterConcat ==
  ASSUME NEW S, NEW s \in Seq(S), NEW d \in Seq(S), NEW i \in 0 .. Len(s)
  PROVE  After(s \o d, i) = After(s, i) \o d
<1> DEFINE t == s \o d
           v == After(s, i)
           w == After(t, i)
<1>1. /\ t \in Seq(S)
      /\ Len(t) = Len(s) + Len(d)
      /\ \A k \in 1 .. Len(s) + Len(d) : t[k] = IF k <= Len(s) THEN s[k] ELSE d[k - Len(s)]
  BY ConcatProperties
<1>2. v \in Seq(S) /\ Len(v) = Len(s) - i /\ \A k \in 1 .. Len(s) - i : v[k] = s[i + k]
  BY AfterIs
<1> HIDE DEF t
<1>3. i \in 0 .. Len(t)
  BY <1>1
<1>4. w \in Seq(S) /\ Len(w) = Len(t) - i /\ \A k \in 1 .. Len(t) - i : w[k] = t[i + k]
  BY <1>1, <1>3, AfterIs, ZenonT(60)
<1> HIDE DEF v, w
<1>5. /\ v \o d \in Seq(S)
      /\ Len(v \o d) = Len(v) + Len(d)
      /\ \A k \in 1 .. Len(v) + Len(d) : (v \o d)[k] = IF k <= Len(v) THEN v[k] ELSE d[k - Len(v)]
  BY <1>2, ConcatProperties
<1>6. Len(w) = Len(v \o d)
  BY <1>1, <1>2, <1>4, <1>5
<1>7. ASSUME NEW k \in 1 .. Len(w) PROVE w[k] = (v \o d)[k]
  <2>1. k \in 1 .. Len(t) - i /\ i + k \in 1 .. Len(s) + Len(d) /\ k \in 1 .. Len(v) + Len(d)
    BY <1>1, <1>2, <1>4
  <2>2. w[k] = IF i + k <= Len(s) THEN s[i + k] ELSE d[i + k - Len(s)]
    BY <1>1, <1>4, <2>1
  <2>3. CASE i + k <= Len(s)
    BY <1>2, <1>5, <2>1, <2>2, <2>3
  <2>4. CASE ~(i + k <= Len(s))
    BY <1>2, <1>5, <2>1, <2>2, <2>4
  <2> QED
    BY <2>3, <2>4
<1>8. w = v \o d
  BY <1>4, <1>5, <1>6, <1>7, SeqEqual
<1> QED
  BY <1>8 DEF t, v, w

LEMMA UptoConcat ==
  ASSUME NEW S, NEW s \in Seq(S), NEW d \in Seq(S), NEW i \in 1 .. Len(s) + 1
  PROVE  Upto(s \o d, i) = Upto(s, i)
<1> DEFINE t == s \o d
           v == Upto(s, i)
           w == Upto(t, i)
<1>1. /\ t \in Seq(S)
      /\ Len(t) = Len(s) + Len(d)
      /\ \A k \in 1 .. Len(s) + Len(d) : t[k] = IF k <= Len(s) THEN s[k] ELSE d[k - Len(s)]
  BY ConcatProperties
<1>2. v \in Seq(S) /\ Len(v) = i - 1 /\ \A k \in 1 .. i - 1 : v[k] = s[k]
  BY UptoIs
<1> HIDE DEF t
<1>3. i \in 1 .. Len(t) + 1
  BY <1>1
<1>4. w \in Seq(S) /\ Len(w) = i - 1 /\ \A k \in 1 .. i - 1 : w[k] = t[k]
  BY <1>1, <1>3, UptoIs
<1> HIDE DEF v, w
<1>5. \A k \in 1 .. i - 1 : w[k] = v[k]
  BY <1>1, <1>2, <1>4, SMTT(30)
<1>6. w = v
  BY <1>2, <1>4, <1>5, SeqEqual
<1> QED
  BY <1>6 DEF t, v, w

\* A prefix.
LEMMA PrefixIs ==
  ASSUME NEW S, NEW s \in Seq(S), NEW t \in Seq(S)
  PROVE  IsPrefix(s, t) <=> Len(s) <= Len(t) /\ \A i \in 1 .. Len(s) : s[i] = t[i]
<1>1. SubSeq(s, 1, Len(s)) = s
  BY SubSeqFull
<1>2. CASE Len(s) <= Len(t)
  <2>1. /\ SubSeq(t, 1, Len(s)) \in Seq(S)
        /\ Len(SubSeq(t, 1, Len(s))) = Len(s)
        /\ \A k \in 1 .. Len(s) : SubSeq(t, 1, Len(s))[k] = t[k]
    BY <1>2, FrontIs
  <2>2. s = SubSeq(t, 1, Len(s)) <=> \A i \in 1 .. Len(s) : s[i] = t[i]
    BY <2>1, SeqEqual
  <2> QED
    BY <1>1, <1>2, <2>2 DEF IsPrefix
<1>3. CASE ~(Len(s) <= Len(t))
  BY <1>3 DEF IsPrefix
<1> QED
  BY <1>2, <1>3

LEMMA PrefixOfConcat ==
  ASSUME NEW S, NEW s \in Seq(S), NEW d \in Seq(S)
  PROVE  IsPrefix(s, s \o d)
<1> DEFINE t == s \o d
<1>1. /\ t \in Seq(S)
      /\ Len(t) = Len(s) + Len(d)
      /\ \A k \in 1 .. Len(s) + Len(d) : t[k] = IF k <= Len(s) THEN s[k] ELSE d[k - Len(s)]
  BY ConcatProperties
<1> HIDE DEF t
<1>2. Len(s) <= Len(t) /\ \A k \in 1 .. Len(s) : s[k] = t[k]
  BY <1>1
<1>3. IsPrefix(s, t)
  BY <1>1, <1>2, PrefixIs
<1> QED
  BY <1>3 DEF t

LEMMA PrefixTrans ==
  ASSUME NEW S, NEW s \in Seq(S), NEW t \in Seq(S), NEW u \in Seq(S),
         IsPrefix(s, t), IsPrefix(t, u)
  PROVE  IsPrefix(s, u)
BY PrefixIs

LEMMA FrontIsPrefix ==
  ASSUME NEW S, NEW s \in Seq(S), NEW n \in 0 .. Len(s)
  PROVE  IsPrefix(SubSeq(s, 1, n), s)
<1> DEFINE u == SubSeq(s, 1, n)
<1>1. u \in Seq(S) /\ Len(u) = n /\ \A k \in 1 .. n : u[k] = s[k]
  BY FrontIs
<1> HIDE DEF u
<1>2. IsPrefix(u, s)
  BY <1>1, PrefixIs
<1> QED
  BY <1>2 DEF u

LEMMA PrefixRest ==
  ASSUME NEW S, NEW s \in Seq(S), NEW t \in Seq(S), IsPrefix(s, t)
  PROVE  /\ Len(s) <= Len(t)
         /\ After(t, Len(s)) \in Seq(S)
         /\ s \o After(t, Len(s)) = t
<1>1. Len(s) <= Len(t)
  BY PrefixIs
<1>2. SubSeq(t, 1, Len(s)) = s
  BY SubSeqFull DEF IsPrefix
<1> QED
  BY <1>1, <1>2, FrontAfter, AfterIs

\* A suffix.
LEMMA ReverseIs ==
  ASSUME NEW S, NEW s \in Seq(S)
  PROVE  /\ Reverse(s) \in Seq(S)
         /\ Len(Reverse(s)) = Len(s)
         /\ \A i \in 1 .. Len(s) : Reverse(s)[i] = s[Len(s) - i + 1]
<1>1. \A i \in 1 .. Len(s) : s[(Len(s) - i) + 1] \in S
  OBVIOUS
<1>2. [i \in 1 .. Len(s) |-> s[(Len(s) - i) + 1]] \in Seq(S)
  BY <1>1, IsASeq
<1> QED
  BY <1>1, <1>2 DEF Reverse

LEMMA SuffixIs ==
  ASSUME NEW S, NEW s \in Seq(S), NEW t \in Seq(S)
  PROVE  IsSuffix(s, t) <=>
            /\ Len(s) <= Len(t)
            /\ \A i \in 1 .. Len(s) : s[i] = t[Len(t) - Len(s) + i]
<1> DEFINE rs == Reverse(s)
           rt == Reverse(t)
<1>1. rs \in Seq(S) /\ Len(rs) = Len(s) /\ \A i \in 1 .. Len(s) : rs[i] = s[Len(s) - i + 1]
  BY ReverseIs
<1>2. rt \in Seq(S) /\ Len(rt) = Len(t) /\ \A i \in 1 .. Len(t) : rt[i] = t[Len(t) - i + 1]
  BY ReverseIs
<1> HIDE DEF rs, rt
<1>3. IsPrefix(rs, rt) <=> Len(rs) <= Len(rt) /\ \A i \in 1 .. Len(rs) : rs[i] = rt[i]
  BY <1>1, <1>2, PrefixIs
<1>4. ASSUME Len(s) <= Len(t)
      PROVE  (\A i \in 1 .. Len(rs) : rs[i] = rt[i])
               <=> \A i \in 1 .. Len(s) : s[Len(s) - i + 1] = t[Len(t) - i + 1]
  <2>1. \A i \in 1 .. Len(s) : rs[i] = s[Len(s) - i + 1] /\ rt[i] = t[Len(t) - i + 1]
    BY <1>1, <1>2, <1>4
  <2>2. (\A i \in 1 .. Len(s) : rs[i] = rt[i])
          <=> \A i \in 1 .. Len(s) : s[Len(s) - i + 1] = t[Len(t) - i + 1]
    BY <2>1
  <2> QED
    BY <1>1, <2>2
<1>5. IsPrefix(rs, rt) <=>
        /\ Len(s) <= Len(t)
        /\ \A i \in 1 .. Len(s) : s[Len(s) - i + 1] = t[Len(t) - i + 1]
  BY <1>1, <1>2, <1>3, <1>4
<1>6. IsSuffix(s, t) <=>
        /\ Len(s) <= Len(t)
        /\ \A i \in 1 .. Len(s) : s[Len(s) - i + 1] = t[Len(t) - i + 1]
  BY <1>5 DEF IsSuffix, rs, rt
<1>7. ASSUME Len(s) <= Len(t), \A i \in 1 .. Len(s) : s[Len(s) - i + 1] = t[Len(t) - i + 1],
             NEW i \in 1 .. Len(s)
      PROVE  s[i] = t[Len(t) - Len(s) + i]
  <2>1. Len(s) - i + 1 \in 1 .. Len(s)
    OBVIOUS
  <2>2. s[Len(s) - (Len(s) - i + 1) + 1] = t[Len(t) - (Len(s) - i + 1) + 1]
    BY <1>7, <2>1
  <2> QED
    BY <2>2
<1>8. ASSUME Len(s) <= Len(t), \A i \in 1 .. Len(s) : s[i] = t[Len(t) - Len(s) + i],
             NEW i \in 1 .. Len(s)
      PROVE  s[Len(s) - i + 1] = t[Len(t) - i + 1]
  <2>1. Len(s) - i + 1 \in 1 .. Len(s)
    OBVIOUS
  <2>2. s[Len(s) - i + 1] = t[Len(t) - Len(s) + (Len(s) - i + 1)]
    BY <1>8, <2>1
  <2> QED
    BY <2>2
<1> QED
  BY <1>6, <1>7, <1>8

-------------------------------------------------------------------------------
\* Finding a fence, and holding back what may be the start of one.

LEMMA CloseIs == FenceClose \in Seq(Char) /\ Len(FenceClose) = 3
  BY DEF FenceClose, Char

LEMMA OpenIs ==
  /\ FenceOpen \in Seq(Char)
  /\ Len(FenceOpen) = 5
  /\ FenceOpen[1] = Tick
<1> DEFINE w == <<Tool1, Tool2>>
<1>1. w \in Seq(Char) /\ Len(w) = 2
  BY DEF Char
<1>2. FenceClose \in Seq(Char) /\ Len(FenceClose) = 3 /\ FenceClose[1] = Tick
  BY DEF FenceClose, Char
<1>3. FenceOpen = FenceClose \o w
  BY DEF FenceOpen
<1> HIDE DEF w
<1>4. /\ FenceClose \o w \in Seq(Char)
      /\ Len(FenceClose \o w) = Len(FenceClose) + Len(w)
      /\ \A i \in 1 .. Len(FenceClose) + Len(w) :
            (FenceClose \o w)[i] = IF i <= Len(FenceClose) THEN FenceClose[i]
                                   ELSE w[i - Len(FenceClose)]
  BY <1>1, <1>2, ConcatProperties
<1>5. (FenceClose \o w)[1] = Tick
  BY <1>1, <1>2, <1>4
<1> QED
  BY <1>1, <1>2, <1>3, <1>4, <1>5

LEMMA CodeIs ==
  /\ CodeOpen \in Seq(Char)
  /\ Len(CodeOpen) = 4
  /\ CodeOpen[1] = Tick
<1> DEFINE w == <<Ran>>
<1>1. w \in Seq(Char) /\ Len(w) = 1
  BY DEF Char
<1>2. FenceClose \in Seq(Char) /\ Len(FenceClose) = 3 /\ FenceClose[1] = Tick
  BY DEF FenceClose, Char
<1>3. CodeOpen = FenceClose \o w
  BY DEF CodeOpen
<1> HIDE DEF w
<1>4. /\ FenceClose \o w \in Seq(Char)
      /\ Len(FenceClose \o w) = Len(FenceClose) + Len(w)
      /\ \A i \in 1 .. Len(FenceClose) + Len(w) :
            (FenceClose \o w)[i] = IF i <= Len(FenceClose) THEN FenceClose[i]
                                   ELSE w[i - Len(FenceClose)]
  BY <1>1, <1>2, ConcatProperties
<1>5. (FenceClose \o w)[1] = Tick
  BY <1>1, <1>2, <1>4
<1> QED
  BY <1>1, <1>2, <1>3, <1>4, <1>5

\* The text m is in s at i.
Hit(s, m, i) ==
    /\ i \in 1 .. Len(s) - Len(m) + 1
    /\ \A k \in 1 .. Len(m) : s[i + k - 1] = m[k]

LEMMA HitIs ==
  ASSUME NEW S, NEW s \in Seq(S), NEW m \in Seq(S), NEW i \in 1 .. Len(s) - Len(m) + 1
  PROVE  SubSeq(s, i, i + Len(m) - 1) = m <=> Hit(s, m, i)
<1> DEFINE u == SubSeq(s, i, i + Len(m) - 1)
<1>1. \A k \in i .. i + Len(m) - 1 : s[k] \in S
  OBVIOUS
<1>2. /\ u \in Seq(S)
      /\ Len(u) = IF i <= i + Len(m) - 1 THEN i + Len(m) - 1 - i + 1 ELSE 0
      /\ \A k \in 1 .. i + Len(m) - 1 - i + 1 : u[k] = s[i + k - 1]
  BY <1>1, SubSeqProperties
<1> HIDE DEF u
<1>3. Len(u) = Len(m) /\ \A k \in 1 .. Len(m) : u[k] = s[i + k - 1]
  BY <1>2
<1>4. u = m <=> \A k \in 1 .. Len(m) : s[i + k - 1] = m[k]
  BY <1>2, <1>3, SeqEqual
<1> QED
  BY <1>4 DEF u, Hit

\* First(s, m) is where m is in s, and is not before.
LEMMA FirstIs ==
  ASSUME NEW S, NEW s \in Seq(S), NEW m \in Seq(S)
  PROVE  /\ First(s, m) \in Nat
         /\ First(s, m) # 0 => Hit(s, m, First(s, m))
         /\ \A i : Hit(s, m, i) => First(s, m) # 0 /\ First(s, m) <= i
<1> DEFINE hits == {i \in 1 .. Len(s) - Len(m) + 1 : SubSeq(s, i, i + Len(m) - 1) = m}
<1>1. ASSUME NEW i PROVE i \in hits <=> Hit(s, m, i)
  <2>1. CASE i \in 1 .. Len(s) - Len(m) + 1
    BY <2>1, HitIs
  <2>2. CASE i \notin 1 .. Len(s) - Len(m) + 1
    BY <2>2 DEF Hit
  <2> QED
    BY <2>1, <2>2
<1>2. hits \in SUBSET Nat /\ 0 \notin hits
  OBVIOUS
<1>3. First(s, m) = IF hits = {} THEN 0 ELSE Min(hits)
  BY DEF First
<1> HIDE DEF hits
<1>4. CASE hits = {}
  BY <1>1, <1>3, <1>4
<1>5. CASE hits # {}
  <2>1. \E n \in hits : \A k \in hits : n <= k
    BY <1>2, <1>5, Least
  <2>2. Min(hits) \in hits /\ \A k \in hits : Min(hits) <= k
    BY <2>1 DEF Min
  <2> QED
    BY <1>1, <1>2, <1>3, <1>5, <2>2
<1> QED
  BY <1>4, <1>5

LEMMA FirstAt ==
  ASSUME NEW S, NEW s \in Seq(S), NEW m \in Seq(S), NEW i,
         Hit(s, m, i), \A j \in 1 .. i - 1 : ~Hit(s, m, j)
  PROVE  First(s, m) = i
<1>1. /\ First(s, m) \in Nat
      /\ First(s, m) # 0
      /\ First(s, m) <= i
      /\ Hit(s, m, First(s, m))
  BY FirstIs
<1>2. i \in Nat
  BY DEF Hit
<1> QED
  BY <1>1, <1>2

\* What is put behind a text moves nothing that was in it.
LEMMA HitConcat ==
  ASSUME NEW S, NEW s \in Seq(S), NEW d \in Seq(S), NEW m \in Seq(S),
         NEW i \in 1 .. Len(s) - Len(m) + 1
  PROVE  Hit(s \o d, m, i) <=> Hit(s, m, i)
<1> DEFINE t == s \o d
<1>1. /\ t \in Seq(S)
      /\ Len(t) = Len(s) + Len(d)
      /\ \A k \in 1 .. Len(s) + Len(d) : t[k] = IF k <= Len(s) THEN s[k] ELSE d[k - Len(s)]
  BY ConcatProperties
<1> HIDE DEF t
<1>2. ASSUME NEW k \in 1 .. Len(m) PROVE t[i + k - 1] = s[i + k - 1]
  <2>1. i + k - 1 \in 1 .. Len(s) + Len(d) /\ i + k - 1 <= Len(s)
    OBVIOUS
  <2> QED
    BY <1>1, <2>1
<1>3. i \in 1 .. Len(t) - Len(m) + 1
  BY <1>1
<1>4. Hit(t, m, i) <=> Hit(s, m, i)
  BY <1>2, <1>3 DEF Hit
<1> QED
  BY <1>4 DEF t

LEMMA FirstStable ==
  ASSUME NEW S, NEW s \in Seq(S), NEW d \in Seq(S), NEW m \in Seq(S), First(s, m) # 0
  PROVE  First(s \o d, m) = First(s, m)
<1> DEFINE i == First(s, m)
<1>1. i \in Nat /\ Hit(s, m, i) /\ \A j : Hit(s, m, j) => i <= j
  BY FirstIs
<1> HIDE DEF i
<1>2. i \in 1 .. Len(s) - Len(m) + 1
  BY <1>1 DEF Hit
<1>3. s \o d \in Seq(S)
  BY ConcatProperties
<1>4. Hit(s \o d, m, i)
  BY <1>1, <1>2, HitConcat
<1>5. ASSUME NEW j \in 1 .. i - 1 PROVE ~Hit(s \o d, m, j)
  <2>1. j \in 1 .. Len(s) - Len(m) + 1
    BY <1>1, <1>2
  <2>2. ~Hit(s, m, j)
    BY <1>1
  <2> QED
    BY <2>1, <2>2, HitConcat
<1>6. First(s \o d, m) = i
  BY <1>3, <1>4, <1>5, FirstAt
<1> QED
  BY <1>6 DEF i

\* The last k characters of s are the start of a fence, and not all of it.
HeldAt(s, k) ==
    /\ k \in 1 .. 4
    /\ k <= Len(s)
    /\ \A i \in 1 .. k : FenceOpen[i] = s[Len(s) - k + i]

LEMMA HeldIs ==
  ASSUME NEW s \in Seq(Char)
  PROVE  /\ Held(s) \in 0 .. 4
         /\ Held(s) <= Len(s)
         /\ Held(s) # 0 => HeldAt(s, Held(s))
         /\ \A k : HeldAt(s, k) => k <= Held(s)
<1> DEFINE starts == {k \in 1 .. Len(FenceOpen) - 1 :
                        k <= Len(s) /\ IsSuffix(SubSeq(FenceOpen, 1, k), s)}
<1>1. ASSUME NEW k \in 1 .. 4
      PROVE  IsSuffix(SubSeq(FenceOpen, 1, k), s) <=>
               k <= Len(s) /\ \A i \in 1 .. k : FenceOpen[i] = s[Len(s) - k + i]
  <2> DEFINE u == SubSeq(FenceOpen, 1, k)
  <2>0. k \in 0 .. Len(FenceOpen)
    BY OpenIs
  <2>1. u \in Seq(Char) /\ Len(u) = k /\ \A i \in 1 .. k : u[i] = FenceOpen[i]
    BY <2>0, OpenIs, FrontIs
  <2> HIDE DEF u
  <2>2. IsSuffix(u, s) <=> Len(u) <= Len(s) /\ \A i \in 1 .. Len(u) : u[i] = s[Len(s) - Len(u) + i]
    BY <2>1, SuffixIs
  <2>3. IsSuffix(u, s) <=> k <= Len(s) /\ \A i \in 1 .. k : FenceOpen[i] = s[Len(s) - k + i]
    BY <2>1, <2>2
  <2> QED
    BY <2>3 DEF u
<1>2. ASSUME NEW k PROVE k \in starts <=> HeldAt(s, k)
  <2>1. k \in starts <=> /\ k \in 1 .. 4
                        /\ k <= Len(s)
                        /\ IsSuffix(SubSeq(FenceOpen, 1, k), s)
    BY OpenIs
  <2> QED
    BY <1>1, <2>1 DEF HeldAt
<1>3. starts \subseteq 1 .. 4
  BY OpenIs
<1>4. Held(s) = IF starts = {} THEN 0 ELSE Max(starts)
  BY DEF Held
<1> HIDE DEF starts
<1>5. CASE starts = {}
  BY <1>2, <1>4, <1>5
<1>6. CASE starts # {}
  <2>1. \E n \in starts : \A k \in starts : n >= k
    <3> DEFINE gaps == {n \in 0 .. 3 : 4 - n \in starts}
    <3>1. PICK n \in gaps : \A k \in gaps : n <= k
      <4>1. gaps \in SUBSET Nat
        OBVIOUS
      <4>2. PICK k \in starts : TRUE
        BY <1>6
      <4>3. k \in 1 .. 4 /\ 4 - (4 - k) = k
        BY <1>3, <4>2
      <4>4. 4 - k \in gaps
        BY <4>2, <4>3
      <4> HIDE DEF gaps
      <4> QED
        BY <4>1, <4>4, Least
    <3>2. \A k \in starts : 4 - k \in gaps
      BY <1>3
    <3> QED
      BY <1>3, <3>1, <3>2
  <2>2. Max(starts) \in starts /\ \A k \in starts : Max(starts) >= k
    BY <2>1 DEF Max
  <2> QED
    BY <1>2, <1>3, <1>4, <1>6, <2>2 DEF HeldAt
<1> QED
  BY <1>5, <1>6

-------------------------------------------------------------------------------
\* Places behind a place.

LEMMA AfterAfter ==
  ASSUME NEW S, NEW s \in Seq(S), NEW n \in 0 .. Len(s), NEW k \in 0 .. Len(s) - n
  PROVE  After(After(s, n), k) = After(s, n + k)
<1> DEFINE v == After(s, n)
           w == After(s, n + k)
           u == After(v, k)
<1>1. v \in Seq(S) /\ Len(v) = Len(s) - n /\ \A i \in 1 .. Len(s) - n : v[i] = s[n + i]
  BY AfterIs
<1>2. n + k \in 0 .. Len(s)
  OBVIOUS
<1>3. w \in Seq(S) /\ Len(w) = Len(s) - (n + k)
        /\ \A i \in 1 .. Len(s) - (n + k) : w[i] = s[n + k + i]
  BY <1>2, AfterIs
<1> HIDE DEF v, w
<1>4. k \in 0 .. Len(v)
  BY <1>1
<1>5. u \in Seq(S) /\ Len(u) = Len(v) - k /\ \A i \in 1 .. Len(v) - k : u[i] = v[k + i]
  <2>1. v \in Seq(S)
    BY <1>1
  <2> QED
    BY <1>4, <2>1, AfterIs
<1> HIDE DEF u
<1>6. ASSUME NEW i \in 1 .. Len(u) PROVE u[i] = w[i]
  <2>1. k + i \in 1 .. Len(s) - n /\ i \in 1 .. Len(v) - k /\ i \in 1 .. Len(s) - (n + k)
    BY <1>1, <1>5
  <2>2. n + (k + i) = n + k + i
    BY <2>1
  <2>3. u[i] = v[k + i] /\ v[k + i] = s[n + (k + i)]
    BY <1>1, <1>5, <2>1
  <2> QED
    BY <1>3, <2>1, <2>2, <2>3
<1>7. Len(u) = Len(w)
  BY <1>1, <1>3, <1>5
<1>8. u = w
  BY <1>3, <1>5, <1>6, <1>7, SeqEqual
<1> QED
  BY <1>8 DEF u, v, w

LEMMA UptoAfter ==
  ASSUME NEW S, NEW s \in Seq(S), NEW n \in 0 .. Len(s), NEW j \in 1 .. Len(s) - n + 1
  PROVE  SubSeq(s, 1, n) \o Upto(After(s, n), j) = Upto(s, n + j)
<1> DEFINE u == SubSeq(s, 1, n)
           v == After(s, n)
           w == Upto(s, n + j)
           x == Upto(v, j)
<1>1. u \in Seq(S) /\ Len(u) = n /\ \A i \in 1 .. n : u[i] = s[i]
  BY FrontIs
<1>2. v \in Seq(S) /\ Len(v) = Len(s) - n /\ \A i \in 1 .. Len(s) - n : v[i] = s[n + i]
  BY AfterIs
<1>3. n + j \in 1 .. Len(s) + 1
  OBVIOUS
<1>4. w \in Seq(S) /\ Len(w) = n + j - 1 /\ \A i \in 1 .. n + j - 1 : w[i] = s[i]
  BY <1>3, UptoIs
<1> HIDE DEF u, v, w
<1>5. j \in 1 .. Len(v) + 1
  BY <1>2
<1>6. x \in Seq(S) /\ Len(x) = j - 1 /\ \A i \in 1 .. j - 1 : x[i] = v[i]
  BY <1>2, <1>5, UptoIs
<1> HIDE DEF x
<1>7. /\ u \o x \in Seq(S)
      /\ Len(u \o x) = Len(u) + Len(x)
      /\ \A i \in 1 .. Len(u) + Len(x) : (u \o x)[i] = IF i <= Len(u) THEN u[i] ELSE x[i - Len(u)]
  BY <1>1, <1>6, ConcatProperties
<1>8. ASSUME NEW i \in 1 .. Len(w) PROVE (u \o x)[i] = w[i]
  <2>1. i \in 1 .. Len(u) + Len(x) /\ i \in 1 .. n + j - 1
    BY <1>1, <1>4, <1>6
  <2>2. CASE i <= n
    BY <1>1, <1>4, <1>7, <2>1, <2>2
  <2>3. CASE ~(i <= n)
    <3>1. i - n \in 1 .. j - 1 /\ i - n \in 1 .. Len(s) - n /\ n + (i - n) = i
      BY <2>1, <2>3
    <3> QED
      BY <1>1, <1>2, <1>4, <1>6, <1>7, <2>1, <2>3, <3>1, SMTT(30)
  <2> QED
    BY <2>2, <2>3
<1>9. Len(u \o x) = Len(w)
  BY <1>1, <1>4, <1>6, <1>7
<1>10. u \o x = w
  BY <1>4, <1>7, <1>8, <1>9, SeqEqual
<1> QED
  BY <1>10 DEF u, v, w, x

LEMMA FrontFront ==
  ASSUME NEW S, NEW s \in Seq(S), NEW n \in 0 .. Len(s), NEW k \in 0 .. Len(s) - n
  PROVE  SubSeq(s, 1, n) \o SubSeq(After(s, n), 1, k) = SubSeq(s, 1, n + k)
<1>1. k + 1 \in 1 .. Len(s) - n + 1
  OBVIOUS
<1>2. SubSeq(s, 1, n) \o Upto(After(s, n), k + 1) = Upto(s, n + (k + 1))
  BY <1>1, UptoAfter
<1>3. k + 1 - 1 = k /\ n + (k + 1) - 1 = n + k
  OBVIOUS
<1> QED
  BY <1>2, <1>3 DEF Upto

LEMMA HitAfter ==
  ASSUME NEW S, NEW s \in Seq(S), NEW m \in Seq(S), NEW n \in 0 .. Len(s), NEW j \in Nat \ {0}
  PROVE  Hit(After(s, n), m, j) <=> Hit(s, m, n + j)
<1> DEFINE v == After(s, n)
<1>1. v \in Seq(S) /\ Len(v) = Len(s) - n /\ \A i \in 1 .. Len(s) - n : v[i] = s[n + i]
  BY AfterIs
<1> HIDE DEF v
<1>2. CASE j \in 1 .. Len(v) - Len(m) + 1
  <2>1. n + j \in 1 .. Len(s) - Len(m) + 1
    BY <1>1, <1>2
  <2>2. ASSUME NEW k \in 1 .. Len(m) PROVE v[j + k - 1] = s[n + j + k - 1]
    <3>1. j + k - 1 \in 1 .. Len(s) - n /\ n + (j + k - 1) = n + j + k - 1
      BY <1>1, <1>2
    <3> QED
      BY <1>1, <3>1
  <2>3. Hit(v, m, j) <=> Hit(s, m, n + j)
    BY <1>2, <2>1, <2>2 DEF Hit
  <2> QED
    BY <2>3 DEF v
<1>3. CASE j \notin 1 .. Len(v) - Len(m) + 1
  <2>1. n + j \notin 1 .. Len(s) - Len(m) + 1
    BY <1>1, <1>3
  <2> QED
    BY <1>3, <2>1 DEF Hit, v
<1> QED
  BY <1>2, <1>3

LEMMA HeldAfter ==
  ASSUME NEW S, NEW s \in Seq(S), NEW n \in 0 .. Len(s), NEW k
  PROVE  HeldAt(After(s, n), k) <=> HeldAt(s, k) /\ k <= Len(s) - n
<1> DEFINE v == After(s, n)
<1>1. v \in Seq(S) /\ Len(v) = Len(s) - n /\ \A i \in 1 .. Len(s) - n : v[i] = s[n + i]
  BY AfterIs
<1> HIDE DEF v
<1>2. ASSUME k \in 1 .. 4, k <= Len(s) - n, NEW i \in 1 .. k
      PROVE  v[Len(v) - k + i] = s[Len(s) - k + i]
  <2>1. Len(v) - k + i \in 1 .. Len(s) - n /\ n + (Len(v) - k + i) = Len(s) - k + i
    BY <1>1, <1>2
  <2> QED
    BY <1>1, <2>1
<1>3. HeldAt(v, k) <=> HeldAt(s, k) /\ k <= Len(s) - n
  BY <1>1, <1>2 DEF HeldAt
<1> QED
  BY <1>3 DEF v

-------------------------------------------------------------------------------
\* The gate: a round of its loop.

Gates == [buf : Seq(Char), sent : Seq(Char), inFence : BOOLEAN]

LEMMA GateIs ==
  ASSUME NEW g \in Gates
  PROVE  /\ g.buf \in Seq(Char)
         /\ Len(g.buf) \in Nat
         /\ g.sent \in Seq(Char)
         /\ g.inFence \in BOOLEAN
BY DEF Gates

\* In a fence that does not end yet a round changes nothing.
LEMMA SiftWaits ==
  ASSUME NEW g \in Gates, g.inFence, First(g.buf, FenceClose) = 0
  PROVE  Sift(g) = g
BY DEF Sift

\* A fence ends.
LEMMA SiftLeaves ==
  ASSUME NEW g \in Gates, g.inFence, First(g.buf, FenceClose) # 0
  PROVE  /\ First(g.buf, FenceClose) + 2 \in 0 .. Len(g.buf)
         /\ Sift(g) = [buf |-> After(g.buf, First(g.buf, FenceClose) + 2),
                       sent |-> g.sent, inFence |-> FALSE]
         /\ Sift(g) \in Gates
         /\ Len(Sift(g).buf) <= Len(g.buf) - 3
<1> DEFINE c == First(g.buf, FenceClose)
           b == After(g.buf, c + 2)
<1>1. g.buf \in Seq(Char) /\ g.sent \in Seq(Char)
  BY DEF Gates
<1>2. c \in Nat /\ Hit(g.buf, FenceClose, c)
  BY <1>1, CloseIs, FirstIs
<1> HIDE DEF c
<1>3. c \in 1 .. Len(g.buf) - 3 + 1
  BY <1>2, CloseIs DEF Hit
<1>4. c + 2 \in 0 .. Len(g.buf) /\ c + Len(FenceClose) - 1 = c + 2
  BY <1>1, <1>3, CloseIs
<1>5. b \in Seq(Char) /\ Len(b) = Len(g.buf) - (c + 2)
  BY <1>1, <1>4, AfterIs
<1>6. Sift(g) = [g EXCEPT !.buf = After(g.buf, c + Len(FenceClose) - 1), !.inFence = FALSE]
  BY DEF Sift, c
<1>7. Sift(g) = [buf |-> b, sent |-> g.sent, inFence |-> FALSE]
  BY <1>4, <1>6 DEF Gates
<1> HIDE DEF b
<1>8. Sift(g) \in Gates /\ Sift(g).buf = b
  BY <1>1, <1>5, <1>7 DEF Gates
<1>9. Len(b) <= Len(g.buf) - 3
  BY <1>1, <1>3, <1>5
<1> QED
  BY <1>4, <1>7, <1>8, <1>9 DEF b, c

\* A fence begins.
LEMMA SiftEnters ==
  ASSUME NEW g \in Gates, ~g.inFence, First(g.buf, FenceOpen) # 0
  PROVE  /\ First(g.buf, FenceOpen) \in 1 .. Len(g.buf) + 1
         /\ First(g.buf, FenceOpen) + 4 \in 0 .. Len(g.buf)
         /\ Sift(g) = [buf |-> After(g.buf, First(g.buf, FenceOpen) + 4),
                       sent |-> g.sent \o Upto(g.buf, First(g.buf, FenceOpen)),
                       inFence |-> TRUE]
         /\ Sift(g) \in Gates
         /\ Len(Sift(g).buf) <= Len(g.buf) - 3
<1> DEFINE c == First(g.buf, FenceOpen)
           b == After(g.buf, c + 4)
           s == g.sent \o Upto(g.buf, c)
<1>1. g.buf \in Seq(Char) /\ g.sent \in Seq(Char)
  BY DEF Gates
<1>2. c \in Nat /\ Hit(g.buf, FenceOpen, c)
  BY <1>1, OpenIs, FirstIs
<1> HIDE DEF c
<1>3. c \in 1 .. Len(g.buf) - 5 + 1
  BY <1>2, OpenIs DEF Hit
<1>4. /\ c + 4 \in 0 .. Len(g.buf)
      /\ c + Len(FenceOpen) - 1 = c + 4
      /\ c \in 1 .. Len(g.buf) + 1
  BY <1>1, <1>3, OpenIs
<1>5. b \in Seq(Char) /\ Len(b) = Len(g.buf) - (c + 4)
  BY <1>1, <1>4, AfterIs
<1>6. Upto(g.buf, c) \in Seq(Char)
  BY <1>1, <1>4, UptoIs
<1>7. s \in Seq(Char)
  BY <1>1, <1>6, ConcatProperties
<1>8. Sift(g) = [buf |-> b, sent |-> s, inFence |-> TRUE]
  BY <1>4 DEF Sift, c
<1> HIDE DEF b, s
<1>9. Sift(g) \in Gates /\ Sift(g).buf = b
  BY <1>5, <1>7, <1>8 DEF Gates
<1>10. Len(b) <= Len(g.buf) - 3
  BY <1>1, <1>3, <1>5
<1> QED
  BY <1>4, <1>8, <1>9, <1>10 DEF b, c, s

\* What cannot belong to a fence is sent, and then a round changes nothing
\* until there is more text.
LEMMA SiftSends ==
  ASSUME NEW g \in Gates, ~g.inFence, First(g.buf, FenceOpen) = 0,
         NEW keep, keep = Len(g.buf) - Held(g.buf)
  PROVE  /\ keep \in 0 .. Len(g.buf)
         /\ Sift(g) = [buf |-> After(g.buf, keep), sent |-> g.sent \o SubSeq(g.buf, 1, keep),
                       inFence |-> FALSE]
         /\ Sift(g) \in Gates
         /\ Sift(Sift(g)) = Sift(g)
<1> DEFINE b == After(g.buf, keep)
           s == g.sent \o SubSeq(g.buf, 1, keep)
<1>1. g.buf \in Seq(Char) /\ g.sent \in Seq(Char) /\ g.inFence = FALSE
  BY DEF Gates
<1>2. /\ Held(g.buf) \in 0 .. 4
      /\ Held(g.buf) <= Len(g.buf)
      /\ Held(g.buf) # 0 => HeldAt(g.buf, Held(g.buf))
  BY <1>1, HeldIs
<1>3. keep \in 0 .. Len(g.buf) /\ Len(g.buf) - keep = Held(g.buf)
  BY <1>1, <1>2
<1>4. b \in Seq(Char) /\ Len(b) = Held(g.buf)
  BY <1>1, <1>3, AfterIs
<1>5. SubSeq(g.buf, 1, keep) \in Seq(Char)
  BY <1>1, <1>3, FrontIs
<1>6. s \in Seq(Char)
  BY <1>1, <1>5, ConcatProperties
<1>7. Sift(g) = [g EXCEPT !.buf = b, !.sent = s]
  BY DEF Sift
<1>8. Sift(g) = [buf |-> b, sent |-> s, inFence |-> FALSE]
  BY <1>1, <1>7 DEF Gates
<1>9. Held(b) = Len(b)
  <2>1. Held(b) \in 0 .. 4 /\ Held(b) <= Len(b) /\ \A k : HeldAt(b, k) => k <= Held(b)
    BY <1>4, HeldIs
  <2>2. CASE Held(g.buf) = 0
    BY <1>4, <2>1, <2>2
  <2>3. CASE Held(g.buf) # 0
    <3>1. HeldAt(b, Held(g.buf))
      BY <1>1, <1>2, <1>3, <2>3, HeldAfter
    <3> QED
      BY <1>2, <1>4, <2>1, <3>1
  <2> QED
    BY <2>2, <2>3
<1>10. First(b, FenceOpen) = 0
  <2>1. First(b, FenceOpen) # 0 => Hit(b, FenceOpen, First(b, FenceOpen))
    BY <1>4, OpenIs, FirstIs
  <2>2. Len(b) <= 4 /\ Len(b) \in Nat
    BY <1>2, <1>4
  <2>3. \A i : ~Hit(b, FenceOpen, i)
    BY <2>2, OpenIs DEF Hit
  <2> QED
    BY <2>1, <2>3
<1> HIDE DEF b, s
<1>11. Sift(g) \in Gates
  BY <1>4, <1>6, <1>8 DEF Gates
<1>12. Len(b) - Held(b) = 0
  BY <1>4, <1>9
<1>13. After(b, 0) = b /\ SubSeq(b, 1, 0) = <<>>
  BY <1>4, SubSeqFull, SubSeqEmpty DEF After
<1>14. Sift([buf |-> b, sent |-> s, inFence |-> FALSE])
         = [buf |-> After(b, Len(b) - Held(b)), sent |-> s \o SubSeq(b, 1, Len(b) - Held(b)),
            inFence |-> FALSE]
  BY <1>10 DEF Sift
<1>15. s \o <<>> = s
  BY <1>6, ConcatEmptySeq
<1>16. Sift(Sift(g)) = Sift(g)
  BY <1>8, <1>12, <1>13, <1>14, <1>15
<1> QED
  BY <1>3, <1>8, <1>11, <1>16 DEF b, s

LEMMA SiftType ==
  ASSUME NEW g \in Gates
  PROVE  Sift(g) \in Gates
<1>1. g.inFence \in BOOLEAN
  BY DEF Gates
<1> QED
  BY <1>1, SiftWaits, SiftLeaves, SiftEnters, SiftSends

\* A round ends the work, or has made the buffer shorter by a fence.
LEMMA SiftShrinks ==
  ASSUME NEW g \in Gates
  PROVE  Sift(Sift(g)) = Sift(g) \/ Len(Sift(g).buf) <= Len(g.buf) - 3
<1>1. g.inFence \in BOOLEAN
  BY DEF Gates
<1> QED
  BY <1>1, SiftWaits, SiftLeaves, SiftEnters, SiftSends

\* What was sent is not taken back.
LEMMA SiftGrows ==
  ASSUME NEW g \in Gates
  PROVE  IsPrefix(g.sent, Sift(g).sent)
<1>1. g.inFence \in BOOLEAN /\ g.buf \in Seq(Char) /\ g.sent \in Seq(Char)
  BY DEF Gates
<1>2. IsPrefix(g.sent, g.sent)
  BY <1>1, PrefixIs
<1>3. CASE g.inFence
  BY <1>2, <1>3, SiftWaits, SiftLeaves
<1>4. CASE ~g.inFence /\ First(g.buf, FenceOpen) # 0
  <2>1. Upto(g.buf, First(g.buf, FenceOpen)) \in Seq(Char)
    BY <1>1, <1>4, SiftEnters, UptoIs
  <2> DEFINE b == After(g.buf, First(g.buf, FenceOpen) + 4)
             s == g.sent \o Upto(g.buf, First(g.buf, FenceOpen))
  <2>2. Sift(g) = [buf |-> b, sent |-> s, inFence |-> TRUE]
    BY <1>4, SiftEnters
  <2> HIDE DEF b, s
  <2>3. Sift(g).sent = s
    BY <2>2
  <2> USE DEF s
  <2> QED
    BY <1>1, <2>1, <2>3, PrefixOfConcat
<1>5. CASE ~g.inFence /\ First(g.buf, FenceOpen) = 0
  <2> DEFINE keep == Len(g.buf) - Held(g.buf)
  <2>1. keep \in 0 .. Len(g.buf) /\ Sift(g).sent = g.sent \o SubSeq(g.buf, 1, keep)
    BY <1>5, SiftSends, SMTT(30)
  <2>2. SubSeq(g.buf, 1, keep) \in Seq(Char)
    BY <1>1, <2>1, FrontIs
  <2> QED
    BY <1>1, <2>1, <2>2, PrefixOfConcat
<1> QED
  BY <1>1, <1>3, <1>4, <1>5

-------------------------------------------------------------------------------
\* The gate: its loop ends.

LEMMA SiftRounds ==
  ASSUME NEW x \in Gates
  PROVE  /\ Rounds(Sift, x) \in [Nat -> Gates]
         /\ Rounds(Sift, x)[0] = x
         /\ \A n \in Nat : Rounds(Sift, x)[n + 1] = Sift(Rounds(Sift, x)[n])
<1> DEFINE F == [g \in Gates |-> Sift(g)]
           r == Rounds(Sift, x)
<1>1. F \in [Gates -> Gates]
  BY SiftType
<1> HIDE DEF F
<1>2. PICK f \in [Nat -> Gates] : f = [n \in Nat |-> IF n = 0 THEN x ELSE F[f[n - 1]]]
  BY <1>1, RoundsExist
<1>3. f = [n \in Nat |-> IF n = 0 THEN x ELSE Sift(f[n - 1])]
  BY <1>2 DEF F
<1>4. r = [n \in Nat |-> IF n = 0 THEN x ELSE Sift(r[n - 1])]
  BY <1>3 DEF Rounds
<1> HIDE DEF r
<1>6. r[0] = x /\ \A n \in Nat : r[n + 1] = Sift(r[n])
  BY <1>4
<1> DEFINE U == {n \in Nat : r[n] \in Gates}
<1>7. 0 \in U
  BY <1>6
<1>8. \A n \in Nat : n \in U => n + 1 \in U
  BY <1>6, SiftType
<1> HIDE DEF U
<1>9. Nat \subseteq U
  BY <1>7, <1>8, Induct
<1>10. \A n \in Nat : r[n] \in Gates
  BY <1>9 DEF U
<1>11. r \in [Nat -> Gates]
  BY <1>4, <1>10
<1> QED
  BY <1>6, <1>11 DEF r

\* The first round may be made beforehand.
LEMMA SiftShift ==
  ASSUME NEW x \in Gates, NEW n \in Nat
  PROVE  Rounds(Sift, Sift(x))[n] = Rounds(Sift, x)[n + 1]
<1> DEFINE r == Rounds(Sift, x)
           q == Rounds(Sift, Sift(x))
           U == {k \in Nat : q[k] = r[k + 1]}
<1>1. r[0] = x /\ \A k \in Nat : r[k + 1] = Sift(r[k])
  BY SiftRounds
<1>2. q[0] = Sift(x) /\ \A k \in Nat : q[k + 1] = Sift(q[k])
  BY SiftType, SiftRounds
<1> HIDE DEF r, q
<1>3. 0 \in U
  BY <1>1, <1>2
<1>4. \A k \in Nat : k \in U => k + 1 \in U
  BY <1>1, <1>2
<1> HIDE DEF U
<1>5. n \in U
  BY <1>3, <1>4, Induct
<1> QED
  BY <1>5 DEF U, r, q

Settled(g) == Sift(g) = g

\* Once a round changes nothing, no later one does.
LEMMA SiftStays ==
  ASSUME NEW x \in Gates, NEW m \in Nat, NEW n \in Nat, m <= n,
         Settled(Rounds(Sift, x)[m])
  PROVE  Rounds(Sift, x)[n] = Rounds(Sift, x)[m]
<1> DEFINE r == Rounds(Sift, x)
           U == {k \in Nat : m <= k => r[k] = r[m]}
<1>1. r[0] = x /\ \A k \in Nat : r[k + 1] = Sift(r[k])
  BY SiftRounds
<1>2. Sift(r[m]) = r[m]
  BY DEF Settled
<1> HIDE DEF r
<1>3. 0 \in U
  OBVIOUS
<1>4. ASSUME NEW k \in Nat, k \in U PROVE k + 1 \in U
  <2>1. CASE m <= k
    BY <1>1, <1>2, <1>4, <2>1
  <2>2. CASE ~(m <= k)
    <3>1. m <= k + 1 => k + 1 = m
      BY <2>2
    <3> QED
      BY <3>1
  <2> QED
    BY <2>1, <2>2
<1> HIDE DEF U
<1>5. n \in U
  BY <1>3, <1>4, Induct
<1> QED
  BY <1>5 DEF U, r

\* The gate when its loop has ended.
Settle(g) == Rounds(Sift, g)[Len(g.buf) \div 3 + 1]

LEMMA ThreeLess ==
  ASSUME NEW a \in Nat, NEW b \in Nat, NEW c \in Nat, NEW k \in Nat,
         b + 3 * k <= c, a <= b - 3
  PROVE  a + 3 * (k + 1) <= c
OBVIOUS

LEMMA TooMany ==
  ASSUME NEW a \in Nat, NEW c \in Nat, NEW n \in Nat, 3 * n > c
  PROVE  ~(a + 3 * n <= c)
OBVIOUS

LEMMA ThirdAndOne ==
  ASSUME NEW n \in Nat
  PROVE  n \div 3 + 1 \in Nat /\ 3 * (n \div 3 + 1) > n
OBVIOUS

\* The loop has ended by then.
LEMMA SettleSettles ==
  ASSUME NEW g \in Gates
  PROVE  /\ Len(g.buf) \div 3 + 1 \in Nat
         /\ Settle(g) \in Gates
         /\ Settled(Settle(g))
<1> DEFINE r == Rounds(Sift, g)
           n == Len(g.buf) \div 3 + 1
           Less(k) == Len(r[k].buf) + 3 * k <= Len(g.buf)
           U == {k \in Nat : Sift(r[k]) = r[k] \/ Less(k)}
<1>1. r \in [Nat -> Gates] /\ r[0] = g /\ \A k \in Nat : r[k + 1] = Sift(r[k])
  BY SiftRounds
<1>2. \A h \in Gates : Len(h.buf) \in Nat
  BY GateIs
<1>3. n \in Nat /\ 3 * n > Len(g.buf)
  BY GateIs, ThirdAndOne
<1> HIDE DEF r, n
<1>4. 0 \in U
  BY <1>1, <1>2
<1> HIDE DEF Less
<1>5. ASSUME NEW k \in Nat, k \in U PROVE k + 1 \in U
  <2>1. r[k] \in Gates /\ r[k + 1] = Sift(r[k]) /\ r[k + 1] \in Gates
    BY <1>1
  <2>2. Len(r[k + 1].buf) \in Nat /\ Len(r[k].buf) \in Nat /\ Len(g.buf) \in Nat
    BY <2>1, GateIs
  <2>3. Sift(r[k]) = r[k] \/ Less(k)
    BY <1>5
  <2>4. Sift(r[k + 1]) = r[k + 1] \/ Less(k + 1)
    <3>1. CASE Sift(r[k]) = r[k]
      BY <2>1, <3>1
    <3>2. CASE Less(k)
      <4>1. Sift(r[k + 1]) = r[k + 1] \/ Len(r[k + 1].buf) <= Len(r[k].buf) - 3
        BY <2>1, SiftShrinks
      <4>2. Len(r[k + 1].buf) <= Len(r[k].buf) - 3 => Less(k + 1)
        BY <2>2, <3>2, ThreeLess DEF Less
      <4> QED
        BY <4>1, <4>2
    <3> QED
      BY <2>3, <3>1, <3>2
  <2> QED
    BY <2>4
<1> HIDE DEF U
<1>6. n \in U
  BY <1>3, <1>4, <1>5, Induct
<1>7. Len(r[n].buf) \in Nat /\ Len(g.buf) \in Nat
  BY <1>1, <1>2, <1>3
<1>8. Sift(r[n]) = r[n] \/ Less(n)
  BY <1>6 DEF U
<1>9. ~Less(n)
  BY <1>3, <1>7, TooMany DEF Less
<1>10. Settle(g) = r[n]
  BY DEF Settle, r, n
<1> QED
  BY <1>1, <1>3, <1>8, <1>9, <1>10 DEF n, Settled

\* Whenever the loop has ended, the gate is the same.
LEMMA SettleAny ==
  ASSUME NEW g \in Gates, NEW n \in Nat, Settled(Rounds(Sift, g)[n])
  PROVE  Settle(g) = Rounds(Sift, g)[n]
<1> DEFINE m == Len(g.buf) \div 3 + 1
<1>1. m \in Nat /\ Settled(Rounds(Sift, g)[m]) /\ Settle(g) = Rounds(Sift, g)[m]
  BY SettleSettles DEF Settle
<1> HIDE DEF m
<1>2. CASE m <= n
  BY <1>1, <1>2, SiftStays
<1>3. CASE n <= m
  BY <1>1, <1>3, SiftStays
<1> QED
  BY <1>1, <1>2, <1>3

LEMMA SettleStep ==
  ASSUME NEW g \in Gates
  PROVE  Settle(Sift(g)) = Settle(g)
<1> DEFINE h == Sift(g)
           n == Len(h.buf) \div 3 + 1
<1>1. h \in Gates
  BY SiftType
<1>2. n \in Nat /\ Settled(Settle(h))
  BY <1>1, SettleSettles
<1>3. Settle(h) = Rounds(Sift, h)[n]
  BY DEF Settle
<1> HIDE DEF n
<1>4. Settle(h) = Rounds(Sift, g)[n + 1]
  BY <1>2, <1>3, SiftShift
<1> HIDE DEF h
<1>5. Settle(g) = Rounds(Sift, g)[n + 1]
  BY <1>2, <1>4, SettleAny
<1> QED
  BY <1>4, <1>5 DEF h

LEMMA SettleGrows ==
  ASSUME NEW g \in Gates
  PROVE  IsPrefix(g.sent, Settle(g).sent)
<1> DEFINE r == Rounds(Sift, g)
           n == Len(g.buf) \div 3 + 1
           U == {k \in Nat : IsPrefix(g.sent, r[k].sent)}
<1>1. r \in [Nat -> Gates] /\ r[0] = g /\ \A k \in Nat : r[k + 1] = Sift(r[k])
  BY SiftRounds
<1>2. \A h \in Gates : h.sent \in Seq(Char)
  BY DEF Gates
<1>3. n \in Nat /\ Settle(g) = r[n]
  BY SettleSettles DEF Settle
<1> HIDE DEF r, n
<1>4. 0 \in U
  BY <1>1, <1>2, PrefixIs
<1>5. ASSUME NEW k \in Nat, k \in U PROVE k + 1 \in U
  <2>1. r[k] \in Gates /\ r[k + 1] \in Gates /\ IsPrefix(r[k].sent, r[k + 1].sent)
    BY <1>1, SiftGrows
  <2>2. IsPrefix(g.sent, r[k + 1].sent)
    BY <1>2, <1>5, <2>1, PrefixTrans
  <2> QED
    BY <2>2
<1> HIDE DEF U
<1>6. n \in U
  BY <1>3, <1>4, <1>5, Induct
<1> QED
  BY <1>3, <1>6 DEF U

-------------------------------------------------------------------------------
\* The gate: more text.

Feed(g, d) == [g EXCEPT !.buf = @ \o d]

LEMMA FeedIs ==
  ASSUME NEW g \in Gates, NEW d \in Seq(Char)
  PROVE  /\ Feed(g, d) = [buf |-> g.buf \o d, sent |-> g.sent, inFence |-> g.inFence]
         /\ Feed(g, d) \in Gates
<1>1. g.buf \o d \in Seq(Char)
  BY GateIs, ConcatProperties
<1> DEFINE b == g.buf \o d
<1>2. Feed(g, d) = [g EXCEPT !.buf = b]
  BY DEF Feed
<1> HIDE DEF b
<1>3. Feed(g, d) = [buf |-> b, sent |-> g.sent, inFence |-> g.inFence]
  BY <1>2 DEF Gates
<1>4. [buf |-> b, sent |-> g.sent, inFence |-> g.inFence] \in Gates
  BY <1>1, GateIs DEF Gates, b
<1> QED
  BY <1>3, <1>4 DEF b

LEMMA PushIs ==
  ASSUME NEW g \in Gates, NEW d \in Seq(Char)
  PROVE  Push(g, d) = Settle(Feed(g, d))
<1>1. Feed(g, d).buf = g.buf \o d
  <2> DEFINE b == g.buf \o d
  <2>1. Feed(g, d) = [buf |-> b, sent |-> g.sent, inFence |-> g.inFence]
    BY FeedIs
  <2> HIDE DEF b
  <2>2. Feed(g, d).buf = b
    BY <2>1
  <2> QED
    BY <2>2 DEF b
<1>2. Push(g, d) = Rounds(Sift, Feed(g, d))[Len(g.buf \o d) \div 3 + 1]
  BY CloseIs DEF Push, Exhaust, Feed
<1> QED
  BY <1>1, <1>2 DEF Settle

\* While a fence is open, a round leaves the same with more text.
LEMMA FeedLeaves ==
  ASSUME NEW g \in Gates, NEW d \in Seq(Char), g.inFence, First(g.buf, FenceClose) # 0
  PROVE  Sift(Feed(g, d)) = Feed(Sift(g), d)
<1> DEFINE c == First(g.buf, FenceClose)
           f == Feed(g, d)
           b == After(g.buf, c + 2)
<1>1. g.buf \in Seq(Char) /\ g.buf \o d \in Seq(Char)
  BY GateIs, ConcatProperties
<1>2. /\ c + 2 \in 0 .. Len(g.buf)
      /\ Sift(g) = [buf |-> b, sent |-> g.sent, inFence |-> FALSE]
      /\ Sift(g) \in Gates
  BY SiftLeaves
<1>3. First(g.buf \o d, FenceClose) = c
  BY <1>1, CloseIs, FirstStable
<1>4. f \in Gates /\ f = [buf |-> g.buf \o d, sent |-> g.sent, inFence |-> g.inFence]
  BY FeedIs
<1>5. Feed(Sift(g), d) = [buf |-> Sift(g).buf \o d, sent |-> Sift(g).sent, inFence |-> Sift(g).inFence]
  BY <1>2, FeedIs
<1> HIDE DEF f, b
<1>6. Feed(Sift(g), d) = [buf |-> b \o d, sent |-> g.sent, inFence |-> FALSE]
  BY <1>2, <1>5
<1>7. After(g.buf \o d, c + 2) = b \o d
  BY <1>1, <1>2, AfterConcat DEF b
<1>8. f.inFence /\ f.buf = g.buf \o d /\ f.sent = g.sent
  BY <1>4
<1>9. Sift(f) = [buf |-> After(f.buf, First(f.buf, FenceClose) + 2), sent |-> f.sent, inFence |-> FALSE]
  BY <1>3, <1>4, <1>8, SiftLeaves
<1>10. Sift(f) = [buf |-> b \o d, sent |-> g.sent, inFence |-> FALSE]
  BY <1>3, <1>7, <1>8, <1>9
<1> QED
  BY <1>6, <1>10 DEF f

LEMMA FeedEnters ==
  ASSUME NEW g \in Gates, NEW d \in Seq(Char), ~g.inFence, First(g.buf, FenceOpen) # 0
  PROVE  Sift(Feed(g, d)) = Feed(Sift(g), d)
<1> DEFINE c == First(g.buf, FenceOpen)
           f == Feed(g, d)
           b == After(g.buf, c + 4)
           s == g.sent \o Upto(g.buf, c)
<1>1. g.buf \in Seq(Char) /\ g.buf \o d \in Seq(Char)
  BY GateIs, ConcatProperties
<1>2. /\ c + 4 \in 0 .. Len(g.buf)
      /\ c \in 1 .. Len(g.buf) + 1
      /\ Sift(g) = [buf |-> b, sent |-> s, inFence |-> TRUE]
      /\ Sift(g) \in Gates
  BY SiftEnters
<1>3. First(g.buf \o d, FenceOpen) = c
  BY <1>1, OpenIs, FirstStable
<1>4. f \in Gates /\ f = [buf |-> g.buf \o d, sent |-> g.sent, inFence |-> g.inFence]
  BY FeedIs
<1>5. Feed(Sift(g), d) = [buf |-> Sift(g).buf \o d, sent |-> Sift(g).sent, inFence |-> Sift(g).inFence]
  BY <1>2, FeedIs
<1> HIDE DEF f, b, s
<1>6. Feed(Sift(g), d) = [buf |-> b \o d, sent |-> s, inFence |-> TRUE]
  BY <1>2, <1>5
<1>7. After(g.buf \o d, c + 4) = b \o d
  BY <1>1, <1>2, AfterConcat DEF b
<1>8. g.sent \o Upto(g.buf \o d, c) = s
  BY <1>1, <1>2, UptoConcat DEF s
<1>9. ~f.inFence /\ f.buf = g.buf \o d /\ f.sent = g.sent
  BY <1>4
<1>10. Sift(f) = [buf |-> After(f.buf, First(f.buf, FenceOpen) + 4),
                  sent |-> f.sent \o Upto(f.buf, First(f.buf, FenceOpen)), inFence |-> TRUE]
  BY <1>3, <1>4, <1>9, SiftEnters
<1>11. Sift(f) = [buf |-> b \o d, sent |-> s, inFence |-> TRUE]
  BY <1>3, <1>7, <1>8, <1>9, <1>10
<1> QED
  BY <1>6, <1>11 DEF f

\* No fence begins in what a round sends: a fence that more text completes
\* begins behind it.
LEMMA FenceBehind ==
  ASSUME NEW b \in Seq(Char), NEW d \in Seq(Char), First(b, FenceOpen) = 0,
         NEW keep, keep = Len(b) - Held(b), NEW i, Hit(b \o d, FenceOpen, i)
  PROVE  i > keep
<1> DEFINE t == b \o d
<1>1. /\ t \in Seq(Char)
      /\ Len(t) = Len(b) + Len(d)
      /\ \A k \in 1 .. Len(b) + Len(d) : t[k] = IF k <= Len(b) THEN b[k] ELSE d[k - Len(b)]
  BY ConcatProperties
<1>2. /\ Held(b) \in 0 .. 4
      /\ Held(b) <= Len(b)
      /\ \A k : HeldAt(b, k) => k <= Held(b)
  BY HeldIs
<1>3. i \in 1 .. Len(t) - 5 + 1 /\ \A k \in 1 .. 5 : t[i + k - 1] = FenceOpen[k]
  BY OpenIs DEF Hit
<1>4. ~(i \in 1 .. Len(b) - 5 + 1)
  <2> SUFFICES ASSUME i \in 1 .. Len(b) - 5 + 1 PROVE FALSE
    OBVIOUS
  <2>1. i \in 1 .. Len(b) - Len(FenceOpen) + 1
    BY OpenIs
  <2>2. Hit(b, FenceOpen, i)
    BY <2>1, OpenIs, HitConcat
  <2> QED
    BY <2>2, OpenIs, FirstIs
<1> HIDE DEF t
<1>5. CASE i <= Len(b)
  <2> DEFINE k == Len(b) - i + 1
  <2>1. k \in 1 .. 4 /\ k <= Len(b) /\ Len(b) - k = i - 1
    BY <1>1, <1>3, <1>4, <1>5, SMTT(30)
  <2>2. ASSUME NEW j \in 1 .. k PROVE FenceOpen[j] = b[Len(b) - k + j]
    <3>1. i + j - 1 \in 1 .. Len(b) /\ j \in 1 .. 5 /\ Len(b) - k + j = i + j - 1
      BY <1>1, <1>3, <2>1, SMTT(30)
    <3>2. t[i + j - 1] = b[i + j - 1]
      BY <1>1, <3>1
    <3> QED
      BY <1>3, <3>1, <3>2
  <2>3. HeldAt(b, k)
    BY <2>1, <2>2 DEF HeldAt
  <2>4. k <= Held(b)
    BY <1>2, <2>3
  <2>5. Held(b) \in Nat /\ i \in Nat /\ Len(b) \in Nat
    BY <1>2, <1>3, SMTT(30)
  <2> QED
    BY <2>4, <2>5
<1>6. CASE ~(i <= Len(b))
  <2>1. Held(b) \in Nat /\ i \in Nat /\ Len(b) \in Nat
    BY <1>2, <1>3, SMTT(30)
  <2> QED
    BY <1>6, <2>1
<1> QED
  BY <1>5, <1>6

\* What a round holds back is still held back with more text, or there is no
\* more of it to hold back.
LEMMA HeldOn ==
  ASSUME NEW b \in Seq(Char), NEW d \in Seq(Char), NEW keep, keep = Len(b) - Held(b)
  PROVE  Held(After(b \o d, keep)) = Held(b \o d)
<1> DEFINE t == b \o d
           v == After(t, keep)
           k == Held(t)
<1>1. /\ t \in Seq(Char)
      /\ Len(t) = Len(b) + Len(d)
      /\ \A j \in 1 .. Len(b) + Len(d) : t[j] = IF j <= Len(b) THEN b[j] ELSE d[j - Len(b)]
  BY ConcatProperties
<1>2. /\ Held(b) \in 0 .. 4
      /\ Held(b) <= Len(b)
      /\ \A j : HeldAt(b, j) => j <= Held(b)
  BY HeldIs
<1>3. keep \in 0 .. Len(t) /\ keep <= Len(b)
  BY <1>1, <1>2
<1> HIDE DEF t
<1>4. k \in 0 .. 4 /\ k <= Len(t) /\ (k # 0 => HeldAt(t, k)) /\ \A j : HeldAt(t, j) => j <= k
  BY <1>1, HeldIs
<1>5. v \in Seq(Char)
  BY <1>1, <1>3, AfterIs
<1>6. /\ Held(v) \in 0 .. 4
      /\ Held(v) # 0 => HeldAt(v, Held(v))
      /\ \A j : HeldAt(v, j) => j <= Held(v)
  BY <1>5, HeldIs
<1>7. \A j : HeldAt(v, j) <=> HeldAt(t, j) /\ j <= Len(t) - keep
  BY <1>1, <1>3, HeldAfter
<1> HIDE DEF k, v
<1>8. k <= Len(t) - keep
  <2>1. CASE k <= Len(d)
    BY <1>1, <1>2, <1>3, <1>4, <2>1
  <2>2. CASE ~(k <= Len(d))
    <3> DEFINE m == k - Len(d)
    <3>1. m \in 1 .. 4 /\ m <= Len(b) /\ HeldAt(t, k)
      BY <1>1, <1>4, <2>2
    <3>2. ASSUME NEW j \in 1 .. m PROVE FenceOpen[j] = b[Len(b) - m + j]
      <4>1. j \in 1 .. k /\ Len(t) - k + j = Len(b) - m + j /\ Len(b) - m + j \in 1 .. Len(b)
        BY <1>1, <1>4, <3>1
      <4>2. FenceOpen[j] = t[Len(t) - k + j]
        BY <3>1, <4>1 DEF HeldAt
      <4>3. t[Len(b) - m + j] = b[Len(b) - m + j]
        BY <1>1, <4>1
      <4> QED
        BY <4>1, <4>2, <4>3
    <3>3. HeldAt(b, m)
      BY <3>1, <3>2 DEF HeldAt
    <3>4. m <= Held(b)
      BY <1>2, <3>3
    <3> QED
      BY <1>1, <1>2, <1>4, <3>1, <3>4, SMTT(30)
  <2> QED
    BY <2>1, <2>2
<1>9. Held(v) <= k
  BY <1>4, <1>6, <1>7
<1>10. k <= Held(v)
  BY <1>4, <1>6, <1>7, <1>8
<1>11. Held(v) = k
  BY <1>4, <1>6, <1>9, <1>10
<1> QED
  BY <1>11 DEF k, v, t

LEMMA UptoFront ==
  ASSUME NEW s, NEW n \in Nat, NEW m, m = n + 1
  PROVE  Upto(s, m) = SubSeq(s, 1, n)
BY DEF Upto

\* When a round sends, it makes no difference whether more text came before it.
LEMMA FeedSends ==
  ASSUME NEW g \in Gates, NEW d \in Seq(Char), ~g.inFence, First(g.buf, FenceOpen) = 0
  PROVE  Sift(Feed(Sift(g), d)) = Sift(Feed(g, d))
<1> DEFINE keep == Len(g.buf) - Held(g.buf)
           t == g.buf \o d
           v == After(t, keep)
           s == g.sent \o SubSeq(t, 1, keep)
           e == Feed(g, d)
           f == Feed(Sift(g), d)
           a == After(g.buf, keep)
           x == g.sent \o SubSeq(g.buf, 1, keep)
<1>0. keep = Len(g.buf) - Held(g.buf)
  OBVIOUS
<1> HIDE DEF keep
<1>1. g.buf \in Seq(Char) /\ g.sent \in Seq(Char) /\ t \in Seq(Char) /\ Len(t) = Len(g.buf) + Len(d)
  BY GateIs, ConcatProperties
<1>2. /\ keep \in 0 .. Len(g.buf)
      /\ Sift(g) = [buf |-> a, sent |-> x, inFence |-> FALSE]
      /\ Sift(g) \in Gates
  BY <1>0, SiftSends
<1>3. keep \in 0 .. Len(t)
  BY <1>1, <1>2
<1>4. a \o d = v
  BY <1>1, <1>2, AfterConcat
<1>5. SubSeq(g.buf, 1, keep) = SubSeq(t, 1, keep)
  <2>1. keep + 1 \in 1 .. Len(g.buf) + 1
    BY <1>1, <1>2
  <2>2. Upto(t, keep + 1) = Upto(g.buf, keep + 1)
    BY <1>1, <2>1, UptoConcat
  <2>3. Upto(t, keep + 1) = SubSeq(t, 1, keep) /\ Upto(g.buf, keep + 1) = SubSeq(g.buf, 1, keep)
    <3> DEFINE m == keep + 1
    <3>1. keep \in Nat /\ m = keep + 1
      BY <1>2
    <3> HIDE DEF m
    <3>2. Upto(t, m) = SubSeq(t, 1, keep) /\ Upto(g.buf, m) = SubSeq(g.buf, 1, keep)
      BY <3>1, UptoFront
    <3> QED
      BY <3>2 DEF m
  <2> QED
    BY <2>2, <2>3
<1>6. v \in Seq(Char) /\ Len(v) = Len(t) - keep
  BY <1>1, <1>3, AfterIs
<1>7. Held(v) = Held(t)
  BY <1>0, <1>1, HeldOn
<1>8. \A i : Hit(t, FenceOpen, i) => i > keep
  BY <1>0, <1>1, FenceBehind
<1>9. e \in Gates /\ e = [buf |-> t, sent |-> g.sent, inFence |-> g.inFence] /\ g.inFence = FALSE
  BY FeedIs, GateIs
<1>10. f \in Gates /\ f = [buf |-> Sift(g).buf \o d, sent |-> Sift(g).sent, inFence |-> Sift(g).inFence]
  BY <1>2, FeedIs
<1>11. f = [buf |-> v, sent |-> s, inFence |-> FALSE]
  <2>1. x = s
    BY <1>5
  <2> HIDE DEF a, x, f, v, s
  <2>2. Sift(g).buf = a /\ Sift(g).sent = x /\ Sift(g).inFence = FALSE
    BY <1>2
  <2> QED
    BY <1>4, <1>10, <2>1, <2>2
<1>12. SubSeq(t, 1, keep) \in Seq(Char)
  BY <1>1, <1>3, FrontIs
<1> HIDE DEF e, f, t, v, s, a, x
<1>13. e.buf = t /\ e.sent = g.sent /\ ~e.inFence
  BY <1>9
<1>14. f.buf = v /\ f.sent = s /\ ~f.inFence
  BY <1>11
<1>15. CASE First(t, FenceOpen) # 0
  <2> DEFINE i == First(t, FenceOpen)
             j == i - keep
  <2>1. i \in Nat /\ Hit(t, FenceOpen, i) /\ \A k : Hit(t, FenceOpen, k) => i <= k
    BY <1>1, <1>15, OpenIs, FirstIs
  <2>2. i > keep
    BY <1>8, <2>1
  <2> HIDE DEF i
  <2>3. j \in Nat \ {0} /\ keep + j = i
    BY <1>3, <2>1, <2>2
  <2>4. Hit(v, FenceOpen, j)
    BY <1>1, <1>3, <2>1, <2>3, OpenIs, HitAfter DEF v
  <2> HIDE DEF j
  <2>5. ASSUME NEW k \in 1 .. j - 1 PROVE ~Hit(v, FenceOpen, k)
    <3>1. k \in Nat \ {0} /\ ~(i <= keep + k)
      BY <1>3, <2>1, <2>3
    <3>2. ~Hit(t, FenceOpen, keep + k)
      BY <2>1, <3>1
    <3> QED
      BY <1>1, <1>3, <3>1, <3>2, OpenIs, HitAfter DEF v
  <2>6. First(v, FenceOpen) = j
    BY <1>6, <2>4, <2>5, OpenIs, FirstAt
  <2>7. First(v, FenceOpen) # 0
    BY <2>3, <2>6
  <2>8. /\ Sift(e) = [buf |-> After(t, i + 4), sent |-> g.sent \o Upto(t, i), inFence |-> TRUE]
        /\ i + 4 \in 0 .. Len(t)
        /\ i \in 1 .. Len(t) + 1
    BY <1>9, <1>13, <1>15, SiftEnters DEF i
  <2>9. /\ Sift(f) = [buf |-> After(v, j + 4), sent |-> s \o Upto(v, j), inFence |-> TRUE]
        /\ j + 4 \in 0 .. Len(v)
        /\ j \in 1 .. Len(v) + 1
    BY <1>10, <1>14, <2>6, <2>7, SiftEnters
  <2>10. After(v, j + 4) = After(t, i + 4)
    <3>1. j + 4 \in 0 .. Len(t) - keep /\ keep + (j + 4) = i + 4
      BY <1>3, <1>6, <2>1, <2>3, <2>9
    <3> QED
      BY <1>1, <1>3, <3>1, AfterAfter DEF v
  <2>11. SubSeq(t, 1, keep) \o Upto(v, j) = Upto(t, i)
    <3>1. j \in 1 .. Len(t) - keep + 1
      BY <1>6, <2>9
    <3> QED
      BY <1>1, <1>3, <2>3, <3>1, UptoAfter DEF v
  <2>12. Upto(v, j) \in Seq(Char)
    BY <1>6, <2>9, UptoIs
  <2>13. s \o Upto(v, j) = g.sent \o Upto(t, i)
    <3> DEFINE p == SubSeq(t, 1, keep)
               q == Upto(v, j)
               w == Upto(t, i)
               u == g.sent
    <3>1. p \o q = w /\ s = u \o p
      BY <2>11 DEF s
    <3>2. u \in Seq(Char) /\ p \in Seq(Char) /\ q \in Seq(Char)
      BY <1>1, <1>12, <2>12
    <3> HIDE DEF p, q, w, u
    <3>3. (u \o p) \o q = u \o (p \o q)
      BY <3>2, ConcatAssociative, SMTT(30)
    <3> QED
      BY <3>1, <3>3 DEF q, w, u
  <2> QED
    BY <2>8, <2>9, <2>10, <2>13 DEF e, f
<1>16. CASE First(t, FenceOpen) = 0
  <2> DEFINE k == Len(t) - Held(t)
             n == Len(v) - Held(v)
  <2>1. First(v, FenceOpen) = 0
    <3> SUFFICES ASSUME First(v, FenceOpen) # 0 PROVE FALSE
      OBVIOUS
    <3>1. First(v, FenceOpen) \in Nat \ {0} /\ Hit(v, FenceOpen, First(v, FenceOpen))
      BY <1>6, OpenIs, FirstIs
    <3>2. Hit(t, FenceOpen, keep + First(v, FenceOpen))
      BY <1>1, <1>3, <3>1, OpenIs, HitAfter DEF v
    <3> QED
      BY <1>1, <1>16, <3>2, OpenIs, FirstIs
  <2>2. k \in 0 .. Len(t) /\ Sift(e) = [buf |-> After(t, k), sent |-> g.sent \o SubSeq(t, 1, k),
                                        inFence |-> FALSE]
    BY <1>9, <1>13, <1>16, SiftSends
  <2>3. n \in 0 .. Len(v) /\ Sift(f) = [buf |-> After(v, n), sent |-> s \o SubSeq(v, 1, n),
                                        inFence |-> FALSE]
    BY <1>10, <1>14, <2>1, SiftSends
  <2>4. keep + n = k /\ n \in 0 .. Len(t) - keep
    <3>0. Held(t) \in 0 .. 4
      BY <1>1, HeldIs
    <3>1. Len(t) \in Nat /\ Held(t) \in Nat /\ keep \in Nat
      BY <1>1, <1>3, <3>0
    <3>2. n = Len(t) - keep - Held(t) /\ n \in 0 .. Len(t) - keep
      BY <1>6, <1>7, <2>3
    <3>3. k = Len(t) - Held(t)
      OBVIOUS
    <3> HIDE DEF n, k
    <3> QED
      BY <3>1, <3>2, <3>3
  <2> HIDE DEF k, n
  <2>5. After(v, n) = After(t, k)
    BY <1>1, <1>3, <2>4, AfterAfter DEF v
  <2>6. SubSeq(t, 1, keep) \o SubSeq(v, 1, n) = SubSeq(t, 1, k)
    BY <1>1, <1>3, <2>4, FrontFront, ZenonT(60) DEF v
  <2>7. SubSeq(v, 1, n) \in Seq(Char)
    BY <1>6, <2>3, FrontIs
  <2>8. s \o SubSeq(v, 1, n) = g.sent \o SubSeq(t, 1, k)
    <3> DEFINE p == SubSeq(t, 1, keep)
               q == SubSeq(v, 1, n)
               w == SubSeq(t, 1, k)
               u == g.sent
    <3>1. p \o q = w /\ s = u \o p
      BY <2>6 DEF s
    <3>2. u \in Seq(Char) /\ p \in Seq(Char) /\ q \in Seq(Char)
      BY <1>1, <1>12, <2>7
    <3> HIDE DEF p, q, w, u
    <3>3. (u \o p) \o q = u \o (p \o q)
      BY <3>2, ConcatAssociative, SMTT(30)
    <3> QED
      BY <3>1, <3>3 DEF q, w, u
  <2> QED
    BY <2>2, <2>3, <2>5, <2>8 DEF e, f
<1> QED
  BY <1>15, <1>16

\* How the text is cut into deltas makes no difference to the gate.

LEMMA FeedStep ==
  ASSUME NEW g \in Gates, NEW d \in Seq(Char)
  PROVE  Settle(Feed(Sift(g), d)) = Settle(Feed(g, d))
<1>1. Feed(g, d) \in Gates /\ Feed(Sift(g), d) \in Gates
  BY SiftType, FeedIs
<1>2. g.inFence \in BOOLEAN
  BY GateIs
<1>3. CASE g.inFence /\ First(g.buf, FenceClose) = 0
  BY <1>3, SiftWaits
<1>4. CASE g.inFence /\ First(g.buf, FenceClose) # 0
  <2>1. Sift(Feed(g, d)) = Feed(Sift(g), d)
    BY <1>4, FeedLeaves
  <2> QED
    BY <1>1, <2>1, SettleStep
<1>5. CASE ~g.inFence /\ First(g.buf, FenceOpen) # 0
  <2>1. Sift(Feed(g, d)) = Feed(Sift(g), d)
    BY <1>5, FeedEnters
  <2> QED
    BY <1>1, <2>1, SettleStep
<1>6. CASE ~g.inFence /\ First(g.buf, FenceOpen) = 0
  <2>1. Sift(Feed(Sift(g), d)) = Sift(Feed(g, d))
    BY <1>6, FeedSends
  <2>2. Settle(Sift(Feed(g, d))) = Settle(Feed(g, d))
    BY <1>1, SettleStep
  <2>3. Settle(Sift(Feed(Sift(g), d))) = Settle(Feed(Sift(g), d))
    BY <1>1, SettleStep
  <2> QED
    BY <2>1, <2>2, <2>3
<1> QED
  BY <1>2, <1>3, <1>4, <1>5, <1>6

LEMMA FeedSettled ==
  ASSUME NEW g \in Gates, NEW d \in Seq(Char)
  PROVE  Settle(Feed(Settle(g), d)) = Settle(Feed(g, d))
<1> DEFINE r == Rounds(Sift, g)
           n == Len(g.buf) \div 3 + 1
           U == {k \in Nat : Settle(Feed(r[k], d)) = Settle(Feed(g, d))}
<1>1. r \in [Nat -> Gates] /\ r[0] = g /\ \A k \in Nat : r[k + 1] = Sift(r[k])
  BY SiftRounds
<1>2. n \in Nat /\ Settle(g) = r[n]
  BY SettleSettles DEF Settle
<1> HIDE DEF r, n
<1>3. 0 \in U
  BY <1>1
<1>4. ASSUME NEW k \in Nat, k \in U PROVE k + 1 \in U
  <2>1. r[k] \in Gates /\ r[k + 1] = Sift(r[k])
    BY <1>1
  <2>2. Settle(Feed(r[k], d)) = Settle(Feed(g, d))
    BY <1>4
  <2>3. Settle(Feed(Sift(r[k]), d)) = Settle(Feed(r[k], d))
    BY <2>1, FeedStep
  <2>4. Settle(Feed(r[k + 1], d)) = Settle(Feed(g, d))
    BY <2>1, <2>2, <2>3
  <2> QED
    BY <2>4
<1> HIDE DEF U
<1>5. n \in U
  BY <1>2, <1>3, <1>4, Induct
<1> QED
  BY <1>2, <1>5 DEF U

LEMMA FeedFeed ==
  ASSUME NEW g \in Gates, NEW d \in Seq(Char), NEW e \in Seq(Char)
  PROVE  Feed(Feed(g, d), e) = Feed(g, d \o e)
<1> DEFINE b == g.buf
           s == g.sent
           i == g.inFence
           f == Feed(g, d)
           bd == b \o d
           de == d \o e
<1>1. b \in Seq(Char) /\ d \in Seq(Char) /\ e \in Seq(Char)
  BY GateIs
<1>2. f = [buf |-> bd, sent |-> s, inFence |-> i] /\ f \in Gates
  BY FeedIs
<1>3. de \in Seq(Char)
  BY ConcatProperties
<1> HIDE DEF f, bd, de
<1>4. Feed(f, e) = [buf |-> f.buf \o e, sent |-> f.sent, inFence |-> f.inFence]
  BY <1>2, FeedIs
<1>5. f.buf = bd /\ f.sent = s /\ f.inFence = i
  BY <1>2
<1>6. Feed(g, de) = [buf |-> b \o de, sent |-> s, inFence |-> i]
  BY <1>3, FeedIs
<1> HIDE DEF b, s, i
<1>7. (b \o d) \o e = b \o (d \o e)
  BY <1>1, ConcatAssociative
<1>8. bd \o e = b \o de
  BY <1>7 DEF bd, de
<1>9. Feed(f, e) = Feed(g, de)
  BY <1>4, <1>5, <1>6, <1>8
<1> QED
  BY <1>9 DEF f, de

LEMMA PushType ==
  ASSUME NEW g \in Gates, NEW d \in Seq(Char)
  PROVE  /\ Push(g, d) \in Gates
         /\ IsPrefix(g.sent, Push(g, d).sent)
<1> DEFINE f == Feed(g, d)
<1>1. f \in Gates /\ f = [buf |-> g.buf \o d, sent |-> g.sent, inFence |-> g.inFence]
  BY FeedIs
<1>2. Push(g, d) = Settle(f)
  BY PushIs
<1> HIDE DEF f
<1>3. f.sent = g.sent
  BY <1>1
<1>4. Settle(f) \in Gates /\ IsPrefix(f.sent, Settle(f).sent)
  BY <1>1, SettleSettles, SettleGrows
<1> QED
  BY <1>2, <1>3, <1>4

LEMMA PushTwice ==
  ASSUME NEW g \in Gates, NEW d \in Seq(Char), NEW e \in Seq(Char)
  PROVE  Push(Push(g, d), e) = Push(g, d \o e)
<1>1. Push(g, d) \in Gates /\ Feed(g, d) \in Gates /\ d \o e \in Seq(Char)
  BY PushType, FeedIs, ConcatProperties
<1>2. Push(Push(g, d), e) = Settle(Feed(Push(g, d), e))
  BY <1>1, PushIs
<1>3. Push(g, d) = Settle(Feed(g, d))
  BY PushIs
<1>4. Settle(Feed(Settle(Feed(g, d)), e)) = Settle(Feed(Feed(g, d), e))
  BY <1>1, FeedSettled
<1>5. Feed(Feed(g, d), e) = Feed(g, d \o e)
  BY FeedFeed
<1>6. Push(g, d \o e) = Settle(Feed(g, d \o e))
  BY <1>1, PushIs
<1> QED
  BY <1>2, <1>3, <1>4, <1>5, <1>6

LEMMA NewGateIs ==
  /\ NewGate \in Gates
  /\ NewGate.sent = <<>>
  /\ Push(NewGate, <<>>) = NewGate
<1>1. NewGate \in Gates /\ NewGate.sent = <<>> /\ NewGate.buf = <<>> /\ ~NewGate.inFence
  BY DEF NewGate, Gates
<1>2. <<>> \in Seq(Char) /\ Len(<<>>) = 0
  OBVIOUS
<1>3. Feed(NewGate, <<>>) = NewGate
  <2>1. <<>> \o <<>> = <<>>
    BY <1>2, ConcatEmptySeq
  <2> QED
    BY <1>1, <1>2, <2>1, FeedIs DEF NewGate
<1>4. Sift(NewGate) = NewGate
  <2>1. First(<<>>, FenceOpen) = 0
    <3>1. \A i : ~Hit(<<>>, FenceOpen, i)
      BY OpenIs DEF Hit
    <3> QED
      BY <1>2, <3>1, OpenIs, FirstIs
  <2>2. Held(<<>>) = 0
    <3> DEFINE e == <<>>
    <3>1. e \in Seq(Char) /\ Len(e) = 0
      BY <1>2
    <3> HIDE DEF e
    <3>2. Held(e) \in 0 .. 4 /\ Held(e) <= Len(e)
      BY <3>1, HeldIs
    <3>3. Held(e) = 0
      BY <3>1, <3>2
    <3> QED
      BY <3>3 DEF e
  <2> DEFINE keep == Len(NewGate.buf) - Held(NewGate.buf)
  <2>3. keep = 0
    BY <1>1, <1>2, <2>2
  <2>4. Sift(NewGate) = [buf |-> After(NewGate.buf, keep),
                        sent |-> NewGate.sent \o SubSeq(NewGate.buf, 1, keep), inFence |-> FALSE]
    BY <1>1, <2>1, SiftSends
  <2>5. After(<<>>, 0) = <<>> /\ SubSeq(<<>>, 1, 0) = <<>> /\ <<>> \o <<>> = <<>>
    BY <1>2, SubSeqEmpty, ConcatEmptySeq DEF After
  <2> HIDE DEF keep
  <2>6. Sift(NewGate) = [buf |-> <<>>, sent |-> <<>>, inFence |-> FALSE]
    BY <1>1, <2>3, <2>4, <2>5
  <2> QED
    BY <2>6 DEF NewGate
<1>5. Rounds(Sift, NewGate)[0] = NewGate
  BY <1>1, SiftRounds
<1>6. Settle(NewGate) = NewGate
  BY <1>1, <1>4, <1>5, SettleAny DEF Settled
<1> QED
  BY <1>1, <1>2, <1>3, <1>6, PushIs

-------------------------------------------------------------------------------
\* Cutting whole blocks out of a text.

Cuts == [text : Seq(Char), rest : Seq(Char), blocks : Seq(Seq(Char))]

NewCut(s) == [text |-> <<>>, rest |-> s, blocks |-> <<>>]

LEMMA NewCutIs ==
  ASSUME NEW s \in Seq(Char)
  PROVE  NewCut(s) \in Cuts
BY DEF NewCut, Cuts

LEMMA CutIs ==
  ASSUME NEW st \in Cuts
  PROVE  /\ st.text \in Seq(Char)
         /\ st.rest \in Seq(Char)
         /\ Len(st.rest) \in Nat
         /\ st.blocks \in Seq(Seq(Char))
BY DEF Cuts

\* No further block: nothing changes.  Otherwise the rest gets shorter by the
\* fences of one.
Inner(st, open) == After(st.rest, First(st.rest, open) + Len(open) - 1)
HasBlock(st, open) == First(st.rest, open) # 0 /\ First(Inner(st, open), FenceClose) # 0

LEMMA CutBlockIs ==
  ASSUME NEW st \in Cuts, NEW open \in Seq(Char), Len(open) \in Nat \ {0}, NEW eats \in BOOLEAN,
         HasBlock(st, open)
  PROVE  /\ First(st.rest, open) \in 1 .. Len(st.rest) + 1
         /\ First(st.rest, open) + Len(open) - 1 \in 0 .. Len(st.rest)
         /\ Inner(st, open) \in Seq(Char)
         /\ First(Inner(st, open), FenceClose) + 2 \in 0 .. Len(Inner(st, open))
         /\ CutBlock(st, open, eats) \in Cuts
         /\ CutBlock(st, open, eats).text = st.text \o Upto(st.rest, First(st.rest, open))
         /\ Len(CutBlock(st, open, eats).rest) <= Len(st.rest) - 3
         /\ ~eats => CutBlock(st, open, eats).rest
                        = After(Inner(st, open), First(Inner(st, open), FenceClose) + 2)
<1> DEFINE i == First(st.rest, open)
           inner == Inner(st, open)
           j == First(inner, FenceClose)
           tail == After(inner, j + 2)
           eaten == eats /\ tail # <<>> /\ Head(tail) = Blank
           rest == IF eaten THEN Tail(tail) ELSE tail
           text == st.text \o Upto(st.rest, i)
           block == Upto(inner, j)
           blocks == Append(st.blocks, block)
<1>1. /\ st.text \in Seq(Char)
      /\ st.rest \in Seq(Char)
      /\ st.blocks \in Seq(Seq(Char))
  BY CutIs
<1>2. inner = After(st.rest, i + Len(open) - 1) /\ i # 0 /\ j # 0
  BY DEF Inner, HasBlock
<1>3. i \in Nat /\ Hit(st.rest, open, i)
  BY <1>1, <1>2, FirstIs
<1> HIDE DEF i
<1>4. i \in 1 .. Len(st.rest) - Len(open) + 1
  BY <1>3 DEF Hit
<1>5. i \in 1 .. Len(st.rest) + 1 /\ i + Len(open) - 1 \in 0 .. Len(st.rest)
  BY <1>1, <1>4
<1>6. inner \in Seq(Char) /\ Len(inner) = Len(st.rest) - (i + Len(open) - 1)
  BY <1>2, <1>1, <1>5, AfterIs, ZenonT(60)
<1>7. j \in Nat /\ Hit(inner, FenceClose, j)
  BY <1>6, <1>2, CloseIs, FirstIs
<1>8. j \in 1 .. Len(inner) - 3 + 1
  BY <1>7, CloseIs DEF Hit
<1> HIDE DEF inner, j
<1>9. Len(inner) \in Nat
  BY <1>6
<1>10. j + 2 \in 0 .. Len(inner) /\ j \in 1 .. Len(inner) + 1
  BY <1>8, <1>9
<1>11. j + Len(FenceClose) - 1 = j + 2
  BY <1>8, CloseIs
<1>12. tail \in Seq(Char) /\ Len(tail) = Len(inner) - (j + 2)
  BY <1>6, <1>10, AfterIs
<1>13. Upto(st.rest, i) \in Seq(Char)
  BY <1>1, <1>5, UptoIs
<1>14. text \in Seq(Char)
  BY <1>1, <1>13, ConcatProperties
<1>15. block \in Seq(Char)
  BY <1>6, <1>10, UptoIs
<1>16. CutBlock(st, open, eats) = [text |-> text, rest |-> rest, blocks |-> blocks]
  <2>1. CutBlock(st, open, eats) =
          [text |-> st.text \o Upto(st.rest, i),
           rest |-> LET t == After(inner, j + Len(FenceClose) - 1)
                    IN  IF eats /\ t # <<>> /\ Head(t) = Blank THEN Tail(t) ELSE t,
           blocks |-> Append(st.blocks, Upto(inner, j))]
    BY <1>2 DEF CutBlock, i, inner, j
  <2> QED
    BY <1>11, <2>1
<1> HIDE DEF tail, text, block
<1>17. blocks \in Seq(Seq(Char))
  BY <1>1, <1>15, AppendProperties
<1>18. rest \in Seq(Char) /\ Len(rest) <= Len(tail)
  <2>1. CASE eaten
    <3>1. Tail(tail) \in Seq(Char) /\ Len(Tail(tail)) = Len(tail) - 1
      BY <1>12, <2>1, HeadTailProperties
    <3> QED
      BY <1>12, <2>1, <3>1
  <2>2. CASE ~eaten
    BY <1>12, <2>2
  <2> QED
    BY <2>1, <2>2
<1>19. ~eats => rest = tail
  OBVIOUS
<1> HIDE DEF rest, blocks
<1>20. /\ CutBlock(st, open, eats) \in Cuts
       /\ CutBlock(st, open, eats).text = text
       /\ CutBlock(st, open, eats).rest = rest
  BY <1>14, <1>16, <1>17, <1>18 DEF Cuts
<1>21. Len(rest) <= Len(st.rest) - 3
  <2>1. Len(tail) <= Len(st.rest) - 3
    <3>1. Len(inner) <= Len(st.rest) /\ Len(inner) \in Nat /\ Len(st.rest) \in Nat
      BY <1>1, <1>5, <1>6
    <3>2. Len(tail) <= Len(inner) - 3
      BY <1>8, <1>12, <3>1
    <3> QED
      BY <1>12, <3>1, <3>2
  <2>2. Len(tail) \in Nat /\ Len(rest) \in Nat /\ Len(st.rest) \in Nat
    BY <1>1, <1>12, <1>18
  <2> QED
    BY <1>18, <2>1, <2>2
<1> QED
  BY <1>5, <1>6, <1>10, <1>19, <1>20, <1>21 DEF text, tail, i, inner, j

LEMMA CutBlockStuck ==
  ASSUME NEW st \in Cuts, NEW open, NEW eats, ~HasBlock(st, open)
  PROVE  CutBlock(st, open, eats) = st
BY DEF CutBlock, HasBlock, Inner

LEMMA CutBlockType ==
  ASSUME NEW st \in Cuts, NEW open \in Seq(Char), Len(open) \in Nat \ {0}, NEW eats \in BOOLEAN
  PROVE  /\ CutBlock(st, open, eats) \in Cuts
         /\ \/ CutBlock(st, open, eats) = st
            \/ Len(CutBlock(st, open, eats).rest) <= Len(st.rest) - 3
BY CutBlockIs, CutBlockStuck, ZenonT(60)

\* The blocks are cut out one by one.
CutTimes(s, open, eats) ==
    LET Once(st) == CutBlock(st, open, eats) IN Rounds(Once, NewCut(s))

LEMMA CutOnce ==
  ASSUME NEW open \in Seq(Char), Len(open) \in Nat \ {0}, NEW eats \in BOOLEAN,
         NEW F, F = [st \in Cuts |-> CutBlock(st, open, eats)]
  PROVE  F \in [Cuts -> Cuts]
<1>1. \A st \in Cuts : CutBlock(st, open, eats) \in Cuts
  BY CutBlockType
<1> QED
  BY <1>1

LEMMA CutRoundsExist ==
  ASSUME NEW F \in [Cuts -> Cuts], NEW x \in Cuts
  PROVE  \E f \in [Nat -> Cuts] : f = [n \in Nat |-> IF n = 0 THEN x ELSE F[f[n - 1]]]
BY RoundsExist

LEMMA CutTimesIs ==
  ASSUME NEW s \in Seq(Char), NEW open \in Seq(Char), Len(open) \in Nat \ {0}, NEW eats \in BOOLEAN
  PROVE  /\ CutTimes(s, open, eats) \in [Nat -> Cuts]
         /\ CutTimes(s, open, eats)[0] = NewCut(s)
         /\ \A n \in Nat : CutTimes(s, open, eats)[n + 1]
                             = CutBlock(CutTimes(s, open, eats)[n], open, eats)
<1> DEFINE r == CutTimes(s, open, eats)
           G == [st \in Cuts |-> CutBlock(st, open, eats)]
<1>1. PICK F : F = G
  OBVIOUS
<1>2. PICK x : x = NewCut(s)
  OBVIOUS
<1>3. F \in [Cuts -> Cuts]
  BY <1>1, CutOnce
<1>4. x \in Cuts
  BY <1>2, NewCutIs
<1>5. \E f \in [Nat -> Cuts] : f = [n \in Nat |-> IF n = 0 THEN x ELSE F[f[n - 1]]]
  BY ONLY <1>3, <1>4, CutRoundsExist
<1>6. PICK f \in [Nat -> Cuts] : f = [n \in Nat |-> IF n = 0 THEN x ELSE F[f[n - 1]]]
  BY <1>5
<1>7. f = [n \in Nat |-> IF n = 0 THEN x ELSE CutBlock(f[n - 1], open, eats)]
  <2>1. \A n \in Nat : n # 0 => f[n - 1] \in Cuts
    <3>1. f \in [Nat -> Cuts]
      BY <1>6
    <3> QED
      BY ONLY <3>1
  <2>2. \A st \in Cuts : F[st] = CutBlock(st, open, eats)
    BY <1>1
  <2>3. \A n \in Nat : n # 0 => F[f[n - 1]] = CutBlock(f[n - 1], open, eats)
    BY <2>1, <2>2
  <2> QED
    BY <1>6, <2>3
<1>8. r = [n \in Nat |-> IF n = 0 THEN x ELSE CutBlock(r[n - 1], open, eats)]
  BY <1>2, <1>7 DEF CutTimes, Rounds
<1> HIDE DEF r
<1>9. r[0] = x /\ \A n \in Nat : r[n + 1] = CutBlock(r[n], open, eats)
  BY <1>8
<1> DEFINE U == {n \in Nat : r[n] \in Cuts}
<1>10. 0 \in U
  BY <1>4, <1>9
<1>11. ASSUME NEW n \in Nat, n \in U PROVE n + 1 \in U
  <2>1. r[n] \in Cuts /\ r[n + 1] = CutBlock(r[n], open, eats)
    BY <1>9, <1>11
  <2>2. CutBlock(r[n], open, eats) \in Cuts
    BY <2>1, CutBlockType
  <2> QED
    BY <2>1, <2>2
<1> HIDE DEF U
<1>12. Nat \subseteq U
  BY <1>10, <1>11, Induct
<1>13. \A n \in Nat : r[n] \in Cuts
  BY <1>12 DEF U
<1>14. r \in [Nat -> Cuts]
  BY <1>8, <1>13
<1> QED
  BY <1>2, <1>9, <1>14 DEF r

\* When all of them are out.
CutEnd(s, open, eats) == CutTimes(s, open, eats)[Len(s) \div 3 + 1]

LEMMA CutEndIs ==
  ASSUME NEW s \in Seq(Char), NEW open \in Seq(Char), Len(open) \in Nat \ {0}, NEW eats \in BOOLEAN
  PROVE  /\ CutEnd(s, open, eats) \in Cuts
         /\ ~HasBlock(CutEnd(s, open, eats), open)
<1> DEFINE r == CutTimes(s, open, eats)
           n == Len(s) \div 3 + 1
           Less(k) == Len(r[k].rest) + 3 * k <= Len(s)
           U == {k \in Nat : ~HasBlock(r[k], open) \/ Less(k)}
<1>1. r \in [Nat -> Cuts] /\ \A k \in Nat : r[k + 1] = CutBlock(r[k], open, eats)
  BY CutTimesIs
<1>2. r[0].rest = s
  <2>1. r[0] = NewCut(s)
    BY CutTimesIs
  <2> HIDE DEF r
  <2> QED
    BY <2>1 DEF NewCut
<1>3. n \in Nat /\ 3 * n > Len(s) /\ Len(s) \in Nat
  BY ThirdAndOne
<1> HIDE DEF r, n
<1>4. 0 \in U
  BY <1>2, <1>3
<1> HIDE DEF Less
<1>5. ASSUME NEW k \in Nat, k \in U PROVE k + 1 \in U
  <2>1. \A i \in Nat : r[i] \in Cuts
    BY ONLY <1>1
  <2>2. \A i \in Nat : r[i + 1] = CutBlock(r[i], open, eats)
    BY ONLY <1>1
  <2>3. k \in Nat /\ k + 1 \in Nat
    BY ONLY <1>5
  <2>4. r[k] \in Cuts /\ r[k + 1] = CutBlock(r[k], open, eats) /\ r[k + 1] \in Cuts
    BY ONLY <2>1, <2>2, <2>3
  <2>5. Len(r[k].rest) \in Nat /\ Len(r[k + 1].rest) \in Nat
    BY <2>4, CutIs
  <2>6. CASE ~HasBlock(r[k], open)
    <3>1. r[k + 1] = r[k]
      BY <2>4, <2>6, CutBlockStuck
    <3> QED
      BY <2>6, <3>1
  <2>7. CASE HasBlock(r[k], open)
    <3>1. Less(k)
      BY <1>5, <2>7
    <3>2. Len(r[k + 1].rest) <= Len(r[k].rest) - 3
      BY <2>4, <2>7, CutBlockIs
    <3>3. Less(k + 1)
      BY <1>3, <2>5, <3>1, <3>2, ThreeLess DEF Less
    <3> QED
      BY <3>3
  <2> QED
    BY <2>6, <2>7
<1> HIDE DEF U
<1>6. n \in U
  BY <1>3, <1>4, <1>5, Induct
<1>7. ~HasBlock(r[n], open) \/ Less(n)
  BY <1>6 DEF U
<1>8. r[n] \in Cuts
  BY <1>1, <1>3
<1>9. ~Less(n)
  <2>1. Len(r[n].rest) \in Nat
    BY <1>8, CutIs
  <2> QED
    BY <1>3, <2>1, TooMany DEF Less
<1> QED
  BY <1>7, <1>8, <1>9 DEF CutEnd, r, n

LEMMA CutResult ==
  ASSUME NEW s \in Seq(Char), NEW open \in Seq(Char), Len(open) \in Nat \ {0}, NEW eats \in BOOLEAN
  PROVE  /\ Cut(s, open, eats) = [text |-> CutEnd(s, open, eats).text \o CutEnd(s, open, eats).rest,
                                  blocks |-> CutEnd(s, open, eats).blocks]
         /\ Cut(s, open, eats).text \in Seq(Char)
         /\ Cut(s, open, eats).blocks \in Seq(Seq(Char))
<1> DEFINE e == CutEnd(s, open, eats)
           t == e.text \o e.rest
           b == e.blocks
<1>1. Cut(s, open, eats) = [text |-> t, blocks |-> b]
  BY CloseIs DEF Cut, Exhaust, CutEnd, CutTimes, NewCut
<1>2. e \in Cuts
  BY CutEndIs
<1> HIDE DEF e
<1>3. e.text \in Seq(Char) /\ e.rest \in Seq(Char) /\ b \in Seq(Seq(Char))
  BY <1>2, CutIs
<1>4. t \in Seq(Char)
  BY <1>3, ConcatProperties
<1> HIDE DEF t, b
<1>5. Cut(s, open, eats).text = t /\ Cut(s, open, eats).blocks = b
  BY <1>1
<1> QED
  BY <1>1, <1>3, <1>4, <1>5 DEF t, b, e

\* The blocks of a tool call.
LEMMA FenceFits ==
  /\ FenceOpen \in Seq(Char)
  /\ Len(FenceOpen) \in Nat \ {0}
  /\ FALSE \in BOOLEAN
BY OpenIs

LEMMA FenceBlockIs ==
  ASSUME NEW st \in Cuts, HasBlock(st, FenceOpen)
  PROVE  /\ CutBlock(st, FenceOpen, FALSE) \in Cuts
         /\ CutBlock(st, FenceOpen, FALSE).text = st.text \o Upto(st.rest, First(st.rest, FenceOpen))
         /\ CutBlock(st, FenceOpen, FALSE).rest
              = After(Inner(st, FenceOpen), First(Inner(st, FenceOpen), FenceClose) + 2)
BY FenceFits, CutBlockIs, Zenon

LEMMA FenceTimesIs ==
  ASSUME NEW s \in Seq(Char)
  PROVE  /\ CutTimes(s, FenceOpen, FALSE) \in [Nat -> Cuts]
         /\ CutTimes(s, FenceOpen, FALSE)[0] = NewCut(s)
         /\ \A n \in Nat : CutTimes(s, FenceOpen, FALSE)[n + 1]
                             = CutBlock(CutTimes(s, FenceOpen, FALSE)[n], FenceOpen, FALSE)
BY FenceFits, CutTimesIs, Zenon

LEMMA FenceEndIs ==
  ASSUME NEW s \in Seq(Char)
  PROVE  /\ CutEnd(s, FenceOpen, FALSE) \in Cuts
         /\ ~HasBlock(CutEnd(s, FenceOpen, FALSE), FenceOpen)
BY FenceFits, CutEndIs, Zenon

LEMMA UnfencedIs ==
  ASSUME NEW s \in Seq(Char)
  PROVE  /\ Unfenced(s) = CutEnd(s, FenceOpen, FALSE).text \o CutEnd(s, FenceOpen, FALSE).rest
         /\ Unfenced(s) \in Seq(Char)
<1> DEFINE e == CutEnd(s, FenceOpen, FALSE)
<1>1. /\ Cut(s, FenceOpen, FALSE) = [text |-> e.text \o e.rest, blocks |-> e.blocks]
      /\ Cut(s, FenceOpen, FALSE).text \in Seq(Char)
  BY FenceFits, CutResult, Zenon
<1> DEFINE c == Cut(s, FenceOpen, FALSE)
<1>2. Unfenced(s) = c.text
  BY DEF Unfenced
<1> HIDE DEF e, c
<1>3. c = [text |-> e.text \o e.rest, blocks |-> e.blocks]
  BY <1>1 DEF c
<1>4. c.text = e.text \o e.rest
  BY <1>3
<1>5. c.text \in Seq(Char)
  BY <1>1 DEF c
<1> QED
  BY <1>2, <1>4, <1>5 DEF e

-------------------------------------------------------------------------------
\* What the gate lets through of a text, and what is left of it without its
\* fences.

\* The gate after the blocks of st.
GateOf(st) == [buf |-> st.rest, sent |-> st.text, inFence |-> FALSE]

LEMMA GateOfIs ==
  ASSUME NEW st \in Cuts
  PROVE  /\ GateOf(st) \in Gates
         /\ GateOf(st).buf = st.rest
         /\ GateOf(st).sent = st.text
         /\ ~GateOf(st).inFence
BY CutIs DEF GateOf, Gates

LEMMA PrefixJoin ==
  ASSUME NEW S, NEW u \in Seq(S), NEW p \in Seq(S), NEW r \in Seq(S), IsPrefix(p, r)
  PROVE  IsPrefix(u \o p, u \o r)
<1>1. Len(p) <= Len(r) /\ \A i \in 1 .. Len(p) : p[i] = r[i]
  BY PrefixIs
<1>2. u \o p \in Seq(S) /\ Len(u \o p) = Len(u) + Len(p)
  BY ConcatProperties
<1>3. u \o r \in Seq(S) /\ Len(u \o r) = Len(u) + Len(r)
  BY ConcatProperties
<1>4. ASSUME NEW i \in 1 .. Len(u \o p) PROVE (u \o p)[i] = (u \o r)[i]
  BY <1>1, <1>2
<1>5. Len(u \o p) <= Len(u \o r)
  BY <1>1, <1>2, <1>3
<1> QED
  BY <1>2, <1>3, <1>4, <1>5, PrefixIs

LEMMA CutStep ==
  ASSUME NEW st \in Cuts
  PROVE  Settle(GateOf(CutBlock(st, FenceOpen, FALSE))) = Settle(GateOf(st))
<1>1. CASE ~HasBlock(st, FenceOpen)
  BY <1>1, CutBlockStuck
<1>2. CASE HasBlock(st, FenceOpen)
  <2> DEFINE g == GateOf(st)
             h == Sift(g)
             c == CutBlock(st, FenceOpen, FALSE)
             i == First(st.rest, FenceOpen)
             j == First(Inner(st, FenceOpen), FenceClose)
  <2>1. /\ c \in Cuts
        /\ c.text = st.text \o Upto(st.rest, i)
        /\ c.rest = After(Inner(st, FenceOpen), j + 2)
    BY <1>2, FenceBlockIs
  <2>2. i # 0 /\ j # 0
    BY <1>2 DEF HasBlock
  <2>3. i \in Nat
    BY CutIs, OpenIs, FirstIs
  <2>4. Inner(st, FenceOpen) = After(st.rest, i + 4)
    <3>1. i + Len(FenceOpen) - 1 = i + 4
      BY <2>3, OpenIs
    <3> QED
      BY <3>1 DEF Inner
  <2>5. g \in Gates /\ g.buf = st.rest /\ g.sent = st.text /\ ~g.inFence
    BY GateOfIs
  <2> HIDE DEF c, j, g
  <2>6. /\ h = [buf |-> After(g.buf, First(g.buf, FenceOpen) + 4),
                sent |-> g.sent \o Upto(g.buf, First(g.buf, FenceOpen)), inFence |-> TRUE]
        /\ h \in Gates
    BY <2>2, <2>5, SiftEnters
  <2>7. h = [buf |-> Inner(st, FenceOpen), sent |-> c.text, inFence |-> TRUE]
    BY <2>1, <2>4, <2>5, <2>6
  <2> HIDE DEF h
  <2>8. h.inFence /\ h.buf = Inner(st, FenceOpen) /\ h.sent = c.text
    BY <2>7
  <2>9. First(h.buf, FenceClose) = j
    BY <2>8 DEF j
  <2>10. Sift(h) = [buf |-> After(h.buf, First(h.buf, FenceClose) + 2),
                    sent |-> h.sent, inFence |-> FALSE]
    BY <2>2, <2>6, <2>8, <2>9, SiftLeaves
  <2>11. Sift(h) = GateOf(c)
    BY <2>1, <2>8, <2>9, <2>10 DEF GateOf
  <2>12. Settle(Sift(h)) = Settle(h)
    BY <2>6, SettleStep
  <2>13. Settle(h) = Settle(g)
    BY <2>5, SettleStep DEF h
  <2> QED
    BY <2>11, <2>12, <2>13 DEF c, g
<1> QED
  BY <1>1, <1>2

LEMMA SettledIs ==
  ASSUME NEW g \in Gates, Settled(Sift(g))
  PROVE  Settle(g) = Sift(g)
<1>1. Sift(g) \in Gates
  BY SiftType
<1>2. Rounds(Sift, Sift(g))[0] = Sift(g)
  BY <1>1, SiftRounds
<1>3. Settle(Sift(g)) = Sift(g)
  BY <1>1, <1>2, SettleAny
<1> QED
  BY <1>3, SettleStep

LEMMA CutLast ==
  ASSUME NEW st \in Cuts, ~HasBlock(st, FenceOpen)
  PROVE  IsPrefix(Settle(GateOf(st)).sent, st.text \o st.rest)
<1> DEFINE g == GateOf(st)
           h == Sift(g)
           i == First(st.rest, FenceOpen)
<1>1. g \in Gates /\ g.buf = st.rest /\ g.sent = st.text /\ ~g.inFence
  BY GateOfIs
<1>2. st.rest \in Seq(Char) /\ st.text \in Seq(Char)
  BY CutIs
<1> HIDE DEF g
<1>3. \E n \in 0 .. Len(st.rest) : h.sent = st.text \o SubSeq(st.rest, 1, n) /\ Settled(h)
  <2>1. CASE i = 0
    <3> DEFINE keep == Len(g.buf) - Held(g.buf)
    <3>1. /\ keep \in 0 .. Len(g.buf)
          /\ h = [buf |-> After(g.buf, keep), sent |-> g.sent \o SubSeq(g.buf, 1, keep),
                  inFence |-> FALSE]
          /\ Sift(h) = h
      BY <1>1, <2>1, SiftSends
    <3> HIDE DEF keep
    <3>2. h.sent = g.sent \o SubSeq(g.buf, 1, keep)
      <4> HIDE DEF h
      <4> QED
        BY <3>1
    <3> QED
      BY <1>1, <3>1, <3>2 DEF Settled
  <2>2. CASE i # 0
    <3>1. i \in 1 .. Len(st.rest) + 1 /\ h \in Gates /\ i + 4 \in 0 .. Len(st.rest)
          /\ h = [buf |-> After(st.rest, i + 4), sent |-> st.text \o Upto(st.rest, i),
                  inFence |-> TRUE]
      BY <1>1, <2>2, SiftEnters
    <3>2. h.inFence /\ h.buf = After(st.rest, i + 4) /\ h.sent = st.text \o Upto(st.rest, i)
      <4> HIDE DEF h, i
      <4> QED
        BY <3>1
    <3>3. Inner(st, FenceOpen) = After(st.rest, i + 4)
      <4>1. i + Len(FenceOpen) - 1 = i + 4
        BY <3>1, OpenIs
      <4> QED
        BY <4>1 DEF Inner
    <3>4. First(h.buf, FenceClose) = 0
      BY <2>2, <3>2, <3>3 DEF HasBlock
    <3> HIDE DEF h, i
    <3>5. Settled(h)
      BY <3>1, <3>2, <3>4, SiftWaits DEF Settled
    <3>6. i - 1 \in 0 .. Len(st.rest) /\ i - 1 \in Nat /\ i = (i - 1) + 1
      BY <1>2, <3>1
    <3>7. Upto(st.rest, i) = SubSeq(st.rest, 1, i - 1)
      BY <3>6, UptoFront
    <3> QED
      BY <3>2, <3>5, <3>6, <3>7
  <2> QED
    BY <2>1, <2>2
<1>4. PICK n \in 0 .. Len(st.rest) : h.sent = st.text \o SubSeq(st.rest, 1, n) /\ Settled(h)
  BY <1>3
<1>5. Settle(g) = h
  BY <1>1, <1>4, SettledIs
<1> HIDE DEF h
<1>6. SubSeq(st.rest, 1, n) \in Seq(Char) /\ IsPrefix(SubSeq(st.rest, 1, n), st.rest)
  BY <1>2, FrontIs, FrontIsPrefix
<1>7. IsPrefix(st.text \o SubSeq(st.rest, 1, n), st.text \o st.rest)
  BY <1>2, <1>6, PrefixJoin
<1> QED
  BY <1>4, <1>5, <1>7 DEF g

\* Of a text in one piece the gate sends the beginning of what is left of it.
LEMMA GateWithin ==
  ASSUME NEW s \in Seq(Char)
  PROVE  /\ Unfenced(s) \in Seq(Char)
         /\ IsPrefix(Push(NewGate, s).sent, Unfenced(s))
<1> DEFINE r == CutTimes(s, FenceOpen, FALSE)
           n == Len(s) \div 3 + 1
           U == {k \in Nat : Settle(GateOf(r[k])) = Settle(GateOf(NewCut(s)))}
<1>1. /\ r \in [Nat -> Cuts] /\ r[0] = NewCut(s)
      /\ \A k \in Nat : r[k + 1] = CutBlock(r[k], FenceOpen, FALSE)
  BY FenceTimesIs
<1> HIDE DEF r
<1>2. 0 \in U
  BY <1>1
<1>3. ASSUME NEW k \in Nat, k \in U PROVE k + 1 \in U
  <2>1. \A i \in Nat : r[i] \in Cuts
    BY ONLY <1>1
  <2>2. r[k] \in Cuts /\ r[k + 1] = CutBlock(r[k], FenceOpen, FALSE)
    BY <1>1, <2>1
  <2>3. Settle(GateOf(r[k + 1])) = Settle(GateOf(r[k]))
    BY <2>2, CutStep
  <2> QED
    BY <1>3, <2>3
<1> HIDE DEF U
<1>4. n \in Nat
  BY ThirdAndOne
<1> HIDE DEF n
<1>5. n \in U
  BY <1>2, <1>3, <1>4, Induct
<1>6. Settle(GateOf(r[n])) = Settle(GateOf(NewCut(s)))
  BY <1>5 DEF U
<1>7. r[n] = CutEnd(s, FenceOpen, FALSE)
  BY DEF CutEnd, r, n
<1> DEFINE e == CutEnd(s, FenceOpen, FALSE)
<1>8. e \in Cuts /\ ~HasBlock(e, FenceOpen)
  BY FenceEndIs
<1>9. Unfenced(s) = e.text \o e.rest /\ Unfenced(s) \in Seq(Char)
  BY UnfencedIs
<1> HIDE DEF e
<1>10. IsPrefix(Settle(GateOf(e)).sent, e.text \o e.rest)
  BY <1>8, CutLast
<1>11. GateOf(NewCut(s)) = Feed(NewGate, s)
  <2>1. <<>> \o s = s
    BY ConcatEmptySeq
  <2> QED
    <3>1. NewCut(s).rest = s /\ NewCut(s).text = <<>>
      BY DEF NewCut
    <3>2. Feed(NewGate, s) = [buf |-> NewGate.buf \o s, sent |-> NewGate.sent,
                              inFence |-> NewGate.inFence]
      BY NewGateIs, FeedIs
    <3>3. NewGate.buf = <<>> /\ NewGate.sent = <<>> /\ NewGate.inFence = FALSE
      BY DEF NewGate
    <3> QED
      BY <2>1, <3>1, <3>2, <3>3 DEF GateOf
<1>12. Push(NewGate, s) = Settle(Feed(NewGate, s))
  BY NewGateIs, PushIs
<1> QED
  BY <1>6, <1>7, <1>9, <1>10, <1>11, <1>12 DEF e

-------------------------------------------------------------------------------
\* White space at the ends of a text.

LEMMA Greatest ==
  ASSUME NEW N \in Nat, NEW T \in SUBSET (0 .. N), T # {}
  PROVE  \E n \in T : \A m \in T : n >= m
<1> DEFINE gaps == {n \in 0 .. N : N - n \in T}
<1>1. gaps \in SUBSET Nat
  OBVIOUS
<1>2. \A k \in T : k \in 0 .. N /\ N - k \in 0 .. N /\ N - (N - k) = k
  OBVIOUS
<1>3. \A k \in T : N - k \in gaps
  BY <1>2
<1>4. gaps # {}
  BY <1>3
<1>5. \A n \in gaps : n \in 0 .. N /\ N - n \in T
  OBVIOUS
<1> HIDE DEF gaps
<1>6. PICK n \in gaps : \A k \in gaps : n <= k
  BY <1>1, <1>4, Least
<1>7. \A k \in T : n <= N - k
  BY <1>3, <1>6
<1>8. \A k \in T : N - n >= k
  BY <1>2, <1>5, <1>6, <1>7
<1> QED
  BY <1>5, <1>6, <1>8

\* The first and the last character that are no white space.
Ends(s, a, b) ==
    /\ a \in 1 .. Len(s) /\ b \in 1 .. Len(s) /\ a <= b
    /\ s[a] # Blank /\ s[b] # Blank
    /\ \A i \in 1 .. a - 1 : s[i] = Blank
    /\ \A i \in b + 1 .. Len(s) : s[i] = Blank

BlankText(s) == \A i \in 1 .. Len(s) : s[i] = Blank

\* A piece of a text.
LEMMA PieceIs ==
  ASSUME NEW S, NEW s \in Seq(S), NEW a \in 1 .. Len(s), NEW b \in 1 .. Len(s), a <= b
  PROVE  /\ SubSeq(s, a, b) \in Seq(S)
         /\ Len(SubSeq(s, a, b)) = b - a + 1
         /\ \A i \in 1 .. b - a + 1 : SubSeq(s, a, b)[i] = s[a + i - 1]
<1>1. \A i \in a .. b : s[i] \in S
  OBVIOUS
<1> QED
  BY <1>1, SubSeqProperties

LEMMA TrimIs ==
  ASSUME NEW s \in Seq(Char)
  PROVE  \/ BlankText(s) /\ Trim(s) = <<>>
         \/ \E a, b \in 1 .. Len(s) : Ends(s, a, b) /\ Trim(s) = SubSeq(s, a, b)
<1> DEFINE solid == {i \in DOMAIN s : s[i] # Blank}
<1>1. \A i : i \in solid <=> i \in 1 .. Len(s) /\ s[i] # Blank
  OBVIOUS
<1>2. Trim(s) = IF solid = {} THEN <<>> ELSE SubSeq(s, Min(solid), Max(solid))
  BY DEF Trim
<1>3. Len(s) \in Nat
  OBVIOUS
<1> HIDE DEF solid
<1>4. CASE solid = {}
  BY <1>1, <1>2, <1>4 DEF BlankText
<1>5. CASE solid # {}
  <2>1. solid \in SUBSET Nat /\ solid \in SUBSET (0 .. Len(s))
    BY <1>1
  <2>2. \E n \in solid : \A m \in solid : n <= m
    BY <1>5, <2>1, Least
  <2>3. \E n \in solid : \A m \in solid : n >= m
    BY <1>3, <1>5, <2>1, Greatest
  <2>4. Min(solid) \in solid /\ \A m \in solid : Min(solid) <= m
    BY <2>2 DEF Min
  <2>5. Max(solid) \in solid /\ \A m \in solid : Max(solid) >= m
    BY <2>3 DEF Max
  <2> DEFINE a == Min(solid)
             b == Max(solid)
  <2> HIDE DEF a, b
  <2>6. /\ a \in solid /\ \A m \in solid : a <= m
        /\ b \in solid /\ \A m \in solid : b >= m
        /\ Trim(s) = SubSeq(s, a, b)
    BY <1>2, <1>5, <2>4, <2>5 DEF a, b
  <2>7. a \in 1 .. Len(s) /\ b \in 1 .. Len(s) /\ a <= b /\ s[a] # Blank /\ s[b] # Blank
    BY <1>1, <2>6
  <2>8. \A i \in 1 .. a - 1 : s[i] = Blank
    <3>1. ASSUME NEW i \in 1 .. a - 1 PROVE i \in 1 .. Len(s) /\ ~(a <= i)
      BY <1>3, <2>7
    <3> QED
      BY <1>1, <2>6, <3>1
  <2>9. \A i \in b + 1 .. Len(s) : s[i] = Blank
    <3>1. ASSUME NEW i \in b + 1 .. Len(s) PROVE i \in 1 .. Len(s) /\ ~(b >= i)
      BY <1>3, <2>7
    <3> QED
      BY <1>1, <2>6, <3>1
  <2>10. Ends(s, a, b)
    BY <2>7, <2>8, <2>9 DEF Ends
  <2> QED
    BY <2>6, <2>7, <2>10
<1> QED
  BY <1>4, <1>5

LEMMA TrimType ==
  ASSUME NEW s \in Seq(Char)
  PROVE  Trim(s) \in Seq(Char)
<1>1. CASE Trim(s) = <<>>
  BY <1>1
<1>2. ASSUME NEW a \in 1 .. Len(s), NEW b \in 1 .. Len(s), Ends(s, a, b), Trim(s) = SubSeq(s, a, b)
      PROVE  Trim(s) \in Seq(Char)
  <2>1. a <= b
    BY <1>2 DEF Ends
  <2>2. SubSeq(s, a, b) \in Seq(Char)
    BY <2>1, PieceIs
  <2> QED
    BY <1>2, <2>2
<1> QED
  BY <1>1, <1>2, TrimIs

LEMMA TrimEnds ==
  ASSUME NEW s \in Seq(Char), NEW a, NEW b, Ends(s, a, b)
  PROVE  Trim(s) = SubSeq(s, a, b) /\ ~BlankText(s)
<1>1. ~BlankText(s)
  BY DEF Ends, BlankText
<1>2. PICK c, d \in 1 .. Len(s) : Ends(s, c, d) /\ Trim(s) = SubSeq(s, c, d)
  BY <1>1, TrimIs
<1>3. a \in 1 .. Len(s) /\ b \in 1 .. Len(s)
  BY DEF Ends
<1>4. ~(a < c) /\ ~(c < a)
  BY <1>2, <1>3 DEF Ends
<1>5. ~(b < d) /\ ~(d < b)
  BY <1>2, <1>3 DEF Ends
<1>6. a = c /\ b = d
  BY <1>3, <1>4, <1>5
<1> QED
  BY <1>1, <1>2, <1>6

LEMMA TrimBlank ==
  ASSUME NEW s \in Seq(Char)
  PROVE  Trim(s) = <<>> <=> BlankText(s)
<1>1. ASSUME NEW a \in 1 .. Len(s), NEW b \in 1 .. Len(s), Ends(s, a, b), Trim(s) = SubSeq(s, a, b)
      PROVE  Trim(s) # <<>> /\ ~BlankText(s)
  <2>1. a <= b
    BY <1>1 DEF Ends
  <2>2. Len(SubSeq(s, a, b)) = b - a + 1
    BY <2>1, PieceIs
  <2>3. Len(Trim(s)) # 0
    <3>1. b - a + 1 # 0
      BY <2>1
    <3> QED
      BY <1>1, <2>2, <3>1
  <2>4. Len(<<>>) = 0
    OBVIOUS
  <2> QED
    BY <1>1, <2>3, <2>4, TrimEnds
<1> QED
  BY <1>1, TrimIs

\* What a text begins with, without white space, is what the text begins with.
LEMMA TrimPrefix ==
  ASSUME NEW s \in Seq(Char), NEW t \in Seq(Char), IsPrefix(s, t)
  PROVE  IsPrefix(Trim(s), Trim(t))
<1>1. Len(s) <= Len(t) /\ \A i \in 1 .. Len(s) : s[i] = t[i]
  BY PrefixIs
<1>2. Trim(s) \in Seq(Char) /\ Trim(t) \in Seq(Char)
  BY TrimType
<1>3. CASE Trim(s) = <<>>
  <2>1. Len(Trim(s)) = 0 /\ Len(Trim(t)) \in Nat
    BY <1>2, <1>3
  <2>2. Len(Trim(s)) <= Len(Trim(t)) /\ \A i \in 1 .. Len(Trim(s)) : Trim(s)[i] = Trim(t)[i]
    BY <2>1
  <2> QED
    BY <1>2, <2>2, PrefixIs
<1>4. ASSUME NEW a \in 1 .. Len(s), NEW b \in 1 .. Len(s), Ends(s, a, b), Trim(s) = SubSeq(s, a, b)
      PROVE  IsPrefix(Trim(s), Trim(t))
  <2>0. Len(s) \in Nat /\ Len(t) \in Nat
    OBVIOUS
  <2>1. a \in 1 .. Len(t) /\ b \in 1 .. Len(t) /\ t[a] # Blank /\ t[b] # Blank
    BY <1>1, <1>4, <2>0 DEF Ends
  <2>2. ~BlankText(t)
    BY <2>1 DEF BlankText
  <2>3. PICK c, d \in 1 .. Len(t) : Ends(t, c, d) /\ Trim(t) = SubSeq(t, c, d)
    BY <2>2, TrimIs
  <2>4. ~(a < c)
    BY <2>1, <2>3 DEF Ends
  <2>5. ~(c < a)
    <3>1. ASSUME c < a PROVE FALSE
      <4>1. c \in 1 .. a - 1 /\ c \in 1 .. Len(s)
        BY <3>1, <2>0
      <4>2. s[c] = Blank /\ t[c] # Blank
        BY <1>4, <2>3, <4>1 DEF Ends
      <4> QED
        BY <1>1, <4>1, <4>2
    <3> QED
      BY <3>1
  <2>6. a = c
    BY <2>4, <2>5
  <2>7. ~(d < b)
    BY <2>1, <2>3 DEF Ends
  <2>8. a <= b /\ b <= d /\ a <= d
    BY <1>4, <2>7 DEF Ends
  <2> DEFINE u == SubSeq(s, a, b)
             v == SubSeq(t, a, d)
  <2>9. u \in Seq(Char) /\ Len(u) = b - a + 1 /\ \A i \in 1 .. b - a + 1 : u[i] = s[a + i - 1]
    BY <2>8, PieceIs
  <2>10. v \in Seq(Char) /\ Len(v) = d - a + 1 /\ \A i \in 1 .. d - a + 1 : v[i] = t[a + i - 1]
    BY <2>1, <2>8, PieceIs
  <2> HIDE DEF u, v
  <2>11. ASSUME NEW i \in 1 .. Len(u) PROVE u[i] = v[i]
    <3>1. i \in 1 .. b - a + 1
      BY <2>9
    <3>2. a + i - 1 \in 1 .. Len(s) /\ i \in 1 .. d - a + 1
      BY <2>0, <2>8, <3>1
    <3> QED
      BY <1>1, <2>9, <2>10, <3>1, <3>2
  <2>12. Len(u) <= Len(v)
    BY <2>8, <2>9, <2>10
  <2>13. IsPrefix(u, v)
    BY <2>9, <2>10, <2>11, <2>12, PrefixIs
  <2> QED
    BY <1>4, <2>3, <2>6, <2>13 DEF u, v
<1> QED
  BY <1>3, <1>4, TrimIs

\* A text without code that was run is only trimmed.
LEMMA CodeFits ==
  /\ CodeOpen \in Seq(Char)
  /\ Len(CodeOpen) \in Nat \ {0}
  /\ TRUE \in BOOLEAN
BY CodeIs

LEMMA CleanType ==
  ASSUME NEW s \in Seq(Char)
  PROVE  Clean(s) \in Seq(Char)
<1>1. Cut(s, CodeOpen, TRUE).text \in Seq(Char)
  BY CodeFits, CutResult, Zenon
<1> QED
  BY <1>1, TrimType DEF Clean

LEMMA CleanTrims ==
  ASSUME NEW s \in Seq(Char), First(s, CodeOpen) = 0
  PROVE  Clean(s) = Trim(s)
<1> DEFINE r == CutTimes(s, CodeOpen, TRUE)
           x == NewCut(s)
           U == {k \in Nat : r[k] = x}
<1>1. r[0] = x /\ \A k \in Nat : r[k + 1] = CutBlock(r[k], CodeOpen, TRUE)
  BY CodeFits, CutTimesIs, Zenon
<1>2. x \in Cuts /\ x.rest = s /\ x.text = <<>>
  BY NewCutIs DEF NewCut
<1> HIDE DEF r, x
<1>3. CutBlock(x, CodeOpen, TRUE) = x
  BY <1>2, CutBlockStuck DEF HasBlock
<1>4. 0 \in U
  BY <1>1
<1>5. ASSUME NEW k \in Nat, k \in U PROVE k + 1 \in U
  <2>1. r[k] = x /\ r[k + 1] = CutBlock(r[k], CodeOpen, TRUE)
    BY <1>1, <1>5
  <2>2. r[k + 1] = x
    BY <1>3, <2>1
  <2> QED
    BY <2>2
<1> HIDE DEF U
<1>6. Len(s) \div 3 + 1 \in Nat
  BY ThirdAndOne
<1>7. Len(s) \div 3 + 1 \in U
  BY <1>4, <1>5, <1>6, Induct
<1>8. CutEnd(s, CodeOpen, TRUE) = x
  BY <1>7 DEF U, r, CutEnd
<1>9. Cut(s, CodeOpen, TRUE) = [text |-> CutEnd(s, CodeOpen, TRUE).text \o CutEnd(s, CodeOpen, TRUE).rest,
                                blocks |-> CutEnd(s, CodeOpen, TRUE).blocks]
  BY CodeFits, CutResult, Zenon
<1>10. <<>> \o s = s
  BY ConcatEmptySeq
<1>11. Cut(s, CodeOpen, TRUE) = [text |-> s, blocks |-> x.blocks]
  BY <1>2, <1>8, <1>9, <1>10
<1>12. Cut(s, CodeOpen, TRUE).text = s
  <2> DEFINE c == Cut(s, CodeOpen, TRUE)
             b == x.blocks
  <2>1. c = [text |-> s, blocks |-> b]
    BY <1>11
  <2> HIDE DEF c, b
  <2>2. c.text = s
    BY <2>1
  <2> QED
    BY <2>2 DEF c
<1> QED
  BY <1>12 DEF Clean

\* So is any beginning of it.
LEMMA CodeFreePrefix ==
  ASSUME NEW s \in Seq(Char), NEW t \in Seq(Char), IsPrefix(s, t), First(t, CodeOpen) = 0
  PROVE  First(s, CodeOpen) = 0
<1> DEFINE d == After(t, Len(s))
<1>1. d \in Seq(Char) /\ s \o d = t
  BY PrefixRest
<1> HIDE DEF d
<1>2. First(s, CodeOpen) # 0 => First(s \o d, CodeOpen) = First(s, CodeOpen)
  <2>1. CodeOpen \in Seq(Char)
    BY CodeFits
  <2> QED
    BY ONLY <1>1, <2>1, FirstStable, s \in Seq(Char)
<1> QED
  BY <1>1, <1>2

LEMMA CleanPrefix ==
  ASSUME NEW s \in Seq(Char), NEW t \in Seq(Char), IsPrefix(s, t), First(t, CodeOpen) = 0
  PROVE  /\ Clean(s) = Trim(s)
         /\ Clean(t) = Trim(t)
         /\ IsPrefix(Clean(s), Clean(t))
<1>1. First(s, CodeOpen) = 0
  BY CodeFreePrefix
<1>2. Clean(s) = Trim(s) /\ Clean(t) = Trim(t)
  BY <1>1, CleanTrims
<1> QED
  BY <1>2, TrimPrefix

-------------------------------------------------------------------------------
\* What is read of an answer, and what is handed on of it.

\* Of a new text that goes on from the last one the rest is new, of any other
\* text nothing or all of it.
LEMMA NewInIs ==
  ASSUME NEW e \in Seq(Char), NEW t \in Seq(Char)
  PROVE  /\ NewIn(e, t) \in Seq(Char)
         /\ e \o NewIn(e, t) = e \/ e \o NewIn(e, t) = t
         /\ IsPrefix(e, t) => e \o NewIn(e, t) = t
         /\ t = <<>> => NewIn(e, t) = <<>>
<1>1. e \o <<>> = e
  BY ConcatEmptySeq
<1>2. Len(e) \in Nat /\ Len(t) \in Nat
  OBVIOUS
<1>3. CASE Len(t) <= Len(e)
  <2>1. NewIn(e, t) = <<>>
    BY <1>3 DEF NewIn
  <2>2. IsPrefix(e, t) => e = t
    <3>1. IsPrefix(e, t) => Len(e) <= Len(t) /\ \A i \in 1 .. Len(e) : e[i] = t[i]
      BY PrefixIs
    <3>2. IsPrefix(e, t) => Len(e) = Len(t)
      BY <1>2, <1>3, <3>1
    <3> QED
      BY <3>1, <3>2, SeqEqual
  <2> QED
    BY <1>1, <2>1, <2>2
<1>4. CASE ~(Len(t) <= Len(e)) /\ ~IsPrefix(e, t)
  <2>1. NewIn(e, t) = <<>>
    BY <1>4 DEF NewIn, Remaining
  <2> QED
    BY <1>1, <1>4, <2>1
<1>5. CASE ~(Len(t) <= Len(e)) /\ IsPrefix(e, t)
  <2>1. NewIn(e, t) = After(t, Len(e))
    BY <1>5 DEF NewIn, Remaining
  <2>2. After(t, Len(e)) \in Seq(Char) /\ e \o After(t, Len(e)) = t
    BY <1>5, PrefixRest
  <2>3. t # <<>>
    BY <1>2, <1>5
  <2> QED
    BY <2>1, <2>2, <2>3
<1> QED
  BY <1>3, <1>4, <1>5

LEMMA AnswerIs ==
  ASSUME answer \in Answers
  PROVE  /\ answer.text \in Seq(Char) /\ Len(answer.text) \in Nat
         /\ answer.thought \in Seq(Char) /\ Len(answer.thought) \in Nat
         /\ answer.draft \in Seq(Char)
<1>1. answer \in [text : Seq(Char), thought : Seq(Char), draft : Seq(Char)]
  BY AnswersAssumption DEF AnswersAssumption
<1> QED
  BY <1>1

LEMMA EmptyTexts ==
  /\ Trim(<<>>) = <<>>
  /\ Clean(<<>>) = <<>>
<1>1. <<>> \in Seq(Char) /\ Len(<<>>) = 0
  OBVIOUS
<1>2. BlankText(<<>>)
  BY <1>1 DEF BlankText
<1>3. Trim(<<>>) = <<>>
  BY <1>1, <1>2, TrimBlank
<1>4. First(<<>>, CodeOpen) = 0
  <2>1. \A i : ~Hit(<<>>, CodeOpen, i)
    BY CodeIs, <1>1 DEF Hit
  <2>2. First(<<>>, CodeOpen) # 0 => Hit(<<>>, CodeOpen, First(<<>>, CodeOpen))
    BY <1>1, CodeIs, FirstIs
  <2> QED
    BY <2>1, <2>2
<1> QED
  BY <1>1, <1>3, <1>4, CleanTrims

\* No code can be in white space.
LEMMA BlankIsClean ==
  ASSUME NEW s \in Seq(Char), Trim(s) = <<>>
  PROVE  Clean(s) = <<>>
<1>1. BlankText(s)
  BY TrimBlank
<1>2. First(s, CodeOpen) = 0
  <2>1. First(s, CodeOpen) # 0 => Hit(s, CodeOpen, First(s, CodeOpen))
    BY CodeIs, FirstIs
  <2>2. ASSUME NEW i, Hit(s, CodeOpen, i) PROVE FALSE
    <3>1. i \in 1 .. Len(s) /\ s[i] = CodeOpen[1]
      BY <2>2, CodeIs DEF Hit
    <3>2. s[i] = Blank /\ s[i] = Tick
      BY <1>1, <3>1, CodeIs DEF BlankText
    <3> QED
      BY <3>2, CharAssumption DEF CharAssumption
  <2> QED
    BY <2>1, <2>2
<1> QED
  BY <1>2, CleanTrims

-------------------------------------------------------------------------------
\* The texts: what is read, what is handed on, and the gate.

\* A beginning of the text, cleaned.
Begun(t) == \E n \in 1 .. Len(answer.text) : t = Clean(SubSeq(answer.text, 1, n))

Texts ==
    /\ req \in Requests
    /\ answer \in Answers
    /\ frame \in Seq(Char)
    /\ frame = answer.draft \/ IsPrefix(frame, answer.text)
    /\ ~drafted => IsPrefix(frame, answer.text)
    /\ thought \in Seq(Char)
    /\ IsPrefix(thought, answer.thought)
    /\ drafted \in BOOLEAN
    /\ rtracker \in Seq(Char)
    /\ pc \in {"asked", "reading", "done"}

\* What is handed on is the last text received, unless Google has changed it,
\* and nothing if the client wants no stream.
HandedOn ==
    /\ tracker \in Seq(Char)
    /\ tracker \in {<<>>, Clean(answer.draft)} \/ Begun(tracker)
    /\ ~drafted => tracker = <<>> \/ Begun(tracker)
    /\ req.stream /\ Unchanged => tracker = Clean(frame)
    /\ ~req.stream => tracker = <<>> /\ rtracker = <<>>
    /\ req.api = "responses" => rtracker = <<>>
    /\ tracker # <<>> => frame # <<>>
    /\ pc = "asked" => tracker = <<>> /\ rtracker = <<>>

Gated ==
    /\ gate \in Gates
    /\ gate = IF req.tools THEN Push(NewGate, tracker) ELSE NewGate

Base == Texts /\ HandedOn /\ Gated

LEMMA InitBase ==
  ASSUME Init
  PROVE  Base
<1>1. <<>> \in Seq(Char)
  OBVIOUS
<1>2. /\ req \in Requests /\ answer \in Answers /\ frame = <<>> /\ thought = <<>>
      /\ drafted = FALSE /\ tracker = <<>> /\ rtracker = <<>> /\ gate = NewGate /\ pc = "asked"
  BY DEF Init
<1>3. IsPrefix(<<>>, answer.text) /\ IsPrefix(<<>>, answer.thought)
  <2>1. /\ answer.text \in Seq(Char) /\ <<>> \o answer.text = answer.text
        /\ answer.thought \in Seq(Char) /\ <<>> \o answer.thought = answer.thought
    BY <1>2, AnswerIs, ConcatEmptySeq
  <2>2. IsPrefix(<<>>, <<>> \o answer.text) /\ IsPrefix(<<>>, <<>> \o answer.thought)
    BY <1>1, <2>1, PrefixOfConcat
  <2> QED
    BY <2>1, <2>2
<1>4. Texts
  BY <1>1, <1>2, <1>3 DEF Texts
<1>5. HandedOn
  BY <1>1, <1>2, EmptyTexts DEF HandedOn
<1>6. Gated
  BY <1>2, NewGateIs DEF Gated
<1> QED
  BY <1>4, <1>5, <1>6 DEF Base

\* Most steps read nothing.
LEMMA BaseStays ==
  ASSUME Base, pc' \in {"asked", "reading", "done"}, pc' = "asked" => pc = "asked",
         UNCHANGED <<req, answer, upstream, tracker, rtracker, gate>>
  PROVE  Base'
<1> USE DEF upstream
<1>1. Texts'
  BY DEF Base, Texts
<1>2. Begun(tracker)' <=> Begun(tracker)
  BY DEF Begun
<1>3. Unchanged' <=> Unchanged
  BY DEF Unchanged
<1>4. HandedOn'
  BY <1>2, <1>3 DEF Base, HandedOn
<1>5. Gated'
  BY DEF Base, Gated
<1> QED
  BY <1>1, <1>4, <1>5 DEF Base

\* Nothing is handed on before a repeated attempt.
LEMMA BaseRetry ==
  ASSUME Base, Retry
  PROVE  Base'
<1>1. /\ tracker = <<>> /\ rtracker = <<>> /\ frame' = <<>> /\ thought' = <<>> /\ pc = "reading"
      /\ UNCHANGED <<req, answer, drafted, tracker, rtracker, gate, out, pc>>
  BY DEF Retry, MayRetry
<1>2. <<>> \in Seq(Char)
  OBVIOUS
<1>3. IsPrefix(<<>>, answer.text) /\ IsPrefix(<<>>, answer.thought)
  <2>1. /\ answer.text \in Seq(Char) /\ <<>> \o answer.text = answer.text
        /\ answer.thought \in Seq(Char) /\ <<>> \o answer.thought = answer.thought
    BY AnswerIs, ConcatEmptySeq DEF Base, Texts
  <2>2. IsPrefix(<<>>, <<>> \o answer.text) /\ IsPrefix(<<>>, <<>> \o answer.thought)
    BY <1>2, <2>1, PrefixOfConcat
  <2> QED
    BY <2>1, <2>2
<1>4. Texts'
  BY <1>1, <1>2, <1>3 DEF Base, Texts
<1>5. tracker' = <<>> /\ rtracker' = <<>> /\ Clean(frame') = <<>>
  BY <1>1, EmptyTexts
<1>6. HandedOn'
  BY <1>2, <1>5 DEF HandedOn
<1>7. Gated'
  BY <1>1 DEF Base, Gated
<1> QED
  BY <1>4, <1>6, <1>7 DEF Base

\* More of the reasoning.
LEMMA BaseReasoning ==
  ASSUME Base, ReadReasoning
  PROVE  Base'
<1>1. PICK n \in Len(thought) + 1 .. Len(answer.thought) :
        /\ thought' = SubSeq(answer.thought, 1, n)
        /\ rtracker' = rtracker \o (IF req.stream /\ req.api = "chat"
                                    THEN NewIn(rtracker, Clean(SubSeq(answer.thought, 1, n)))
                                    ELSE <<>>)
  BY DEF ReadReasoning
<1>2. UNCHANGED <<req, answer, frame, drafted, tracker, gate, pc>> /\ pc = "reading"
  BY DEF ReadReasoning
<1>3. /\ thought \in Seq(Char) /\ Len(thought) \in Nat /\ rtracker \in Seq(Char)
      /\ answer.thought \in Seq(Char) /\ Len(answer.thought) \in Nat
  BY AnswerIs DEF Base, Texts
<1>4. n \in 0 .. Len(answer.thought)
  BY <1>3
<1> DEFINE told == SubSeq(answer.thought, 1, n)
           new == NewIn(rtracker, Clean(told))
<1>5. told \in Seq(Char) /\ IsPrefix(told, answer.thought)
  BY <1>3, <1>4, FrontIs, FrontIsPrefix
<1>6. new \in Seq(Char)
  BY <1>3, <1>5, CleanType, NewInIs
<1> HIDE DEF told, new
<1>7. thought' = told /\ rtracker' = rtracker \o (IF req.stream /\ req.api = "chat" THEN new ELSE <<>>)
  BY <1>1 DEF told, new
<1>8. rtracker \o <<>> = rtracker /\ rtracker \o new \in Seq(Char)
  BY <1>3, <1>6, ConcatEmptySeq, ConcatProperties
<1>9. /\ rtracker' \in Seq(Char)
      /\ ~(req.stream /\ req.api = "chat") => rtracker' = rtracker
  BY <1>3, <1>7, <1>8
<1>10. Texts'
  BY <1>2, <1>5, <1>7, <1>9 DEF Base, Texts
<1>11. (Begun(tracker)' <=> Begun(tracker)) /\ (Unchanged' <=> Unchanged)
  BY <1>2 DEF Begun, Unchanged
<1>12. HandedOn'
  <2>1. HandedOn
    BY DEF Base
  <2>2. ~req.stream => rtracker' = <<>>
    BY <1>9, <2>1 DEF HandedOn
  <2>3. req.api = "responses" => rtracker' = <<>>
    BY <1>9, <2>1 DEF HandedOn
  <2> QED
    BY <1>2, <1>11, <2>1, <2>2, <2>3 DEF HandedOn
<1>13. Gated'
  BY <1>2 DEF Base, Gated
<1> QED
  BY <1>10, <1>12, <1>13 DEF Base

LEMMA FrontsNest ==
  ASSUME NEW S, NEW s \in Seq(S), NEW t \in Seq(S), IsPrefix(s, t),
         NEW n \in 0 .. Len(t), Len(s) <= n
  PROVE  IsPrefix(s, SubSeq(t, 1, n))
<1>1. Len(s) <= Len(t) /\ \A i \in 1 .. Len(s) : s[i] = t[i]
  BY PrefixIs
<1> DEFINE u == SubSeq(t, 1, n)
<1>2. u \in Seq(S) /\ Len(u) = n /\ \A k \in 1 .. n : u[k] = t[k]
  BY FrontIs
<1> HIDE DEF u
<1>3. Len(s) <= Len(u) /\ \A i \in 1 .. Len(s) : s[i] = u[i]
  BY <1>1, <1>2
<1>4. IsPrefix(s, u)
  BY <1>2, <1>3, PrefixIs
<1> QED
  BY <1>4 DEF u

\* What receiving a text does to it.
LEMMA ReceiveIs ==
  ASSUME Base, NEW text \in Seq(Char), Receive(text), UNCHANGED req
  PROVE  \E new \in Seq(Char) :
           /\ new = (IF req.stream THEN NewIn(tracker, Clean(text)) ELSE <<>>)
           /\ tracker' = tracker \o new
           /\ gate' = (IF req.tools THEN Push(gate, new) ELSE gate)
           /\ frame' = (IF Trim(text) = <<>> /\ Trim(frame) # <<>> THEN frame ELSE text)
           /\ out' = SendContent(req.api, out, IF req.tools THEN After(gate'.sent, Len(gate.sent))
                                               ELSE new)
<1> DEFINE m == NewIn(tracker, Clean(text))
           new == IF req.stream THEN m ELSE <<>>
<1>1. m \in Seq(Char)
  BY CleanType, NewInIs DEF Base, HandedOn
<1>2. /\ frame' = (IF Trim(text) = <<>> /\ Trim(frame) # <<>> THEN frame ELSE text)
      /\ tracker' = tracker \o new
      /\ gate' = (IF req.tools THEN Push(gate, new) ELSE gate)
      /\ out' = SendContent(req.api, out, IF req.tools
                  THEN After((IF req.tools THEN Push(gate, new) ELSE gate).sent, Len(gate.sent))
                  ELSE new)
  BY DEF Receive
<1>3. new = (IF req.stream THEN m ELSE <<>>)
  OBVIOUS
<1> HIDE DEF m
<1>4. new \in Seq(Char)
  BY <1>1
<1> HIDE DEF new
<1>5. /\ new = (IF req.stream THEN m ELSE <<>>)
      /\ tracker' = tracker \o new
      /\ gate' = (IF req.tools THEN Push(gate, new) ELSE gate)
      /\ frame' = (IF Trim(text) = <<>> /\ Trim(frame) # <<>> THEN frame ELSE text)
      /\ out' = SendContent(req.api, out, IF req.tools THEN After(gate'.sent, Len(gate.sent)) ELSE new)
  BY <1>2, <1>3
<1> QED
  BY <1>4, <1>5 DEF m

LEMMA ReceiveHands ==
  ASSUME Base, NEW text \in Seq(Char), text # <<>>, Receive(text), UNCHANGED req
  PROVE  /\ tracker' \in Seq(Char)
         /\ tracker' = tracker \/ tracker' = Clean(text)
         /\ ~req.stream => tracker' = tracker
         /\ req.stream /\ IsPrefix(tracker, Clean(text)) => tracker' = Clean(text)
         /\ Trim(text) = <<>> => tracker' = tracker
         /\ tracker' # <<>> => frame' # <<>>
         /\ Gated'
<1>1. PICK new \in Seq(Char) :
        /\ new = (IF req.stream THEN NewIn(tracker, Clean(text)) ELSE <<>>)
        /\ tracker' = tracker \o new
        /\ gate' = (IF req.tools THEN Push(gate, new) ELSE gate)
        /\ frame' = (IF Trim(text) = <<>> /\ Trim(frame) # <<>> THEN frame ELSE text)
  BY ReceiveIs
<1>2. tracker \in Seq(Char) /\ (tracker # <<>> => frame # <<>>) /\ Gated
  BY DEF Base, HandedOn
<1>3. tracker \o <<>> = tracker /\ tracker \o new \in Seq(Char)
  BY <1>1, <1>2, ConcatEmptySeq, ConcatProperties
<1>4. Clean(text) \in Seq(Char)
  BY CleanType
<1>5. /\ tracker \o NewIn(tracker, Clean(text)) = tracker
         \/ tracker \o NewIn(tracker, Clean(text)) = Clean(text)
      /\ IsPrefix(tracker, Clean(text)) => tracker \o NewIn(tracker, Clean(text)) = Clean(text)
      /\ Clean(text) = <<>> => NewIn(tracker, Clean(text)) = <<>>
  BY <1>2, <1>4, NewInIs
<1>6. Trim(text) = <<>> => Clean(text) = <<>>
  BY BlankIsClean
<1>7. frame = <<>> => Trim(frame) = <<>>
  BY EmptyTexts
<1>8. Trim(text) = <<>> => tracker' = tracker
  BY <1>1, <1>3, <1>5, <1>6
<1>9. tracker' # <<>> => frame' # <<>>
  BY <1>1, <1>7
<1>10. Gated'
  <2>1. CASE req.tools
    <3>1. gate = Push(NewGate, tracker) /\ gate \in Gates
      BY <1>2, <2>1 DEF Gated
    <3>2. gate' = Push(gate, new)
      BY <1>1, <2>1
    <3>3. gate' \in Gates
      BY <1>1, <3>1, <3>2, PushType
    <3>4. Push(Push(NewGate, tracker), new) = Push(NewGate, tracker \o new)
      BY <1>1, <1>2, NewGateIs, PushTwice
    <3>5. gate' = Push(NewGate, tracker')
      BY <1>1, <3>1, <3>2, <3>4
    <3> QED
      BY <2>1, <3>3, <3>5 DEF Gated
  <2>2. CASE ~req.tools
    BY <1>1, <1>2, <2>2 DEF Gated
  <2> QED
    BY <2>1, <2>2
<1>11. /\ tracker' = tracker \/ tracker' = Clean(text)
       /\ ~req.stream => tracker' = tracker
       /\ req.stream /\ IsPrefix(tracker, Clean(text)) => tracker' = Clean(text)
  BY <1>1, <1>3, <1>5
<1> QED
  BY <1>1, <1>3, <1>8, <1>9, <1>10, <1>11

\* More of the text.
LEMMA BaseText ==
  ASSUME Base, ReadText
  PROVE  Base'
<1>1. PICK n \in 1 .. Len(answer.text) :
        /\ (drafted /\ frame = answer.draft) \/ n > Len(frame)
        /\ Receive(SubSeq(answer.text, 1, n))
  BY DEF ReadText
<1>2. UNCHANGED <<req, answer, thought, drafted, rtracker, pc>> /\ pc = "reading"
  BY DEF ReadText
<1>3. Texts /\ HandedOn
  BY DEF Base
<1>4. /\ answer.text \in Seq(Char) /\ Len(answer.text) \in Nat /\ n \in 0 .. Len(answer.text)
      /\ frame \in Seq(Char) /\ Len(frame) \in Nat
  BY <1>3, AnswerIs DEF Texts
<1>5. PICK text : text = SubSeq(answer.text, 1, n)
  OBVIOUS
<1>6. text \in Seq(Char) /\ IsPrefix(text, answer.text) /\ text # <<>>
  <2>1. text \in Seq(Char) /\ Len(text) = n
    BY <1>4, <1>5, FrontIs
  <2> QED
    BY <1>1, <1>4, <1>5, <2>1, FrontIsPrefix
<1>7. Receive(text)
  BY <1>1, <1>5
<1>8. frame' = (IF Trim(text) = <<>> /\ Trim(frame) # <<>> THEN frame ELSE text)
  BY <1>2, <1>6, <1>7, ReceiveIs
<1>9. /\ tracker' \in Seq(Char)
      /\ tracker' = tracker \/ tracker' = Clean(text)
      /\ ~req.stream => tracker' = tracker
      /\ req.stream /\ IsPrefix(tracker, Clean(text)) => tracker' = Clean(text)
      /\ Trim(text) = <<>> => tracker' = tracker
      /\ tracker' # <<>> => frame' # <<>>
      /\ Gated'
  BY <1>2, <1>6, <1>7, ReceiveHands
<1>10. Texts'
  BY <1>2, <1>3, <1>6, <1>8 DEF Texts
<1>11. (Unchanged' <=> Unchanged) /\ \A t : Begun(t)' <=> Begun(t)
  BY <1>2 DEF Begun, Unchanged
<1>12. Begun(Clean(text))
  BY <1>5 DEF Begun
<1>13. req.stream /\ Unchanged => tracker' = Clean(frame')
  <2> SUFFICES ASSUME req.stream, Unchanged PROVE tracker' = Clean(frame')
    OBVIOUS
  <2>1. tracker = Clean(frame) /\ ~drafted /\ First(answer.text, CodeOpen) = 0
    BY <1>3 DEF HandedOn, Unchanged
  <2>2. CASE Trim(text) = <<>>
    <3>1. tracker' = Clean(frame)
      BY <1>9, <2>1, <2>2
    <3>2. Clean(text) = <<>> /\ (Trim(frame) = <<>> => Clean(frame) = <<>>)
      BY <2>2, BlankIsClean, <1>4, <1>6
    <3> QED
      BY <1>8, <2>2, <3>1, <3>2
  <2>3. CASE Trim(text) # <<>>
    <3>1. IsPrefix(frame, answer.text) /\ n > Len(frame)
      BY <1>1, <1>3, <2>1 DEF Texts
    <3>2. IsPrefix(frame, text)
      BY <1>4, <1>5, <3>1, FrontsNest
    <3>3. First(text, CodeOpen) = 0
      BY <1>4, <1>6, <2>1, CodeFreePrefix
    <3>4. IsPrefix(Clean(frame), Clean(text))
      BY <1>4, <1>6, <3>2, <3>3, CleanPrefix
    <3> QED
      BY <1>8, <1>9, <2>1, <2>3, <3>4
  <2> QED
    BY <2>2, <2>3
<1>14. HandedOn'
  <2>1. tracker' \in {<<>>, Clean(answer.draft)} \/ Begun(tracker')
    <3>1. tracker \in {<<>>, Clean(answer.draft)} \/ Begun(tracker)
      BY <1>3 DEF HandedOn
    <3> QED
      BY <1>9, <1>12, <3>1
  <2>2. ~drafted => tracker' = <<>> \/ Begun(tracker')
    <3>1. ~drafted => tracker = <<>> \/ Begun(tracker)
      BY <1>3 DEF HandedOn
    <3> QED
      BY <1>9, <1>12, <3>1
  <2>3. Begun(tracker)' <=> Begun(tracker')
    BY <1>2 DEF Begun
  <2>4. /\ ~req.stream => tracker' = <<>> /\ rtracker' = <<>>
        /\ req.api = "responses" => rtracker' = <<>>
    BY <1>2, <1>3, <1>9 DEF HandedOn
  <2>5. pc' # "asked"
    BY <1>2
  <2> QED
    BY <1>2, <1>9, <1>11, <1>13, <2>1, <2>2, <2>3, <2>4, <2>5 DEF HandedOn
<1> QED
  BY <1>9, <1>10, <1>14 DEF Base

\* A draft.
LEMMA BaseDraft ==
  ASSUME Base, ReadDraft
  PROVE  Base'
<1>1. /\ UNCHANGED <<req, answer, thought, rtracker, pc>> /\ pc = "reading" /\ drafted' = TRUE
      /\ Receive(answer.draft) /\ answer.draft # <<>>
  BY DEF ReadDraft
<1>3. Texts /\ HandedOn
  BY DEF Base
<1>5. PICK text : text = answer.draft
  OBVIOUS
<1>6. text \in Seq(Char) /\ text # <<>>
  BY <1>1, <1>3, <1>5, AnswerIs DEF Texts
<1>7. Receive(text)
  BY <1>1, <1>5
<1>8. frame' = (IF Trim(text) = <<>> /\ Trim(frame) # <<>> THEN frame ELSE text)
  BY <1>1, <1>6, <1>7, ReceiveIs
<1>9. /\ tracker' \in Seq(Char)
      /\ tracker' = tracker \/ tracker' = Clean(text)
      /\ ~req.stream => tracker' = tracker
      /\ tracker' # <<>> => frame' # <<>>
      /\ Gated'
  BY <1>1, <1>6, <1>7, ReceiveHands
<1>10. Texts'
  BY <1>1, <1>3, <1>5, <1>6, <1>8 DEF Texts
<1>11. ~Unchanged'
  BY <1>1 DEF Unchanged
<1>14. HandedOn'
  <2>1. tracker' \in {<<>>, Clean(answer.draft)} \/ Begun(tracker')
    <3>1. tracker \in {<<>>, Clean(answer.draft)} \/ Begun(tracker)
      BY <1>3 DEF HandedOn
    <3> QED
      BY <1>5, <1>9, <3>1
  <2>3. Begun(tracker)' <=> Begun(tracker')
    BY <1>1 DEF Begun
  <2>4. /\ ~req.stream => tracker' = <<>> /\ rtracker' = <<>>
        /\ req.api = "responses" => rtracker' = <<>>
    BY <1>1, <1>3, <1>9 DEF HandedOn
  <2> QED
    BY <1>1, <1>9, <1>11, <2>1, <2>3, <2>4 DEF HandedOn
<1> QED
  BY <1>9, <1>10, <1>14 DEF Base

Quiet ==
    \/ RejectChat \/ AcceptChat \/ RejectResponses \/ AcceptResponses
    \/ CompleteChat \/ CompleteResponses \/ FailChat \/ FailResponses

LEMMA NextBase ==
  ASSUME Base, [Next]_vars
  PROVE  Base'
<1>1. CASE Quiet
  <2>1. /\ pc' \in {"asked", "reading", "done"}
        /\ pc' = "asked" => pc = "asked"
        /\ UNCHANGED <<req, answer, upstream, tracker, rtracker, gate>>
    BY <1>1 DEF Quiet, RejectChat, AcceptChat, RejectResponses, AcceptResponses,
                CompleteChat, CompleteResponses, FailChat, FailResponses, Handled
  <2> QED
    BY <2>1, BaseStays
<1>2. CASE ReadReasoning
  BY <1>2, BaseReasoning
<1>3. CASE ReadText
  BY <1>3, BaseText
<1>4. CASE ReadDraft
  BY <1>4, BaseDraft
<1>5. CASE Retry
  BY <1>5, BaseRetry
<1>6. CASE UNCHANGED vars
  <2>1. /\ pc' \in {"asked", "reading", "done"}
        /\ pc' = "asked" => pc = "asked"
        /\ UNCHANGED <<req, answer, upstream, tracker, rtracker, gate>>
    BY <1>6 DEF vars, upstream, Base, Texts
  <2> QED
    BY <2>1, BaseStays
<1> QED
  BY <1>1, <1>2, <1>3, <1>4, <1>5, <1>6 DEF Next, Quiet

LEMMA EmptyPrefix ==
  ASSUME NEW S, NEW s \in Seq(S)
  PROVE  IsPrefix(<<>>, s)
<1>1. <<>> \in Seq(S) /\ <<>> \o s = s
  BY ConcatEmptySeq
<1>2. IsPrefix(<<>>, <<>> \o s)
  BY <1>1, PrefixOfConcat
<1> QED
  BY <1>1, <1>2

\* What the gate has sent of the beginning of a text is the beginning of what
\* is left of all of it.
LEMMA GateOfPrefix ==
  ASSUME NEW s \in Seq(Char), NEW t \in Seq(Char), IsPrefix(s, t)
  PROVE  IsPrefix(Push(NewGate, s).sent, Unfenced(t))
<1> DEFINE d == After(t, Len(s))
           g == Push(NewGate, s)
           h == Push(NewGate, t)
<1>1. d \in Seq(Char) /\ s \o d = t
  BY PrefixRest
<1> HIDE DEF d
<1>2. g \in Gates /\ h \in Gates
  BY NewGateIs, PushType
<1>3. Push(g, d) = h
  BY <1>1, NewGateIs, PushTwice
<1> HIDE DEF g, h
<1>4. IsPrefix(g.sent, h.sent)
  BY <1>1, <1>2, <1>3, PushType
<1>5. IsPrefix(h.sent, Unfenced(t)) /\ Unfenced(t) \in Seq(Char)
  BY GateWithin DEF h
<1>6. g.sent \in Seq(Char) /\ h.sent \in Seq(Char)
  BY <1>2, GateIs
<1>7. IsPrefix(g.sent, Unfenced(t))
  BY <1>4, <1>5, <1>6, PrefixTrans
<1> QED
  BY <1>7 DEF g

LEMMA BaseOneText ==
  ASSUME Base
  PROVE  SentIsOneText
<1>1. tracker \in {<<>>, Clean(answer.draft)} \/ Begun(tracker)
  BY DEF Base, HandedOn
<1>2. req.tools => gate = Push(NewGate, tracker)
  BY DEF Base, Gated
<1> QED
  BY <1>1, <1>2 DEF SentIsOneText, Begun

LEMMA BaseNotTakenBack ==
  ASSUME Base
  PROVE  NeverTakenBack
<1> SUFFICES ASSUME req.tools, Unchanged
             PROVE  IsPrefix(gate.sent, Unfenced(Clean(answer.text)))
  BY DEF NeverTakenBack
<1>1. answer.text \in Seq(Char) /\ Len(answer.text) \in Nat
  BY AnswerIs DEF Base, Texts
<1>2. Clean(answer.text) \in Seq(Char)
  BY <1>1, CleanType
<1>3. First(answer.text, CodeOpen) = 0 /\ ~drafted
  BY DEF Unchanged
<1>4. IsPrefix(tracker, Clean(answer.text))
  <2>1. CASE tracker = <<>>
    BY <1>2, <2>1, EmptyPrefix
  <2>2. CASE Begun(tracker)
    <3>1. PICK n \in 1 .. Len(answer.text) : tracker = Clean(SubSeq(answer.text, 1, n))
      BY <2>2 DEF Begun
    <3>2. n \in 0 .. Len(answer.text)
      BY <1>1
    <3> DEFINE s == SubSeq(answer.text, 1, n)
    <3>3. s \in Seq(Char) /\ IsPrefix(s, answer.text)
      BY <1>1, <3>2, FrontIs, FrontIsPrefix
    <3> HIDE DEF s
    <3>4. IsPrefix(Clean(s), Clean(answer.text))
      BY <1>1, <1>3, <3>3, CleanPrefix
    <3> QED
      BY <3>1, <3>4 DEF s
  <2> QED
    BY <1>3, <2>1, <2>2 DEF Base, HandedOn
<1>5. tracker \in Seq(Char) /\ gate = Push(NewGate, tracker)
  BY DEF Base, HandedOn, Gated
<1> QED
  BY <1>2, <1>4, <1>5, GateOfPrefix

LEMMA BaseInvariant == Spec => []Base
<1>1. Init => Base
  BY InitBase
<1>2. Base /\ [Next]_vars => Base'
  BY NextBase
<1> QED
  BY <1>1, <1>2, PTL DEF Spec

\* What was handed on is always the beginning of one text that Google wrote,
\* and the gate is where that text in one piece would have brought it, for any
\* texts, cut anywhere and read in any order (deltaTracker.Push and
\* toolFenceGate.Push).
THEOREM OneText == Spec => []SentIsOneText
<1>1. Base => SentIsOneText
  BY BaseOneText
<1> QED
  BY <1>1, BaseInvariant, PTL

\* The gate has sent nothing that the reply in one piece leaves out, for any
\* text, with any number of fences, whole or half (toolFenceGate.Push and
\* parseToolCalls).
THEOREM NothingTakenBack == Spec => []NeverTakenBack
<1>1. Base => NeverTakenBack
  BY BaseNotTakenBack
<1> QED
  BY <1>1, BaseInvariant, PTL

-------------------------------------------------------------------------------
\* What a client receives, event by event.

Kinds ==
    {"json", "created", "completed", "failed", "role", "reasoning", "content", "tool_calls",
     "finish", "error", "[DONE]", "output_item.added", "content_part.added",
     "output_text.delta", "output_text.done", "content_part.done", "arguments.done",
     "output_item.done"}

Events == [kind : Kinds, index : Nat, text : Seq(Char)]

LEMMA EventIs ==
  ASSUME NEW kind \in Kinds, NEW index \in Nat, NEW text \in Seq(Char)
  PROVE  /\ Event(kind, index, text) \in Events
         /\ Event(kind, index, text).kind = kind
         /\ Event(kind, index, text).index = index
         /\ Event(kind, index, text).text = text
BY DEF Event, Events

LEMMA MarkIs ==
  ASSUME NEW kind \in Kinds, NEW index \in Nat
  PROVE  /\ Event(kind, index, <<>>) \in Events
         /\ Event(kind, index, <<>>).kind = kind
         /\ Event(kind, index, <<>>).index = index
BY DEF Event, Events

LEMMA FieldsAre ==
  ASSUME NEW e \in Events
  PROVE  e.kind \in Kinds /\ e.index \in Nat /\ e.text \in Seq(Char)
BY DEF Events

LEMMA AppendIs ==
  ASSUME NEW es \in Seq(Events), NEW e \in Events
  PROVE  /\ Append(es, e) \in Seq(Events)
         /\ Len(es) \in Nat
         /\ Len(Append(es, e)) = Len(es) + 1
         /\ DOMAIN es = 1 .. Len(es)
         /\ DOMAIN Append(es, e) = 1 .. Len(es) + 1
         /\ \A i \in 1 .. Len(es) : Append(es, e)[i] = es[i]
         /\ Append(es, e)[Len(es) + 1] = e
BY AppendProperties

LEMMA AppendTwo ==
  ASSUME NEW es \in Seq(Events), NEW a \in Events, NEW b \in Events
  PROVE  es \o <<a, b>> = Append(Append(es, a), b)
<1>1. /\ Append(es, a) \in Seq(Events) /\ Append(Append(es, a), b) \in Seq(Events)
      /\ Len(Append(Append(es, a), b)) = Len(es) + 2 /\ Len(es) \in Nat
      /\ \A i \in 1 .. Len(es) : Append(Append(es, a), b)[i] = es[i]
      /\ Append(Append(es, a), b)[Len(es) + 1] = a
      /\ Append(Append(es, a), b)[Len(es) + 2] = b
  BY AppendProperties
<1> DEFINE u == <<a, b>>
           w == Append(Append(es, a), b)
<1>2. u \in Seq(Events) /\ Len(u) = 2 /\ u[1] = a /\ u[2] = b
  OBVIOUS
<1> HIDE DEF u, w
<1>3. /\ es \o u \in Seq(Events)
      /\ Len(es \o u) = Len(es) + Len(u)
      /\ \A i \in 1 .. Len(es) + Len(u) : (es \o u)[i] = IF i <= Len(es) THEN es[i] ELSE u[i - Len(es)]
  BY <1>2, ConcatProperties
<1>4. /\ w \in Seq(Events) /\ Len(w) = Len(es) + 2 /\ Len(es) \in Nat
      /\ \A i \in 1 .. Len(es) : w[i] = es[i]
      /\ w[Len(es) + 1] = a /\ w[Len(es) + 2] = b
  BY <1>1 DEF w
<1>5. Len(es \o u) = Len(w)
  BY <1>2, <1>3, <1>4
<1>6. ASSUME NEW i \in 1 .. Len(w) PROVE (es \o u)[i] = w[i]
  <2>1. CASE i <= Len(es)
    BY <1>2, <1>3, <1>4, <2>1
  <2>2. CASE i = Len(es) + 1
    <3>1. (es \o u)[i] = u[1]
      BY <1>2, <1>3, <1>4, <2>2
    <3> QED
      BY <1>2, <1>4, <2>2, <3>1
  <2>3. CASE i = Len(es) + 2
    <3>1. (es \o u)[i] = u[2]
      BY <1>2, <1>3, <1>4, <2>3
    <3> QED
      BY <1>2, <1>4, <2>3, <3>1
  <2>4. Len(es) \in Nat /\ i \in 1 .. Len(es) + 2
    BY <1>4
  <2>5. i <= Len(es) \/ i = Len(es) + 1 \/ i = Len(es) + 2
    BY ONLY <2>4
  <2> QED
    BY <2>1, <2>2, <2>3, <2>5
<1>7. es \o u = w
  BY <1>3, <1>4, <1>5, <1>6, SeqEqual
<1> QED
  BY <1>7 DEF u, w

LEMMA AppendThree ==
  ASSUME NEW es \in Seq(Events), NEW a \in Events, NEW b \in Events, NEW c \in Events
  PROVE  es \o <<a, b, c>> = Append(Append(Append(es, a), b), c)
<1> DEFINE u == <<a, b>>
           v == <<c>>
<1>1. u \in Seq(Events) /\ v \in Seq(Events) /\ <<a, b, c>> = u \o v
  OBVIOUS
<1>2. es \o u = Append(Append(es, a), b)
  BY AppendTwo
<1>3. es \o (u \o v) = (es \o u) \o v
  <2> HIDE DEF u, v
  <2> QED
    BY <1>1, ConcatAssociative, SMTT(30)
<1>4. es \o u \in Seq(Events)
  <2> HIDE DEF u
  <2> QED
    BY <1>1, ConcatProperties
<1> HIDE DEF u
<1>5. (es \o u) \o v = Append(es \o u, c)
  BY <1>4, AppendIsConcat
<1> QED
  BY <1>1, <1>2, <1>3, <1>5

\* How often a kind of event was sent.
LEMMA CountAppend ==
  ASSUME NEW es \in Seq(Events), NEW e \in Events, NEW kind
  PROVE  /\ Count(es, kind) \in Nat
         /\ Count(Append(es, e), kind) = IF e.kind = kind THEN Count(es, kind) + 1
                                         ELSE Count(es, kind)
<1> DEFINE d == Append(es, e)
           L == Len(es)
           A == {i \in DOMAIN es : es[i].kind = kind}
           B == {i \in DOMAIN d : d[i].kind = kind}
<1>1. /\ L \in Nat /\ DOMAIN es = 1 .. L /\ DOMAIN d = 1 .. L + 1
      /\ \A i \in 1 .. L : d[i] = es[i]
      /\ d[L + 1] = e
  BY AppendIs
<1> HIDE DEF d, L
<1>2. \A i : i \in A <=> i \in 1 .. L /\ es[i].kind = kind
  BY <1>1
<1>3. \A i : i \in B <=> i \in 1 .. L + 1 /\ d[i].kind = kind
  BY <1>1
<1> HIDE DEF A, B
<1>4. IsFiniteSet(A) /\ L + 1 \notin A
  <2>1. IsFiniteSet(1 .. L)
    BY <1>1, FS_Interval
  <2>2. A \subseteq 1 .. L
    BY <1>2
  <2>3. IsFiniteSet(A)
    BY <2>1, <2>2, FS_Subset
  <2> QED
    BY <1>1, <1>2, <2>3
<1>5. Cardinality(A) \in Nat /\ Cardinality(A \cup {L + 1}) = Cardinality(A) + 1
  BY <1>4, FS_AddElement, FS_CardinalityType
<1>6. B = IF e.kind = kind THEN A \cup {L + 1} ELSE A
  <2>1. \A i \in 1 .. L : i \in B <=> i \in A
    BY <1>1, <1>2, <1>3
  <2>2. L + 1 \in B <=> e.kind = kind
    BY <1>1, <1>3
  <2>3. \A i : i \in 1 .. L + 1 <=> i \in 1 .. L \/ i = L + 1
    BY <1>1
  <2> QED
    BY <1>2, <1>3, <1>4, <2>1, <2>2, <2>3
<1>7. Count(es, kind) = Cardinality(A) /\ Count(d, kind) = Cardinality(B)
  BY DEF Count, A, B
<1> QED
  BY <1>5, <1>6, <1>7 DEF d

LEMMA CountNothing ==
  ASSUME NEW kind
  PROVE  Count(<<>>, kind) = 0
<1>1. {i \in DOMAIN <<>> : <<>>[i].kind = kind} = {}
  OBVIOUS
<1> QED
  BY <1>1, FS_EmptySet DEF Count


\* The text in what was received, event by event.
IsText(e) == e.kind \in {"content", "output_text.delta"}

TextsOf(es) ==
    LET upto[n \in 0 .. Len(es)] ==
          IF n = 0 THEN <<>>
          ELSE IF es[n].kind \in {"content", "output_text.delta"}
          THEN upto[n - 1] \o es[n].text ELSE upto[n - 1]
    IN  upto

Told == [at : Nat, told : Seq(Char)]

LEMMA ToldIs ==
  ASSUME NEW p \in Told
  PROVE  p.at \in Nat /\ p.told \in Seq(Char)
BY DEF Told

LEMMA ToldRoundsExist ==
  ASSUME NEW F \in [Told -> Told], NEW x \in Told
  PROVE  \E f \in [Nat -> Told] : f = [n \in Nat |-> IF n = 0 THEN x ELSE F[f[n - 1]]]
BY RoundsExist

LEMMA TextsExist ==
  ASSUME NEW es \in Seq(Events)
  PROVE  \E f \in [0 .. Len(es) -> Seq(Char)] :
           f = [n \in 0 .. Len(es) |->
                  IF n = 0 THEN <<>>
                  ELSE IF es[n].kind \in {"content", "output_text.delta"}
                  THEN f[n - 1] \o es[n].text ELSE f[n - 1]]
<1> DEFINE L == Len(es)
           Add(p) == IF p.at + 1 \in 1 .. L /\ IsText(es[p.at + 1])
                     THEN p.told \o es[p.at + 1].text ELSE p.told
           F == [p \in Told |-> [at |-> p.at + 1, told |-> Add(p)]]
           x == [at |-> 0, told |-> <<>>]
<1>0. L \in Nat /\ \A i \in 1 .. L : es[i] \in Events
  OBVIOUS
<1> HIDE DEF L
<1>1. ASSUME NEW p \in Told PROVE Add(p) \in Seq(Char)
  <2>1. p.at \in Nat /\ p.told \in Seq(Char)
    BY ToldIs
  <2>2. CASE p.at + 1 \in 1 .. L /\ IsText(es[p.at + 1])
    <3>1. es[p.at + 1].text \in Seq(Char)
      BY <1>0, <2>2, FieldsAre
    <3>2. p.told \o es[p.at + 1].text \in Seq(Char)
      BY <2>1, <3>1, ConcatProperties
    <3> QED
      BY <2>2, <3>2
  <2>3. CASE ~(p.at + 1 \in 1 .. L /\ IsText(es[p.at + 1]))
    BY <2>1, <2>3
  <2> QED
    BY <2>2, <2>3
<1> HIDE DEF Add
<1>2. F \in [Told -> Told]
  <2>1. \A p \in Told : [at |-> p.at + 1, told |-> Add(p)] \in Told
    BY <1>1, ToldIs DEF Told
  <2> QED
    BY <2>1
<1>3. \A p \in Told : F[p] = [at |-> p.at + 1, told |-> Add(p)]
  OBVIOUS
<1>4. x \in Told /\ x.at = 0 /\ x.told = <<>>
  BY DEF Told
<1> HIDE DEF F, x
<1>5. PICK g \in [Nat -> Told] : g = [n \in Nat |-> IF n = 0 THEN x ELSE F[g[n - 1]]]
  BY ONLY <1>2, <1>4, ToldRoundsExist
<1>6. g[0] = x /\ \A n \in Nat : g[n] \in Told
  BY <1>5
<1>7. \A n \in Nat : g[n + 1] = F[g[n]]
  BY <1>5
<1>8. ASSUME NEW n \in Nat PROVE g[n + 1].at = g[n].at + 1 /\ g[n + 1].told = Add(g[n])
  <2>1. g[n] \in Told /\ g[n + 1] = F[g[n]]
    BY <1>6, <1>7
  <2>2. F[g[n]] = [at |-> g[n].at + 1, told |-> Add(g[n])]
    BY <1>3, <2>1
  <2>3. g[n + 1] = [at |-> g[n].at + 1, told |-> Add(g[n])]
    BY <2>1, <2>2
  <2> QED
    BY ONLY <2>3
<1> DEFINE U == {n \in Nat : g[n].at = n}
<1>9. 0 \in U
  BY <1>4, <1>6
<1>10. ASSUME NEW n \in Nat, n \in U PROVE n + 1 \in U
  <2>1. g[n].at = n /\ g[n + 1].at = g[n].at + 1
    BY <1>8, <1>10
  <2> QED
    BY <2>1
<1> HIDE DEF U
<1>11. Nat \subseteq U
  BY <1>9, <1>10, Induct
<1>12. \A n \in Nat : g[n].at = n /\ g[n].told \in Seq(Char)
  BY <1>6, <1>11, ToldIs DEF U
<1> DEFINE f == [n \in 0 .. L |-> g[n].told]
<1>13. f \in [0 .. L -> Seq(Char)]
  BY <1>0, <1>12
<1>14. ASSUME NEW n \in 1 .. L
       PROVE  f[n] = IF IsText(es[n]) THEN f[n - 1] \o es[n].text ELSE f[n - 1]
  <2>1. PICK m \in Nat : m = n - 1
    BY <1>0
  <2>2. m + 1 = n /\ m \in 0 .. L
    BY <1>0, <2>1
  <2>3. g[n].told = Add(g[m])
    BY <1>8, <2>2
  <2>4. Add(g[m]) = IF m + 1 \in 1 .. L /\ IsText(es[m + 1]) THEN g[m].told \o es[m + 1].text
                    ELSE g[m].told
    <3>1. g[m].at = m
      BY <1>12
    <3> QED
      BY <3>1 DEF Add
  <2>5. f[n] = g[n].told /\ f[m] = g[m].told
    BY <2>2, <1>0
  <2> HIDE DEF f
  <2> QED
    BY <2>1, <2>2, <2>3, <2>4, <2>5
<1>15. 0 \in 0 .. L /\ f[0] = <<>>
  BY <1>0, <1>4, <1>6
<1> HIDE DEF f
<1>16. f = [n \in 0 .. L |->
              IF n = 0 THEN <<>>
              ELSE IF es[n].kind \in {"content", "output_text.delta"}
              THEN f[n - 1] \o es[n].text ELSE f[n - 1]]
  <2>1. \A n \in 0 .. L : n # 0 => n \in 1 .. L
    BY <1>0
  <2>2. \A n \in 0 .. L : f[n] = IF n = 0 THEN <<>>
              ELSE IF es[n].kind \in {"content", "output_text.delta"}
              THEN f[n - 1] \o es[n].text ELSE f[n - 1]
    BY <1>14, <1>15, <2>1 DEF IsText
  <2> QED
    BY <1>13, <2>2
<1> QED
  BY <1>13, <1>16 DEF L

LEMMA TextsAre ==
  ASSUME NEW es \in Seq(Events)
  PROVE  /\ TextsOf(es) \in [0 .. Len(es) -> Seq(Char)]
         /\ TextsOf(es)[0] = <<>>
         /\ \A n \in 1 .. Len(es) :
              TextsOf(es)[n] = IF IsText(es[n]) THEN TextsOf(es)[n - 1] \o es[n].text
                               ELSE TextsOf(es)[n - 1]
         /\ TextOf(es) = TextsOf(es)[Len(es)]
<1> DEFINE f == TextsOf(es)
           L == Len(es)
<1>0. L \in Nat /\ \A i \in 1 .. L : es[i] \in Events
  OBVIOUS
<1>1. PICK g \in [0 .. L -> Seq(Char)] :
        g = [n \in 0 .. L |-> IF n = 0 THEN <<>>
              ELSE IF es[n].kind \in {"content", "output_text.delta"}
              THEN g[n - 1] \o es[n].text ELSE g[n - 1]]
  BY TextsExist
<1>2. f = [n \in 0 .. L |-> IF n = 0 THEN <<>>
              ELSE IF es[n].kind \in {"content", "output_text.delta"}
              THEN f[n - 1] \o es[n].text ELSE f[n - 1]]
  BY <1>1 DEF TextsOf
<1>3. TextOf(es) = f[L]
  BY DEF TextOf, TextsOf
<1> HIDE DEF f, L
<1>4. f[0] = <<>>
  BY <1>0, <1>2
<1>5. ASSUME NEW n \in 1 .. L
      PROVE  f[n] = IF IsText(es[n]) THEN f[n - 1] \o es[n].text ELSE f[n - 1]
  <2>1. n \in 0 .. L /\ n # 0
    BY <1>0
  <2> QED
    BY <1>2, <2>1 DEF IsText
<1> DEFINE U == {n \in Nat : n <= L => f[n] \in Seq(Char)}
<1>6. 0 \in U
  <2>1. <<>> \in Seq(Char)
    OBVIOUS
  <2> QED
    BY <1>4, <2>1
<1>7. ASSUME NEW n \in Nat, n \in U PROVE n + 1 \in U
  <2> SUFFICES ASSUME n + 1 <= L PROVE f[n + 1] \in Seq(Char)
    OBVIOUS
  <2>1. n <= L /\ n + 1 \in 1 .. L /\ (n + 1) - 1 = n
    BY <1>0
  <2>2. f[n] \in Seq(Char)
    BY <1>7, <2>1
  <2>3. f[n + 1] = IF IsText(es[n + 1]) THEN f[n] \o es[n + 1].text ELSE f[n]
    BY <1>5, <2>1
  <2>4. es[n + 1].text \in Seq(Char)
    BY <1>0, <2>1, FieldsAre
  <2>5. f[n] \o es[n + 1].text \in Seq(Char)
    BY <2>2, <2>4, ConcatProperties
  <2> QED
    BY <2>2, <2>3, <2>5
<1> HIDE DEF U
<1>8. Nat \subseteq U
  BY <1>6, <1>7, Induct
<1>9. \A n \in 0 .. L : f[n] \in Seq(Char)
  BY <1>0, <1>8 DEF U
<1>10. f \in [0 .. L -> Seq(Char)]
  BY <1>2, <1>9
<1> QED
  BY <1>3, <1>4, <1>5, <1>10 DEF f, L

LEMMA TextType ==
  ASSUME NEW es \in Seq(Events)
  PROVE  TextOf(es) \in Seq(Char)
<1>1. Len(es) \in 0 .. Len(es)
  OBVIOUS
<1> QED
  BY <1>1, TextsAre

\* Lists that begin with the same events have the same text so far.
LEMMA TextsSame ==
  ASSUME NEW es \in Seq(Events), NEW fs \in Seq(Events), NEW N \in Nat,
         N <= Len(es), N <= Len(fs), \A i \in 1 .. N : es[i] = fs[i]
  PROVE  TextsOf(es)[N] = TextsOf(fs)[N]
<1> DEFINE f == TextsOf(es)
           g == TextsOf(fs)
           U == {n \in Nat : n <= N => f[n] = g[n]}
<1>1. /\ f[0] = <<>>
      /\ \A n \in 1 .. Len(es) : f[n] = IF IsText(es[n]) THEN f[n - 1] \o es[n].text ELSE f[n - 1]
  BY TextsAre
<1>2. /\ g[0] = <<>>
      /\ \A n \in 1 .. Len(fs) : g[n] = IF IsText(fs[n]) THEN g[n - 1] \o fs[n].text ELSE g[n - 1]
  BY TextsAre
<1>3. Len(es) \in Nat /\ Len(fs) \in Nat
  OBVIOUS
<1> HIDE DEF f, g
<1>4. 0 \in U
  BY <1>1, <1>2
<1>5. ASSUME NEW n \in Nat, n \in U PROVE n + 1 \in U
  <2> SUFFICES ASSUME n + 1 <= N PROVE f[n + 1] = g[n + 1]
    OBVIOUS
  <2>1. n <= N /\ n + 1 \in 1 .. Len(es) /\ n + 1 \in 1 .. Len(fs) /\ (n + 1) - 1 = n /\ n + 1 \in 1 .. N
    BY <1>3
  <2>2. f[n] = g[n] /\ es[n + 1] = fs[n + 1]
    BY <1>5, <2>1
  <2>3. f[n + 1] = IF IsText(es[n + 1]) THEN f[n] \o es[n + 1].text ELSE f[n]
    BY <1>1, <2>1
  <2>4. g[n + 1] = IF IsText(fs[n + 1]) THEN g[n] \o fs[n + 1].text ELSE g[n]
    BY <1>2, <2>1
  <2> QED
    BY <2>2, <2>3, <2>4
<1> HIDE DEF U
<1>6. N \in U
  BY <1>4, <1>5, Induct
<1> QED
  BY <1>6 DEF U, f, g

LEMMA TextAppend ==
  ASSUME NEW es \in Seq(Events), NEW e \in Events
  PROVE  TextOf(Append(es, e)) = IF IsText(e) THEN TextOf(es) \o e.text ELSE TextOf(es)
<1> DEFINE d == Append(es, e)
           L == Len(es)
<1>1. /\ d \in Seq(Events) /\ L \in Nat /\ Len(d) = L + 1
      /\ \A i \in 1 .. L : d[i] = es[i]
      /\ d[L + 1] = e
  BY AppendIs
<1> HIDE DEF d
<1>2. TextsOf(d)[L] = TextsOf(es)[L]
  BY <1>1, TextsSame
<1>3. TextOf(es) = TextsOf(es)[L]
  BY TextsAre
<1> HIDE DEF L
<1>4. L + 1 \in 1 .. Len(d) /\ (L + 1) - 1 = L
  BY <1>1
<1>5. /\ TextOf(d) = TextsOf(d)[Len(d)]
      /\ \A n \in 1 .. Len(d) : TextsOf(d)[n] = IF IsText(d[n]) THEN TextsOf(d)[n - 1] \o d[n].text
                                                ELSE TextsOf(d)[n - 1]
  BY <1>1, TextsAre
<1>6. TextsOf(d)[L + 1] = IF IsText(d[L + 1]) THEN TextsOf(d)[L] \o d[L + 1].text ELSE TextsOf(d)[L]
  BY <1>4, <1>5
<1> QED
  BY <1>1, <1>2, <1>3, <1>5, <1>6 DEF d

LEMMA TextNothing == TextOf(<<>>) = <<>>
<1>1. <<>> \in Seq(Events) /\ Len(<<>>) = 0
  OBVIOUS
<1>2. TextsOf(<<>>)[0] = <<>> /\ TextOf(<<>>) = TextsOf(<<>>)[Len(<<>>)]
  BY <1>1, TextsAre
<1> QED
  BY <1>1, <1>2


\* A delta that is joined to the last event changes only its text.
Like(es, fs) ==
    /\ fs \in Seq(Events)
    /\ Len(fs) = Len(es)
    /\ \A i \in 1 .. Len(es) : fs[i].kind = es[i].kind /\ fs[i].index = es[i].index

LEMMA JoinIs ==
  ASSUME NEW es \in Seq(Events), NEW e \in Events, es # <<>>, es[Len(es)].kind = e.kind,
         NEW fs, fs = [es EXCEPT ![Len(es)].text = @ \o e.text]
  PROVE  /\ Like(es, fs)
         /\ TextOf(fs) = IF IsText(e) THEN TextOf(es) \o e.text ELSE TextOf(es)
<1>0. Len(es) \in 1 .. Len(es) /\ Len(es) \in Nat /\ \A i \in 1 .. Len(es) : es[i] \in Events
  OBVIOUS
<1>1. PICK L : L = Len(es)
  OBVIOUS
<1> DEFINE last == [es[L] EXCEPT !.text = @ \o e.text]
<1>2. es[L] \in Events /\ e.text \in Seq(Char) /\ es[L].text \in Seq(Char)
  BY <1>0, <1>1, FieldsAre
<1>3. es[L].text \o e.text \in Seq(Char)
  BY <1>2, ConcatProperties
<1>4. /\ last.kind = es[L].kind /\ last.index = es[L].index /\ last.text = es[L].text \o e.text
      /\ last \in Events
  BY <1>2, <1>3 DEF Events
<1> HIDE DEF last
<1>5. fs = [es EXCEPT ![L] = last]
  BY <1>1 DEF last
<1>6. /\ fs \in Seq(Events) /\ Len(fs) = L
      /\ \A i \in 1 .. L : fs[i] = IF i = L THEN last ELSE es[i]
  <2>1. L \in 1 .. Len(es)
    BY <1>0, <1>1
  <2> QED
    <3> DEFINE d == [es EXCEPT ![L] = last]
    <3>1. d \in Seq(Events) /\ Len(d) = Len(es)
          /\ \A j \in 1 .. Len(es) : d[j] = IF j = L THEN last ELSE es[j]
      BY ONLY es \in Seq(Events), <1>4, <2>1, ExceptSeq
    <3> HIDE DEF d
    <3>2. fs = d
      BY <1>5 DEF d
    <3> QED
      BY <1>1, <3>1, <3>2
<1>7. Like(es, fs)
  BY <1>1, <1>4, <1>6 DEF Like
<1>8. PICK m \in Nat : m = L - 1
  BY <1>0, <1>1
<1>9. m + 1 = L /\ m <= Len(es) /\ m <= Len(fs) /\ L \in 1 .. Len(es) /\ L \in 1 .. Len(fs)
  BY <1>0, <1>1, <1>6, <1>8
<1>10. \A i \in 1 .. m : es[i] = fs[i]
  BY <1>0, <1>1, <1>6, <1>8
<1>11. TextsOf(es)[m] = TextsOf(fs)[m]
  BY <1>6, <1>9, <1>10, TextsSame
<1>12. /\ TextsOf(es) \in [0 .. Len(es) -> Seq(Char)]
       /\ TextOf(es) = TextsOf(es)[L]
       /\ TextsOf(es)[L] = IF IsText(es[L]) THEN TextsOf(es)[m] \o es[L].text ELSE TextsOf(es)[m]
  BY <1>1, <1>8, <1>9, TextsAre
<1>13. /\ TextOf(fs) = TextsOf(fs)[L]
       /\ TextsOf(fs)[L] = IF IsText(fs[L]) THEN TextsOf(fs)[m] \o fs[L].text ELSE TextsOf(fs)[m]
  BY <1>6, <1>8, <1>9, TextsAre, ZenonT(60)
<1>14. fs[L] = last
  BY <1>6, <1>9
<1>15. TextsOf(es)[m] \in Seq(Char)
  <2>1. m \in 0 .. Len(es)
    BY <1>0, <1>9
  <2> QED
    BY <1>12, <2>1
<1>16. (IsText(es[L]) <=> IsText(e)) /\ (IsText(fs[L]) <=> IsText(e))
  BY <1>1, <1>4, <1>14 DEF IsText
<1>17. CASE IsText(e)
  <2>1. TextOf(es) = TextsOf(es)[m] \o es[L].text
    BY <1>12, <1>16, <1>17
  <2>2. TextOf(fs) = TextsOf(es)[m] \o (es[L].text \o e.text)
    BY <1>4, <1>11, <1>13, <1>14, <1>16, <1>17
  <2>3. TextsOf(es)[m] \o (es[L].text \o e.text) = (TextsOf(es)[m] \o es[L].text) \o e.text
    <3>1. \A a, b, c \in Seq(Char) : a \o (b \o c) = (a \o b) \o c
      BY ConcatAssociative, SMTT(30)
    <3>2. TextsOf(es)[m] \in Seq(Char) /\ es[L].text \in Seq(Char) /\ e.text \in Seq(Char)
      BY <1>2, <1>15
    <3> QED
      BY ONLY <3>1, <3>2, Zenon
  <2> QED
    BY <1>7, <1>17, <2>1, <2>2, <2>3
<1>18. CASE ~IsText(e)
  BY <1>7, <1>11, <1>12, <1>13, <1>16, <1>18
<1> QED
  BY <1>17, <1>18

LEMMA SentIs ==
  ASSUME NEW es \in Seq(Events), NEW e \in Events
  PROVE  /\ Sent(es, e) = Append(es, e) \/ Like(es, Sent(es, e))
         /\ Sent(es, e) \in Seq(Events)
         /\ TextOf(Sent(es, e)) = IF IsText(e) THEN TextOf(es) \o e.text ELSE TextOf(es)
<1>1. CASE e.kind \in Deltas /\ es # <<>> /\ Last(es).kind = e.kind
  <2>1. Sent(es, e) = [es EXCEPT ![Len(es)].text = @ \o e.text]
    BY <1>1 DEF Sent
  <2>2. es[Len(es)].kind = e.kind
    BY <1>1 DEF Last
  <2>3. /\ Like(es, Sent(es, e))
        /\ TextOf(Sent(es, e)) = IF IsText(e) THEN TextOf(es) \o e.text ELSE TextOf(es)
    BY <1>1, <2>1, <2>2, JoinIs
  <2> QED
    BY <2>3 DEF Like
<1>2. CASE ~(e.kind \in Deltas /\ es # <<>> /\ Last(es).kind = e.kind)
  <2>1. Sent(es, e) = Append(es, e)
    BY <1>2 DEF Sent
  <2> QED
    BY <2>1, TextAppend, AppendIs
<1> QED
  BY <1>1, <1>2

\* Nothing has told the client yet that its answer has ended.
Over == {"json", "finish", "[DONE]", "completed", "failed"}

GoesOn(es) == es \in Seq(Events) /\ \A i \in 1 .. Len(es) : es[i].kind \notin Over

LEMMA GoesOnNothing == GoesOn(<<>>)
<1>1. <<>> \in Seq(Events) /\ Len(<<>>) = 0
  OBVIOUS
<1> QED
  BY <1>1 DEF GoesOn

LEMMA GoesOnAppend ==
  ASSUME NEW es, GoesOn(es), NEW e \in Events, e.kind \notin Over
  PROVE  GoesOn(Append(es, e))
<1>1. es \in Seq(Events) /\ \A i \in 1 .. Len(es) : es[i].kind \notin Over
  BY DEF GoesOn
<1> DEFINE d == Append(es, e)
<1>2. /\ d \in Seq(Events) /\ Len(es) \in Nat /\ Len(d) = Len(es) + 1
      /\ \A i \in 1 .. Len(es) : d[i] = es[i]
      /\ d[Len(es) + 1] = e
  BY <1>1, AppendIs
<1> HIDE DEF d
<1>3. ASSUME NEW i \in 1 .. Len(d) PROVE d[i].kind \notin Over
  <2>1. i \in 1 .. Len(es) \/ i = Len(es) + 1
    BY <1>2
  <2> QED
    BY <1>1, <1>2, <2>1
<1> QED
  BY <1>2, <1>3 DEF GoesOn, d

LEMMA GoesOnLike ==
  ASSUME NEW es, GoesOn(es), NEW fs, Like(es, fs)
  PROVE  GoesOn(fs)
<1>1. /\ \A i \in 1 .. Len(es) : es[i].kind \notin Over
      /\ fs \in Seq(Events) /\ Len(fs) = Len(es)
      /\ \A i \in 1 .. Len(es) : fs[i].kind = es[i].kind
  BY DEF GoesOn, Like
<1>2. \A i \in 1 .. Len(fs) : fs[i].kind \notin Over
  BY <1>1
<1> QED
  BY <1>1, <1>2 DEF GoesOn

LEMMA GoesOnSent ==
  ASSUME NEW es, GoesOn(es), NEW e \in Events, e.kind \notin Over
  PROVE  GoesOn(Sent(es, e))
<1>1. es \in Seq(Events)
  BY DEF GoesOn
<1>2. Sent(es, e) = Append(es, e) \/ Like(es, Sent(es, e))
  BY <1>1, SentIs
<1> QED
  BY <1>2, GoesOnAppend, GoesOnLike

LEMMA NoSuchEvent ==
  ASSUME NEW es \in Seq(Events), NEW kind
  PROVE  Count(es, kind) = 0 <=> \A i \in 1 .. Len(es) : es[i].kind # kind
<1> DEFINE A == {i \in DOMAIN es : es[i].kind = kind}
<1>1. \A i : i \in A <=> i \in 1 .. Len(es) /\ es[i].kind = kind
  OBVIOUS
<1>2. Len(es) \in Nat /\ IsFiniteSet(1 .. Len(es))
  BY FS_Interval
<1> HIDE DEF A
<1>3. IsFiniteSet(A)
  <2>1. A \subseteq 1 .. Len(es)
    BY <1>1
  <2> QED
    BY <1>2, <2>1, FS_Subset
<1>4. Cardinality(A) = 0 <=> A = {}
  BY <1>3, FS_EmptySet
<1>5. Count(es, kind) = Cardinality(A)
  BY DEF Count, A
<1> QED
  BY <1>1, <1>4, <1>5

\* It may have been told that its answer is complete, before the last event.
Unclosed(es) == es \in Seq(Events) /\ \A i \in 1 .. Len(es) : es[i].kind \notin Closings

LEMMA GoesOnUnclosed ==
  ASSUME NEW es, GoesOn(es)
  PROVE  /\ es \in Seq(Events)
         /\ Unclosed(es)
         /\ Count(es, "finish") = 0 /\ Count(es, "completed") = 0
<1>1. es \in Seq(Events) /\ \A i \in 1 .. Len(es) : es[i].kind \notin Over
  BY DEF GoesOn
<1>2. \A i \in 1 .. Len(es) :
        es[i].kind \notin Closings /\ es[i].kind # "finish" /\ es[i].kind # "completed"
  BY <1>1 DEF Over, Closings
<1> QED
  BY <1>1, <1>2, NoSuchEvent DEF Unclosed

LEMMA UnclosedAppend ==
  ASSUME NEW es, Unclosed(es), NEW e \in Events, e.kind \notin Closings
  PROVE  Unclosed(Append(es, e))
<1>1. es \in Seq(Events) /\ \A i \in 1 .. Len(es) : es[i].kind \notin Closings
  BY DEF Unclosed
<1> DEFINE d == Append(es, e)
<1>2. /\ d \in Seq(Events) /\ Len(es) \in Nat /\ Len(d) = Len(es) + 1
      /\ \A i \in 1 .. Len(es) : d[i] = es[i]
      /\ d[Len(es) + 1] = e
  BY <1>1, AppendIs
<1> HIDE DEF d
<1>3. ASSUME NEW i \in 1 .. Len(d) PROVE d[i].kind \notin Closings
  <2>1. i \in 1 .. Len(es) \/ i = Len(es) + 1
    BY <1>2
  <2> QED
    BY <1>1, <1>2, <2>1
<1> QED
  BY <1>2, <1>3 DEF Unclosed, d

\* The event that does tell it is the last.
LEMMA EndsWith ==
  ASSUME NEW es, Unclosed(es), NEW e \in Events, e.kind \in Closings, e.kind = "json" => es = <<>>,
         NEW d, d = Append(es, e)
  PROVE  /\ \A i \in DOMAIN d : d[i].kind \in Closings => i = Len(d)
         /\ Last(d).kind \in Closings
         /\ Count(d, "json") > 0 => Len(d) = 1
<1>1. es \in Seq(Events) /\ \A i \in 1 .. Len(es) : es[i].kind \notin Closings
  BY DEF Unclosed
<1>2. /\ d \in Seq(Events) /\ Len(es) \in Nat /\ Len(d) = Len(es) + 1
      /\ DOMAIN d = 1 .. Len(es) + 1
      /\ \A i \in 1 .. Len(es) : d[i] = es[i]
      /\ d[Len(es) + 1] = e
  BY <1>1, AppendIs
<1>3. ASSUME NEW i \in DOMAIN d, d[i].kind \in Closings PROVE i = Len(d)
  <2>1. i \in 1 .. Len(es) \/ i = Len(es) + 1
    BY <1>2
  <2> QED
    BY <1>1, <1>2, <1>3, <2>1
<1>4. Last(d) = e
  BY <1>2 DEF Last
<1>5. Count(d, "json") > 0 => Len(d) = 1
  <2>1. CASE e.kind = "json"
    <3>1. Len(es) = 0
      BY <2>1
    <3> QED
      BY <1>2, <3>1
  <2>2. CASE e.kind # "json"
    <3>1. \A i \in 1 .. Len(es) : es[i].kind # "json"
      BY <1>1 DEF Closings
    <3>2. Count(es, "json") = 0
      BY <1>1, <3>1, NoSuchEvent
    <3>3. Count(d, "json") = 0
      BY <1>1, <2>2, <3>2, CountAppend
    <3> QED
      BY <3>3
  <2> QED
    BY <2>1, <2>2
<1> QED
  BY <1>3, <1>4, <1>5

-------------------------------------------------------------------------------
\* The items of a responses stream.

Free == {"created", "completed", "failed", "json", "output_item.added"}

\* The first k items are declared, each once.
Declared(es, k) ==
    /\ \A i \in 1 .. Len(es) : es[i].kind = "output_item.added" => es[i].index < k
    /\ \A i, j \in 1 .. Len(es) :
         /\ es[i].kind = "output_item.added" /\ es[j].kind = "output_item.added"
         /\ es[i].index = es[j].index
         => i = j
    /\ \A n \in 0 .. k - 1 : \E i \in 1 .. Len(es) :
         es[i].kind = "output_item.added" /\ es[i].index = n

\* What is said of an item is said after it is declared and before it is done.
InOrder(es) ==
    /\ \A i \in 1 .. Len(es) : es[i].kind \notin Free =>
         \E j \in 1 .. Len(es) :
           j < i /\ es[j].kind = "output_item.added" /\ es[j].index = es[i].index
    /\ \A i, j \in 1 .. Len(es) :
         es[i].kind \notin Free /\ es[j].kind = "output_item.done" /\ es[i].index = es[j].index
         => i <= j

\* Of these, the items O are not done.
Undone(es, k, O) ==
    /\ \A i \in 1 .. Len(es) : es[i].kind = "output_item.done" => es[i].index \notin O
    /\ \A n \in 0 .. k - 1 : n \notin O => \E i \in 1 .. Len(es) :
         es[i].kind = "output_item.done" /\ es[i].index = n

\* The message is item m, -1 if there is none.
Message(es, m) ==
    /\ \A i \in 1 .. Len(es) : es[i].kind = "content_part.added" => es[i].index = m
    /\ m # -1 => \E i \in 1 .. Len(es) : es[i].kind = "content_part.added"

Flow(es, k, m, O) ==
    /\ es \in Seq(Events)
    /\ k \in Nat /\ NextIndex(es) = k
    /\ O \subseteq 0 .. k - 1
    /\ m \in Nat \cup {-1}
    /\ Declared(es, k) /\ InOrder(es) /\ Undone(es, k, O) /\ Message(es, m)

LEMMA DeclaredAppend ==
  ASSUME NEW es \in Seq(Events), NEW k \in Nat, Declared(es, k), NEW e \in Events,
         NEW d, d = Append(es, e)
  PROVE  /\ e.kind = "output_item.added" /\ e.index = k => Declared(d, k + 1)
         /\ e.kind # "output_item.added" => Declared(d, k)
<1>1. /\ Len(es) \in Nat /\ Len(d) = Len(es) + 1
      /\ \A i \in 1 .. Len(es) : d[i] = es[i]
      /\ d[Len(es) + 1] = e
  BY AppendIs
<1>2. PICK L \in Nat : L = Len(es)
  BY <1>1
<1>3. /\ Len(d) = L + 1
      /\ \A i \in 1 .. L : d[i] = es[i] /\ i \in 1 .. L + 1
      /\ d[L + 1] = e /\ L + 1 \in 1 .. L + 1
      /\ \A i \in 1 .. L + 1 : i \in 1 .. L \/ i = L + 1
  BY <1>1, <1>2
<1>4. \A i \in 1 .. L : es[i].index \in Nat /\ es[i].kind \in Kinds
  BY <1>2, FieldsAre
<1>5. /\ \A i \in 1 .. L : es[i].kind = "output_item.added" => es[i].index < k
      /\ \A i, j \in 1 .. L :
           /\ es[i].kind = "output_item.added" /\ es[j].kind = "output_item.added"
           /\ es[i].index = es[j].index
           => i = j
      /\ \A n \in 0 .. k - 1 : \E i \in 1 .. L : es[i].kind = "output_item.added" /\ es[i].index = n
  BY <1>2 DEF Declared
<1>6. ASSUME e.kind = "output_item.added", e.index = k PROVE Declared(d, k + 1)
  <2>1. \A i \in 1 .. L + 1 : d[i].kind = "output_item.added" => d[i].index < k + 1
    BY <1>3, <1>4, <1>5, <1>6, SMTT(30)
  <2>2. ASSUME NEW i \in 1 .. L + 1, NEW j \in 1 .. L + 1,
               d[i].kind = "output_item.added", d[j].kind = "output_item.added",
               d[i].index = d[j].index
        PROVE  i = j
    <3>1. CASE i \in 1 .. L /\ j \in 1 .. L
      BY <1>3, <1>5, <2>2, <3>1
    <3>2. CASE i \in 1 .. L /\ j = L + 1
      BY <1>3, <1>4, <1>5, <1>6, <2>2, <3>2
    <3>3. CASE i = L + 1 /\ j \in 1 .. L
      BY <1>3, <1>4, <1>5, <1>6, <2>2, <3>3
    <3> QED
      BY <1>3, <3>1, <3>2, <3>3
  <2>3. ASSUME NEW n \in 0 .. k + 1 - 1
        PROVE  \E i \in 1 .. L + 1 : d[i].kind = "output_item.added" /\ d[i].index = n
    <3>1. n \in 0 .. k - 1 \/ n = k
      OBVIOUS
    <3>2. CASE n \in 0 .. k - 1
      BY <1>3, <1>5, <3>2
    <3>3. CASE n = k
      BY <1>3, <1>6, <3>3
    <3> QED
      BY <3>1, <3>2, <3>3
  <2> QED
    BY <1>3, <2>1, <2>2, <2>3 DEF Declared
<1>7. ASSUME e.kind # "output_item.added" PROVE Declared(d, k)
  <2>1. \A i \in 1 .. L + 1 : d[i].kind = "output_item.added" =>
          i \in 1 .. L /\ es[i].kind = "output_item.added" /\ d[i].index = es[i].index
    BY <1>3, <1>7
  <2>2. \A i \in 1 .. L + 1 : d[i].kind = "output_item.added" => d[i].index < k
    BY <1>5, <2>1
  <2>3. \A i, j \in 1 .. L + 1 :
           /\ d[i].kind = "output_item.added" /\ d[j].kind = "output_item.added"
           /\ d[i].index = d[j].index
           => i = j
    BY <1>5, <2>1, ZenonT(60)
  <2>4. \A n \in 0 .. k - 1 : \E i \in 1 .. L + 1 : d[i].kind = "output_item.added" /\ d[i].index = n
    BY <1>3, <1>5
  <2> QED
    BY <1>3, <2>2, <2>3, <2>4, ZenonT(60) DEF Declared
<1> QED
  BY <1>6, <1>7

LEMMA InOrderAppend ==
  ASSUME NEW es \in Seq(Events), NEW k \in Nat, NEW O \in SUBSET (0 .. k - 1),
         Declared(es, k), InOrder(es), Undone(es, k, O),
         NEW e \in Events, e.kind \in Free \/ e.index \in O, NEW d, d = Append(es, e)
  PROVE  InOrder(d)
<1>1. /\ Len(es) \in Nat /\ Len(d) = Len(es) + 1
      /\ \A i \in 1 .. Len(es) : d[i] = es[i]
      /\ d[Len(es) + 1] = e
  BY AppendIs
<1>2. PICK L \in Nat : L = Len(es)
  BY <1>1
<1>3. /\ Len(d) = L + 1
      /\ \A i \in 1 .. L : d[i] = es[i] /\ i \in 1 .. L + 1 /\ i < L + 1
      /\ d[L + 1] = e /\ L + 1 \in 1 .. L + 1
      /\ \A i \in 1 .. L + 1 : i \in 1 .. L \/ i = L + 1
  BY <1>1, <1>2
<1>4. /\ \A i \in 1 .. L : es[i].kind \notin Free =>
           \E j \in 1 .. L : j < i /\ es[j].kind = "output_item.added" /\ es[j].index = es[i].index
      /\ \A i, j \in 1 .. L :
           es[i].kind \notin Free /\ es[j].kind = "output_item.done" /\ es[i].index = es[j].index
           => i <= j
  BY <1>2 DEF InOrder
<1>5. ASSUME NEW i \in 1 .. L + 1, d[i].kind \notin Free
      PROVE  \E j \in 1 .. L + 1 :
               j < i /\ d[j].kind = "output_item.added" /\ d[j].index = d[i].index
  <2>1. CASE i \in 1 .. L
    <3>1. PICK j \in 1 .. L : j < i /\ es[j].kind = "output_item.added" /\ es[j].index = es[i].index
      BY <1>3, <1>4, <1>5, <2>1
    <3> QED
      BY <1>3, <2>1, <3>1
  <2>2. CASE i = L + 1
    <3>1. e.index \in 0 .. k - 1
      BY <1>3, <1>5, <2>2
    <3>2. PICK j \in 1 .. L : es[j].kind = "output_item.added" /\ es[j].index = e.index
      BY <1>2, <3>1 DEF Declared
    <3> QED
      BY <1>3, <2>2, <3>2
  <2> QED
    BY <1>3, <2>1, <2>2
<1>6. ASSUME NEW i \in 1 .. L + 1, NEW j \in 1 .. L + 1, d[i].kind \notin Free,
             d[j].kind = "output_item.done", d[i].index = d[j].index
      PROVE  i <= j
  <2>1. CASE i \in 1 .. L /\ j \in 1 .. L
    BY <1>3, <1>4, <1>6, <2>1
  <2>2. CASE j = L + 1
    BY <2>2
  <2>3. CASE i = L + 1 /\ j \in 1 .. L
    <3>1. e.index \in O /\ es[j].kind = "output_item.done" /\ es[j].index = e.index
      BY <1>3, <1>6, <2>3
    <3> QED
      BY <1>2, <2>3, <3>1 DEF Undone
  <2> QED
    BY <1>3, <2>1, <2>2, <2>3
<1> QED
  BY <1>3, <1>5, <1>6 DEF InOrder

LEMMA UndoneAppend ==
  ASSUME NEW es \in Seq(Events), NEW k \in Nat, NEW O \in SUBSET (0 .. k - 1),
         Declared(es, k), InOrder(es), Undone(es, k, O), NEW e \in Events, NEW d, d = Append(es, e)
  PROVE  /\ e.kind = "output_item.added" => Undone(d, k + 1, O \cup {k})
         /\ e.kind = "output_item.done" => Undone(d, k, O \ {e.index})
         /\ e.kind # "output_item.done" => Undone(d, k, O)
<1>1. /\ Len(es) \in Nat /\ Len(d) = Len(es) + 1
      /\ \A i \in 1 .. Len(es) : d[i] = es[i]
      /\ d[Len(es) + 1] = e
  BY AppendIs
<1>2. PICK L \in Nat : L = Len(es)
  BY <1>1
<1>3. /\ Len(d) = L + 1
      /\ \A i \in 1 .. L : d[i] = es[i] /\ i \in 1 .. L + 1
      /\ d[L + 1] = e /\ L + 1 \in 1 .. L + 1
      /\ \A i \in 1 .. L + 1 : i \in 1 .. L \/ i = L + 1
  BY <1>1, <1>2
<1>4. /\ \A i \in 1 .. L : es[i].kind = "output_item.done" => es[i].index \notin O
      /\ \A n \in 0 .. k - 1 : n \notin O => \E i \in 1 .. L :
           es[i].kind = "output_item.done" /\ es[i].index = n
  BY <1>2 DEF Undone
<1>5. \A i \in 1 .. L : es[i].kind = "output_item.done" => es[i].index < k
  <2>1. ASSUME NEW i \in 1 .. L, es[i].kind = "output_item.done" PROVE es[i].index < k
    <3>1. es[i].kind \notin Free
      BY <2>1 DEF Free
    <3>2. PICK j \in 1 .. L : es[j].kind = "output_item.added" /\ es[j].index = es[i].index
      BY <1>2, <3>1 DEF InOrder
    <3>3. es[j].index < k
      BY <1>2, <3>2 DEF Declared
    <3> QED
      BY <3>2, <3>3
  <2> QED
    BY <2>1
<1>6. ASSUME e.kind # "output_item.done" PROVE Undone(d, k, O)
  <2>1. \A i \in 1 .. L + 1 : d[i].kind = "output_item.done" => d[i].index \notin O
    BY <1>3, <1>4, <1>6
  <2>2. \A n \in 0 .. k - 1 : n \notin O => \E i \in 1 .. L + 1 :
           d[i].kind = "output_item.done" /\ d[i].index = n
    BY <1>3, <1>4
  <2> QED
    BY <1>3, <2>1, <2>2 DEF Undone
<1>7. ASSUME e.kind = "output_item.added" PROVE Undone(d, k + 1, O \cup {k})
  <2>1. ASSUME NEW i \in 1 .. L + 1, d[i].kind = "output_item.done" PROVE d[i].index \notin O \cup {k}
    <3>1. i \in 1 .. L /\ d[i] = es[i]
      BY <1>3, <1>7, <2>1
    <3>2. es[i].index \notin O /\ es[i].index < k
      BY <1>4, <1>5, <2>1, <3>1
    <3> QED
      BY <3>1, <3>2
  <2>2. ASSUME NEW n \in 0 .. k + 1 - 1, n \notin O \cup {k}
        PROVE  \E i \in 1 .. L + 1 : d[i].kind = "output_item.done" /\ d[i].index = n
    <3>1. n \in 0 .. k - 1
      BY <2>2
    <3> QED
      BY <1>3, <1>4, <2>2, <3>1
  <2> QED
    BY <1>3, <2>1, <2>2 DEF Undone
<1>8. ASSUME e.kind = "output_item.done" PROVE Undone(d, k, O \ {e.index})
  <2>1. ASSUME NEW i \in 1 .. L + 1, d[i].kind = "output_item.done"
        PROVE  d[i].index \notin O \ {e.index}
    BY <1>3, <1>4, <2>1
  <2>2. ASSUME NEW n \in 0 .. k - 1, n \notin O \ {e.index}
        PROVE  \E i \in 1 .. L + 1 : d[i].kind = "output_item.done" /\ d[i].index = n
    <3>1. CASE n = e.index
      BY <1>3, <1>8, <3>1
    <3>2. CASE n \notin O
      BY <1>3, <1>4, <3>2
    <3> QED
      BY <2>2, <3>1, <3>2
  <2> QED
    BY <1>3, <2>1, <2>2 DEF Undone
<1> QED
  BY <1>6, <1>7, <1>8

LEMMA MessageAppend ==
  ASSUME NEW es \in Seq(Events), NEW m \in Nat \cup {-1}, Message(es, m), NEW e \in Events,
         NEW d, d = Append(es, e)
  PROVE  /\ e.kind = "content_part.added" /\ m = -1 => Message(d, e.index)
         /\ e.kind # "content_part.added" => Message(d, m)
<1>1. /\ Len(es) \in Nat /\ Len(d) = Len(es) + 1
      /\ \A i \in 1 .. Len(es) : d[i] = es[i]
      /\ d[Len(es) + 1] = e
  BY AppendIs
<1>2. PICK L \in Nat : L = Len(es)
  BY <1>1
<1>3. /\ Len(d) = L + 1
      /\ \A i \in 1 .. L : d[i] = es[i] /\ i \in 1 .. L + 1
      /\ d[L + 1] = e /\ L + 1 \in 1 .. L + 1
      /\ \A i \in 1 .. L + 1 : i \in 1 .. L \/ i = L + 1
  BY <1>1, <1>2
<1>4. \A i \in 1 .. L : es[i].index \in Nat
  BY <1>2, FieldsAre
<1>5. /\ \A i \in 1 .. L : es[i].kind = "content_part.added" => es[i].index = m
      /\ m # -1 => \E i \in 1 .. L : es[i].kind = "content_part.added"
  BY <1>2 DEF Message
<1>6. ASSUME e.kind = "content_part.added", m = -1 PROVE Message(d, e.index)
  <2>1. \A i \in 1 .. L : es[i].kind # "content_part.added"
    BY <1>4, <1>5, <1>6
  <2>2. \A i \in 1 .. L + 1 : d[i].kind = "content_part.added" => d[i].index = e.index
    BY <1>3, <2>1
  <2>3. \E i \in 1 .. L + 1 : d[i].kind = "content_part.added"
    BY <1>3, <1>6
  <2> QED
    BY <1>3, <2>2, <2>3 DEF Message
<1>7. ASSUME e.kind # "content_part.added" PROVE Message(d, m)
  <2>1. \A i \in 1 .. L + 1 : d[i].kind = "content_part.added" => d[i].index = m
    BY <1>3, <1>5, <1>7
  <2>2. m # -1 => \E i \in 1 .. L + 1 : d[i].kind = "content_part.added"
    BY <1>3, <1>5
  <2> QED
    BY <1>3, <2>1, <2>2 DEF Message
<1> QED
  BY <1>6, <1>7


LEMMA NextIndexIs ==
  ASSUME NEW es \in Seq(Events), NEW e \in Events
  PROVE  /\ NextIndex(es) \in Nat
         /\ NextIndex(Append(es, e)) = IF e.kind = "output_item.added" THEN NextIndex(es) + 1
                                       ELSE NextIndex(es)
BY CountAppend DEF NextIndex

LEMMA NextIndexType ==
  ASSUME NEW es \in Seq(Events)
  PROVE  NextIndex(es) \in Nat
<1> DEFINE A == {i \in DOMAIN es : es[i].kind = "output_item.added"}
<1>1. IsFiniteSet(1 .. Len(es)) /\ A \subseteq 1 .. Len(es)
  BY FS_Interval
<1>2. IsFiniteSet(A)
  BY <1>1, FS_Subset
<1>3. Cardinality(A) \in Nat
  BY <1>2, FS_CardinalityType
<1> QED
  BY <1>3 DEF NextIndex, Count

\* An item is declared.
LEMMA FlowAdds ==
  ASSUME NEW es, NEW k, NEW m, NEW O, Flow(es, k, m, O),
         NEW e \in Events, e.kind = "output_item.added", e.index = k
  PROVE  Flow(Append(es, e), k + 1, m, O \cup {k})
<1>1. /\ es \in Seq(Events) /\ k \in Nat /\ NextIndex(es) = k /\ O \in SUBSET (0 .. k - 1)
      /\ m \in Nat \cup {-1}
      /\ Declared(es, k) /\ InOrder(es) /\ Undone(es, k, O) /\ Message(es, m)
  BY DEF Flow
<1>2. PICK d : d = Append(es, e)
  OBVIOUS
<1>3. d \in Seq(Events) /\ NextIndex(d) = k + 1
  BY <1>1, <1>2, AppendIs, NextIndexIs
<1>4. Declared(d, k + 1)
  BY <1>1, <1>2, DeclaredAppend
<1>5. e.kind \in Free
  BY DEF Free
<1>6. InOrder(d)
  BY <1>1, <1>2, <1>5, InOrderAppend
<1>7. Undone(d, k + 1, O \cup {k})
  BY <1>1, <1>2, UndoneAppend
<1>8. Message(d, m)
  BY <1>1, <1>2, MessageAppend
<1>9. O \cup {k} \subseteq 0 .. (k + 1) - 1 /\ k + 1 \in Nat
  BY <1>1
<1>10. Flow(d, k + 1, m, O \cup {k})
  BY <1>1, <1>3, <1>4, <1>6, <1>7, <1>8, <1>9 DEF Flow
<1> QED
  BY <1>2, <1>10

\* Something is said of an item that is not done.
LEMMA FlowSays ==
  ASSUME NEW es, NEW k, NEW m, NEW O, Flow(es, k, m, O),
         NEW e \in Events, e.kind # "output_item.added",
         e.kind \in Free \/ e.index \in O
  PROVE  /\ e.kind = "output_item.done" => Flow(Append(es, e), k, m, O \ {e.index})
         /\ e.kind = "content_part.added" /\ m = -1 => Flow(Append(es, e), k, e.index, O)
         /\ e.kind \notin {"output_item.done", "content_part.added"} => Flow(Append(es, e), k, m, O)
<1>1. /\ es \in Seq(Events) /\ k \in Nat /\ NextIndex(es) = k /\ O \in SUBSET (0 .. k - 1)
      /\ m \in Nat \cup {-1}
      /\ Declared(es, k) /\ InOrder(es) /\ Undone(es, k, O) /\ Message(es, m)
  BY DEF Flow
<1>2. PICK d : d = Append(es, e)
  OBVIOUS
<1>3. d \in Seq(Events) /\ NextIndex(d) = k
  BY <1>1, <1>2, AppendIs, NextIndexIs
<1>4. Declared(d, k)
  BY <1>1, <1>2, DeclaredAppend
<1>5. InOrder(d)
  BY <1>1, <1>2, InOrderAppend
<1>6. /\ e.kind = "output_item.done" => Undone(d, k, O \ {e.index})
      /\ e.kind # "output_item.done" => Undone(d, k, O)
  BY <1>1, <1>2, UndoneAppend
<1>7. /\ e.kind = "content_part.added" /\ m = -1 => Message(d, e.index)
      /\ e.kind # "content_part.added" => Message(d, m)
  BY <1>1, <1>2, MessageAppend
<1>8. O \ {e.index} \subseteq 0 .. k - 1 /\ O \subseteq 0 .. k - 1
  BY <1>1
<1>9. e.index \in Nat \cup {-1}
  BY FieldsAre
<1>10. e.kind = "output_item.done" => Flow(d, k, m, O \ {e.index})
  BY <1>1, <1>3, <1>4, <1>5, <1>6, <1>7, <1>8 DEF Flow
<1>11. e.kind = "content_part.added" /\ m = -1 => Flow(d, k, e.index, O)
  BY <1>1, <1>3, <1>4, <1>5, <1>6, <1>7, <1>8, <1>9 DEF Flow
<1>12. e.kind \notin {"output_item.done", "content_part.added"} => Flow(d, k, m, O)
  BY <1>1, <1>3, <1>4, <1>5, <1>6, <1>7, <1>8 DEF Flow
<1> QED
  BY <1>2, <1>10, <1>11, <1>12

\* A text is joined.
LEMMA FlowLike ==
  ASSUME NEW es, NEW k, NEW m, NEW O, Flow(es, k, m, O), NEW fs, Like(es, fs)
  PROVE  Flow(fs, k, m, O)
<1>1. /\ es \in Seq(Events) /\ k \in Nat /\ NextIndex(es) = k /\ O \subseteq 0 .. k - 1
      /\ m \in Nat \cup {-1}
      /\ Declared(es, k) /\ InOrder(es) /\ Undone(es, k, O) /\ Message(es, m)
  BY DEF Flow
<1>2. PICK L : L = Len(es)
  OBVIOUS
<1>3. /\ fs \in Seq(Events) /\ Len(fs) = L
      /\ \A i \in 1 .. L : fs[i].kind = es[i].kind /\ fs[i].index = es[i].index
  BY <1>2 DEF Like
<1>4. NextIndex(fs) = k
  <2>1. DOMAIN es = 1 .. L /\ DOMAIN fs = 1 .. L
    BY <1>1, <1>2, <1>3
  <2>2. {i \in DOMAIN fs : fs[i].kind = "output_item.added"}
          = {i \in DOMAIN es : es[i].kind = "output_item.added"}
    BY <1>3, <2>1
  <2> QED
    BY <1>1, <2>2 DEF NextIndex, Count
<1>5. Declared(fs, k)
  <2>1. /\ \A i \in 1 .. L : es[i].kind = "output_item.added" => es[i].index < k
        /\ \A i, j \in 1 .. L :
             /\ es[i].kind = "output_item.added" /\ es[j].kind = "output_item.added"
             /\ es[i].index = es[j].index
             => i = j
        /\ \A n \in 0 .. k - 1 : \E i \in 1 .. L :
             es[i].kind = "output_item.added" /\ es[i].index = n
    BY <1>1, <1>2 DEF Declared
  <2> QED
    BY <1>3, <2>1 DEF Declared
<1>6. InOrder(fs)
  <2>1. /\ \A i \in 1 .. L : es[i].kind \notin Free =>
             \E j \in 1 .. L : j < i /\ es[j].kind = "output_item.added" /\ es[j].index = es[i].index
        /\ \A i, j \in 1 .. L :
             es[i].kind \notin Free /\ es[j].kind = "output_item.done" /\ es[i].index = es[j].index
             => i <= j
    BY <1>1, <1>2 DEF InOrder
  <2> QED
    BY <1>3, <2>1 DEF InOrder
<1>7. Undone(fs, k, O)
  <2>1. /\ \A i \in 1 .. L : es[i].kind = "output_item.done" => es[i].index \notin O
        /\ \A n \in 0 .. k - 1 : n \notin O => \E i \in 1 .. L :
             es[i].kind = "output_item.done" /\ es[i].index = n
    BY <1>1, <1>2 DEF Undone
  <2> QED
    BY <1>3, <2>1 DEF Undone
<1>8. Message(fs, m)
  <2>1. /\ \A i \in 1 .. L : es[i].kind = "content_part.added" => es[i].index = m
        /\ m # -1 => \E i \in 1 .. L : es[i].kind = "content_part.added"
    BY <1>1, <1>2 DEF Message
  <2> QED
    BY <1>3, <2>1 DEF Message
<1> QED
  BY <1>1, <1>3, <1>4, <1>5, <1>6, <1>7, <1>8 DEF Flow

LEMMA FlowMessage ==
  ASSUME NEW es, NEW k, NEW m, NEW O, Flow(es, k, m, O)
  PROVE  MessageIndex(es) = m
<1>1. es \in Seq(Events) /\ m \in Nat \cup {-1} /\ Message(es, m)
  BY DEF Flow
<1> DEFINE I == Indexes(es, "content_part.added")
<1>2. \A n : n \in I <=> \E i \in 1 .. Len(es) : es[i].kind = "content_part.added" /\ es[i].index = n
  BY <1>1 DEF Indexes
<1>3. MessageIndex(es) = IF I = {} THEN -1 ELSE Min(I)
  BY DEF MessageIndex
<1> HIDE DEF I
<1>4. \A i \in 1 .. Len(es) : es[i].index \in Nat
  BY <1>1, FieldsAre
<1>5. /\ \A i \in 1 .. Len(es) : es[i].kind = "content_part.added" => es[i].index = m
      /\ m # -1 => \E i \in 1 .. Len(es) : es[i].kind = "content_part.added"
  BY <1>1 DEF Message
<1>6. CASE m = -1
  <2>1. I = {}
    BY <1>2, <1>4, <1>5, <1>6
  <2> QED
    BY <1>3, <1>6, <2>1
<1>7. CASE m # -1
  <2>1. \A n : n \in I <=> n = m
    BY <1>2, <1>5, <1>7
  <2>2. m \in I /\ \A n \in I : m <= n
    BY <1>1, <1>7, <2>1
  <2>3. Min(I) \in I
    BY <2>2 DEF Min
  <2> QED
    BY <1>3, <2>1, <2>3
<1> QED
  BY <1>6, <1>7


At(es, kind, n) == {i \in DOMAIN es : es[i].kind = kind /\ es[i].index = n}

LEMMA OnlyOne ==
  ASSUME NEW S, NEW x, x \in S, \A y \in S : y = x
  PROVE  Cardinality(S) = 1
<1>1. S = {x}
  OBVIOUS
<1> QED
  BY <1>1, FS_Singleton

LEMMA FlowOrderly ==
  ASSUME NEW es, NEW k, NEW m, NEW O, Flow(es, k, m, O)
  PROVE  /\ \A i \in DOMAIN es : es[i].kind \notin Free =>
              /\ \E j \in At(es, "output_item.added", es[i].index) : j < i
              /\ \A j \in At(es, "output_item.done", es[i].index) : i <= j
         /\ \A n \in 0 .. NextIndex(es) - 1 : Cardinality(At(es, "output_item.added", n)) = 1
         /\ O = {} => \A n \in 0 .. NextIndex(es) - 1 :
                        Cardinality(At(es, "output_item.done", n)) = 1
<1>1. /\ es \in Seq(Events) /\ k \in Nat /\ NextIndex(es) = k
      /\ Declared(es, k) /\ InOrder(es) /\ Undone(es, k, O)
  BY DEF Flow
<1>2. PICK L \in Nat : L = Len(es) /\ DOMAIN es = 1 .. L
  BY <1>1
<1>3. \A kind, n, i : i \in At(es, kind, n) <=> i \in 1 .. L /\ es[i].kind = kind /\ es[i].index = n
  BY <1>2 DEF At
<1>4. /\ \A i \in 1 .. L : es[i].kind \notin Free =>
           \E j \in 1 .. L : j < i /\ es[j].kind = "output_item.added" /\ es[j].index = es[i].index
      /\ \A i, j \in 1 .. L :
           es[i].kind \notin Free /\ es[j].kind = "output_item.done" /\ es[i].index = es[j].index
           => i <= j
  BY <1>1, <1>2 DEF InOrder
<1>5. ASSUME NEW i \in DOMAIN es, es[i].kind \notin Free
      PROVE  /\ \E j \in At(es, "output_item.added", es[i].index) : j < i
             /\ \A j \in At(es, "output_item.done", es[i].index) : i <= j
  BY <1>2, <1>3, <1>4, <1>5
<1>6. ASSUME NEW n \in 0 .. k - 1 PROVE Cardinality(At(es, "output_item.added", n)) = 1
  <2>1. PICK i \in 1 .. L : es[i].kind = "output_item.added" /\ es[i].index = n
    BY <1>1, <1>2 DEF Declared
  <2>2. \A j \in 1 .. L : es[j].kind = "output_item.added" /\ es[j].index = n => j = i
    BY <1>1, <1>2, <2>1 DEF Declared
  <2>3. i \in At(es, "output_item.added", n) /\ \A j \in At(es, "output_item.added", n) : j = i
    BY <1>3, <2>1, <2>2
  <2> QED
    BY <2>3, OnlyOne
<1>7. ASSUME O = {}, NEW n \in 0 .. k - 1 PROVE Cardinality(At(es, "output_item.done", n)) = 1
  <2>1. PICK i \in 1 .. L : es[i].kind = "output_item.done" /\ es[i].index = n
    BY <1>1, <1>2, <1>7 DEF Undone
  <2>2. "output_item.done" \notin Free
    BY DEF Free
  <2>3. ASSUME NEW j \in 1 .. L, es[j].kind = "output_item.done", es[j].index = n PROVE j = i
    <3>1. i <= j /\ j <= i
      BY <1>4, <2>1, <2>2, <2>3
    <3> QED
      BY <3>1
  <2>4. i \in At(es, "output_item.done", n) /\ \A j \in At(es, "output_item.done", n) : j = i
    BY <1>3, <2>1, <2>3
  <2> QED
    BY <2>4, OnlyOne
<1> QED
  BY <1>1, <1>5, <1>6, <1>7

\* While the answer is read the message, if there is one, is the only item that
\* is not done; the text so far is t.
Running(es, m, t) ==
    /\ \E k : Flow(es, k, m, {m} \ {-1})
    /\ GoesOn(es)
    /\ TextOf(es) = t

LEMMA RunningFlow ==
  ASSUME NEW es, NEW m, NEW t, Running(es, m, t)
  PROVE  /\ es \in Seq(Events)
         /\ m \in Nat \cup {-1}
         /\ NextIndex(es) \in Nat
         /\ MessageIndex(es) = m
         /\ Flow(es, NextIndex(es), m, {m} \ {-1})
         /\ GoesOn(es)
         /\ TextOf(es) = t
         /\ t \in Seq(Char)
<1>1. PICK k : Flow(es, k, m, {m} \ {-1})
  BY DEF Running
<1>2. MessageIndex(es) = m
  BY <1>1, FlowMessage
<1>3. es \in Seq(Events) /\ NextIndex(es) = k /\ k \in Nat /\ m \in Nat \cup {-1}
  BY <1>1 DEF Flow
<1>4. TextOf(es) \in Seq(Char)
  BY <1>3, TextType
<1> QED
  BY <1>1, <1>2, <1>3, <1>4 DEF Running

\* One more event that is no text.
LEMMA QuietAppend ==
  ASSUME NEW es \in Seq(Events), NEW e \in Events, ~IsText(e), e.kind \notin Over, GoesOn(es)
  PROVE  /\ Append(es, e) \in Seq(Events)
         /\ GoesOn(Append(es, e))
         /\ TextOf(Append(es, e)) = TextOf(es)
BY AppendIs, GoesOnAppend, TextAppend

LEMMA EnsureIs ==
  ASSUME NEW es, NEW m, NEW t, Running(es, m, t)
  PROVE  \E n \in Nat : Running(EnsureMessage(es), n, t) /\ MessageIndex(EnsureMessage(es)) = n
<1>1. /\ es \in Seq(Events) /\ m \in Nat \cup {-1} /\ NextIndex(es) \in Nat /\ MessageIndex(es) = m
      /\ Flow(es, NextIndex(es), m, {m} \ {-1})
      /\ GoesOn(es) /\ TextOf(es) = t
  BY RunningFlow
<1>2. CASE m # -1
  BY <1>1, <1>2 DEF EnsureMessage
<1>3. CASE m = -1
  <2>1. PICK k \in Nat : k = NextIndex(es)
    BY <1>1
  <2> DEFINE a == Event("output_item.added", k, <<>>)
             b == Event("content_part.added", k, <<>>)
             d == Append(es, a)
             f == Append(d, b)
  <2>2. /\ a \in Events /\ a.kind = "output_item.added" /\ a.index = k
        /\ b \in Events /\ b.kind = "content_part.added" /\ b.index = k
    <3>1. "output_item.added" \in Kinds /\ "content_part.added" \in Kinds /\ <<>> \in Seq(Char)
      BY DEF Kinds
    <3>2. a \in Events /\ a.kind = "output_item.added" /\ a.index = k
      BY ONLY <3>1, k \in Nat, MarkIs
    <3>3. b \in Events /\ b.kind = "content_part.added" /\ b.index = k
      BY ONLY <3>1, k \in Nat, MarkIs
    <3> QED
      BY <3>2, <3>3
  <2> HIDE DEF a, b
  <2>3. ~IsText(a) /\ a.kind \notin Over /\ ~IsText(b) /\ b.kind \notin Over
    BY <2>2 DEF IsText, Over
  <2>4. es \o <<a, b>> = f
    BY <1>1, <2>2, AppendTwo
  <2>5. EnsureMessage(es) = f
    BY <1>1, <1>3, <2>1, <2>4 DEF EnsureMessage, a, b
  <2>6. d \in Seq(Events) /\ GoesOn(d) /\ TextOf(d) = t
    BY <1>1, <2>2, <2>3, QuietAppend
  <2>7. {m} \ {-1} = {} /\ {} \cup {k} = {k} /\ {k} \ {-1} = {k}
    BY <1>3, <2>1
  <2>8. Flow(d, k + 1, -1, {k})
    <3>1. Flow(es, k, -1, {})
      BY <1>1, <1>3, <2>1, <2>7
    <3>2. Flow(Append(es, a), k + 1, -1, {} \cup {k})
      BY <2>2, <3>1, FlowAdds
    <3> QED
      BY <2>7, <3>2
  <2> HIDE DEF d
  <2>9. f \in Seq(Events) /\ GoesOn(f) /\ TextOf(f) = t
    BY <2>2, <2>3, <2>6, QuietAppend
  <2>10. Flow(f, k + 1, k, {k})
    <3>1. b.kind # "output_item.added" /\ b.index \in {k}
      BY <2>2
    <3>2. Flow(Append(d, b), k + 1, b.index, {k})
      BY <2>2, <2>8, <3>1, FlowSays
    <3> QED
      BY <2>2, <3>2
  <2> HIDE DEF f
  <2>11. Running(f, k, t)
    BY <2>7, <2>9, <2>10 DEF Running
  <2>12. MessageIndex(f) = k
    BY <2>10, FlowMessage
  <2> QED
    BY <2>5, <2>11, <2>12
<1> QED
  BY <1>1, <1>2, <1>3

LEMMA SendIs ==
  ASSUME NEW es, NEW m, NEW t, Running(es, m, t), NEW text \in Seq(Char)
  PROVE  /\ text = <<>> => SendContent("responses", es, text) = es
         /\ text # <<>> => \E n \in Nat : Running(SendContent("responses", es, text), n, t \o text)
<1>1. text = <<>> => SendContent("responses", es, text) = es
  BY DEF SendContent
<1>2. ASSUME text # <<>>
      PROVE  \E n \in Nat : Running(SendContent("responses", es, text), n, t \o text)
  <2> DEFINE d == EnsureMessage(es)
  <2>1. PICK n \in Nat : Running(d, n, t) /\ MessageIndex(d) = n
    BY EnsureIs
  <2> DEFINE e == Event("output_text.delta", n, text)
             f == Sent(d, e)
  <2>2. SendContent("responses", es, text) = f
    BY <1>2, <2>1 DEF SendContent
  <2> HIDE DEF d
  <2>3. e \in Events /\ e.kind = "output_text.delta" /\ e.index = n /\ e.text = text
    <3>1. "output_text.delta" \in Kinds
      BY DEF Kinds
    <3> QED
      BY ONLY <3>1, n \in Nat, text \in Seq(Char), EventIs
  <2> HIDE DEF e
  <2>4. /\ d \in Seq(Events) /\ NextIndex(d) \in Nat
        /\ Flow(d, NextIndex(d), n, {n} \ {-1})
        /\ GoesOn(d) /\ TextOf(d) = t
    BY <2>1, RunningFlow
  <2>5. IsText(e) /\ e.kind \notin Over
    BY <2>3 DEF IsText, Over
  <2>6. /\ f = Append(d, e) \/ Like(d, f)
        /\ TextOf(f) = t \o text
    BY <2>3, <2>4, <2>5, SentIs
  <2>7. GoesOn(f)
    BY <2>3, <2>4, <2>5, GoesOnSent
  <2> HIDE DEF f
  <2>8. Flow(f, NextIndex(d), n, {n} \ {-1})
    <3>1. CASE f = Append(d, e)
      <4>1. e.kind # "output_item.added" /\ e.index \in {n} \ {-1}
            /\ e.kind \notin {"output_item.done", "content_part.added"}
        BY <2>3
      <4> QED
        BY <2>3, <2>4, <3>1, <4>1, FlowSays
    <3>2. CASE Like(d, f)
      BY <2>4, <3>2, FlowLike
    <3> QED
      BY <2>6, <3>1, <3>2
  <2>9. Running(f, n, t \o text)
    BY <2>6, <2>7, <2>8 DEF Running
  <2> QED
    BY <2>2, <2>9
<1> QED
  BY <1>1, <1>2

LEMMA CallIs ==
  ASSUME NEW es, NEW m, NEW t, Running(es, m, t)
  PROVE  Running(CallEvents(es), m, t)
<1>1. /\ es \in Seq(Events) /\ m \in Nat \cup {-1} /\ NextIndex(es) \in Nat
      /\ Flow(es, NextIndex(es), m, {m} \ {-1})
      /\ GoesOn(es) /\ TextOf(es) = t
  BY RunningFlow
<1>2. PICK k \in Nat : k = NextIndex(es)
  BY <1>1
<1>3. PICK O : O = {m} \ {-1}
  OBVIOUS
<1>4. Flow(es, k, m, O) /\ O \subseteq 0 .. k - 1
  BY <1>1, <1>2, <1>3 DEF Flow
<1> DEFINE a == Event("output_item.added", k, <<>>)
           b == Event("arguments.done", k, <<>>)
           c == Event("output_item.done", k, <<>>)
           d == Append(es, a)
           f == Append(d, b)
           g == Append(f, c)
<1>5. /\ a \in Events /\ a.kind = "output_item.added" /\ a.index = k
      /\ b \in Events /\ b.kind = "arguments.done" /\ b.index = k
      /\ c \in Events /\ c.kind = "output_item.done" /\ c.index = k
  <2>1. /\ "output_item.added" \in Kinds /\ "arguments.done" \in Kinds
        /\ "output_item.done" \in Kinds /\ <<>> \in Seq(Char)
    BY DEF Kinds
  <2>2. a \in Events /\ a.kind = "output_item.added" /\ a.index = k
    BY ONLY <2>1, k \in Nat, MarkIs
  <2>3. b \in Events /\ b.kind = "arguments.done" /\ b.index = k
    BY ONLY <2>1, k \in Nat, MarkIs
  <2>4. c \in Events /\ c.kind = "output_item.done" /\ c.index = k
    BY ONLY <2>1, k \in Nat, MarkIs
  <2> QED
    BY <2>2, <2>3, <2>4
<1>6. CallEvents(es) = es \o <<a, b, c>>
  BY <1>2 DEF CallEvents
<1> HIDE DEF a, b, c
<1>7. /\ ~IsText(a) /\ a.kind \notin Over
      /\ ~IsText(b) /\ b.kind \notin Over
      /\ ~IsText(c) /\ c.kind \notin Over
  BY <1>5 DEF IsText, Over
<1>8. CallEvents(es) = g
  BY <1>1, <1>5, <1>6, AppendThree
<1>9. d \in Seq(Events) /\ GoesOn(d) /\ TextOf(d) = t
  BY <1>1, <1>5, <1>7, QuietAppend
<1>10. Flow(d, k + 1, m, O \cup {k})
  BY <1>4, <1>5, FlowAdds
<1> HIDE DEF d
<1>11. f \in Seq(Events) /\ GoesOn(f) /\ TextOf(f) = t
  BY <1>5, <1>7, <1>9, QuietAppend
<1>12. Flow(f, k + 1, m, O \cup {k})
  <2>1. b.kind # "output_item.added" /\ b.index \in O \cup {k}
        /\ b.kind \notin {"output_item.done", "content_part.added"}
    BY <1>5
  <2> QED
    BY <1>5, <1>10, <2>1, FlowSays
<1> HIDE DEF f
<1>13. g \in Seq(Events) /\ GoesOn(g) /\ TextOf(g) = t
  BY <1>5, <1>7, <1>11, QuietAppend
<1>14. Flow(g, k + 1, m, (O \cup {k}) \ {c.index})
  <2>1. c.kind # "output_item.added" /\ c.index \in O \cup {k}
    BY <1>5
  <2> QED
    BY <1>5, <1>12, <2>1, FlowSays
<1>15. (O \cup {k}) \ {c.index} = O
  BY <1>4, <1>5
<1>16. Flow(g, k + 1, m, {m} \ {-1})
  BY <1>3, <1>14, <1>15
<1> QED
  BY <1>8, <1>13, <1>16 DEF Running


LEMMA CallType ==
  ASSUME NEW es \in Seq(Events)
  PROVE  CallEvents(es) \in Seq(Events)
<1>1. PICK k \in Nat : k = NextIndex(es)
  BY NextIndexType
<1> DEFINE a == Event("output_item.added", k, <<>>)
           b == Event("arguments.done", k, <<>>)
           c == Event("output_item.done", k, <<>>)
<1>2. CallEvents(es) = es \o <<a, b, c>>
  BY <1>1 DEF CallEvents
<1>3. a \in Events /\ b \in Events /\ c \in Events
  <2>1. /\ "output_item.added" \in Kinds /\ "arguments.done" \in Kinds
        /\ "output_item.done" \in Kinds
    BY DEF Kinds
  <2>2. a \in Events
    BY ONLY <2>1, k \in Nat, MarkIs
  <2>3. b \in Events
    BY ONLY <2>1, k \in Nat, MarkIs
  <2>4. c \in Events
    BY ONLY <2>1, k \in Nat, MarkIs
  <2> QED
    BY <2>2, <2>3, <2>4
<1> HIDE DEF a, b, c
<1>4. es \o <<a, b, c>> = Append(Append(Append(es, a), b), c)
  BY <1>3, AppendThree
<1>5. Append(es, a) \in Seq(Events)
  BY <1>3, AppendIs
<1>6. Append(Append(es, a), b) \in Seq(Events)
  BY <1>3, <1>5, AppendIs
<1>7. Append(Append(Append(es, a), b), c) \in Seq(Events)
  BY <1>3, <1>6, AppendIs
<1> QED
  BY <1>2, <1>4, <1>7

Lists == Seq(Events)

LEMMA ListRoundsExist ==
  ASSUME NEW F \in [Lists -> Lists], NEW x \in Lists
  PROVE  \E f \in [Nat -> Lists] : f = [n \in Nat |-> IF n = 0 THEN x ELSE F[f[n - 1]]]
BY RoundsExist

LEMMA EventRoundsExist ==
  ASSUME NEW F \in [Seq(Events) -> Seq(Events)], NEW x \in Seq(Events)
  PROVE  \E f \in [Nat -> Seq(Events)] : f = [n \in Nat |-> IF n = 0 THEN x ELSE F[f[n - 1]]]
<1>1. F \in [Lists -> Lists] /\ x \in Lists
  BY DEF Lists
<1>2. \E f \in [Nat -> Lists] : f = [n \in Nat |-> IF n = 0 THEN x ELSE F[f[n - 1]]]
  BY ONLY <1>1, ListRoundsExist
<1> QED
  BY <1>2 DEF Lists

\* Any number of calls.
LEMMA CallsAre ==
  ASSUME NEW es, NEW m, NEW t, Running(es, m, t), NEW calls \in Nat
  PROVE  Running(Rounds(CallEvents, es)[calls], m, t)
<1> DEFINE F == [fs \in Seq(Events) |-> CallEvents(fs)]
           r == Rounds(CallEvents, es)
           U == {n \in Nat : Running(r[n], m, t)}
<1>1. F \in [Seq(Events) -> Seq(Events)]
  BY CallType
<1>2. \A fs \in Seq(Events) : F[fs] = CallEvents(fs)
  OBVIOUS
<1>3. es \in Seq(Events)
  BY RunningFlow
<1> HIDE DEF F
<1>4. PICK f \in [Nat -> Seq(Events)] : f = [n \in Nat |-> IF n = 0 THEN es ELSE F[f[n - 1]]]
  BY ONLY <1>1, <1>3, EventRoundsExist
<1>5. f = [n \in Nat |-> IF n = 0 THEN es ELSE CallEvents(f[n - 1])]
  <2>1. \A n \in Nat : n # 0 => f[n - 1] \in Seq(Events)
    <3>1. f \in [Nat -> Seq(Events)]
      BY <1>4
    <3> QED
      BY ONLY <3>1
  <2>2. \A n \in Nat : n # 0 => F[f[n - 1]] = CallEvents(f[n - 1])
    BY <1>2, <2>1
  <2> QED
    BY <1>4, <2>2
<1>6. r = [n \in Nat |-> IF n = 0 THEN es ELSE CallEvents(r[n - 1])]
  BY <1>5 DEF Rounds
<1> HIDE DEF r
<1>7. r[0] = es /\ \A n \in Nat : r[n + 1] = CallEvents(r[n])
  BY <1>6
<1>8. 0 \in U
  BY <1>7
<1>9. ASSUME NEW n \in Nat, n \in U PROVE n + 1 \in U
  <2>1. r[n + 1] = CallEvents(r[n]) /\ Running(r[n], m, t)
    BY <1>7, <1>9
  <2>2. Running(CallEvents(r[n]), m, t)
    BY <2>1, CallIs
  <2> QED
    BY <2>1, <2>2
<1> HIDE DEF U
<1>10. calls \in U
  BY <1>8, <1>9, Induct
<1> QED
  BY <1>10 DEF U, r

\* The message is closed.
LEMMA MessageEnds ==
  ASSUME NEW es, NEW m, NEW t, Running(es, m, t), NEW text \in Seq(Char)
  PROVE  /\ \E k, n : Flow(MessageEvents(es, text), k, n, {})
         /\ GoesOn(MessageEvents(es, text))
         /\ TextOf(MessageEvents(es, text)) = t
<1> DEFINE x == EnsureMessage(es)
<1>1. PICK n \in Nat : Running(x, n, t) /\ MessageIndex(x) = n
  BY EnsureIs
<1> DEFINE a == Event("output_text.done", n, text)
           b == Event("content_part.done", n, text)
           c == Event("output_item.done", n, <<>>)
           d == Append(x, a)
           f == Append(d, b)
           g == Append(f, c)
<1>2. /\ a \in Events /\ a.kind = "output_text.done" /\ a.index = n
      /\ b \in Events /\ b.kind = "content_part.done" /\ b.index = n
      /\ c \in Events /\ c.kind = "output_item.done" /\ c.index = n
  <2>1. /\ "output_text.done" \in Kinds /\ "content_part.done" \in Kinds
        /\ "output_item.done" \in Kinds
    BY DEF Kinds
  <2>2. a \in Events /\ a.kind = "output_text.done" /\ a.index = n
    BY ONLY <2>1, n \in Nat, text \in Seq(Char), EventIs
  <2>3. b \in Events /\ b.kind = "content_part.done" /\ b.index = n
    BY ONLY <2>1, n \in Nat, text \in Seq(Char), EventIs
  <2>4. c \in Events /\ c.kind = "output_item.done" /\ c.index = n
    BY ONLY <2>1, n \in Nat, MarkIs
  <2> QED
    BY <2>2, <2>3, <2>4
<1>3. MessageEvents(es, text) = x \o <<a, b, c>>
  BY <1>1 DEF MessageEvents
<1> HIDE DEF x, a, b, c
<1>4. /\ ~IsText(a) /\ a.kind \notin Over
      /\ ~IsText(b) /\ b.kind \notin Over
      /\ ~IsText(c) /\ c.kind \notin Over
  BY <1>2 DEF IsText, Over
<1>5. /\ x \in Seq(Events) /\ GoesOn(x) /\ TextOf(x) = t
      /\ Flow(x, NextIndex(x), n, {n} \ {-1})
  BY <1>1, RunningFlow
<1>6. PICK k : Flow(x, k, n, {n})
  <2>1. {n} \ {-1} = {n}
    OBVIOUS
  <2> QED
    BY <1>5, <2>1
<1>7. MessageEvents(es, text) = g
  BY <1>2, <1>3, <1>5, AppendThree
<1>8. d \in Seq(Events) /\ GoesOn(d) /\ TextOf(d) = t
  BY <1>2, <1>4, <1>5, QuietAppend
<1>9. Flow(d, k, n, {n})
  <2>1. a.kind # "output_item.added" /\ a.index \in {n}
        /\ a.kind \notin {"output_item.done", "content_part.added"}
    BY <1>2
  <2> QED
    BY <1>2, <1>6, <2>1, FlowSays
<1> HIDE DEF d
<1>10. f \in Seq(Events) /\ GoesOn(f) /\ TextOf(f) = t
  BY <1>2, <1>4, <1>8, QuietAppend
<1>11. Flow(f, k, n, {n})
  <2>1. b.kind # "output_item.added" /\ b.index \in {n}
        /\ b.kind \notin {"output_item.done", "content_part.added"}
    BY <1>2
  <2> QED
    BY <1>2, <1>9, <2>1, FlowSays
<1> HIDE DEF f
<1>12. g \in Seq(Events) /\ GoesOn(g) /\ TextOf(g) = t
  BY <1>2, <1>4, <1>10, QuietAppend
<1>13. Flow(g, k, n, {n} \ {c.index})
  <2>1. c.kind # "output_item.added" /\ c.index \in {n}
    BY <1>2
  <2> QED
    BY <1>2, <1>11, <2>1, FlowSays
<1>14. {n} \ {c.index} = {}
  BY <1>2
<1> QED
  BY <1>7, <1>12, <1>13, <1>14

\* A responses stream that is complete.  Every item is done, unless there are
\* calls and no text although some was sent.
CompletedAs(es, m, t, text, calls, rest) ==
    \E d : /\ ResponsesEnd(es, text, calls, rest) = Append(d, Event("completed", 0, text))
           /\ GoesOn(d) /\ TextOf(d) = t \o rest
           /\ \E k, n, O :
                /\ Flow(d, k, n, O)
                /\ text # <<>> \/ calls = 0 \/ (m = -1 /\ rest = <<>>) => O = {}

LEMMA ResponsesEnds ==
  ASSUME NEW es, NEW m, NEW t, Running(es, m, t), NEW text \in Seq(Char), NEW calls \in Nat,
         NEW rest \in Seq(Char)
  PROVE  CompletedAs(es, m, t, text, calls, rest)
<1> SUFFICES \E d : /\ ResponsesEnd(es, text, calls, rest) = Append(d, Event("completed", 0, text))
                   /\ GoesOn(d) /\ TextOf(d) = t \o rest
                   /\ \E k, n, O :
                        /\ Flow(d, k, n, O)
                        /\ text # <<>> \/ calls = 0 \/ (m = -1 /\ rest = <<>>) => O = {}
  BY DEF CompletedAs
<1> DEFINE x == SendContent("responses", es, rest)
           c == Rounds(CallEvents, x)[calls]
           d == IF text # <<>> \/ calls = 0 THEN MessageEvents(c, text) ELSE c
<1>1. ResponsesEnd(es, text, calls, rest) = Append(d, Event("completed", 0, text))
  BY DEF ResponsesEnd
<1>2. t \in Seq(Char)
  BY RunningFlow
<1>3. \E n : Running(x, n, t \o rest) /\ (m = -1 /\ rest = <<>> => n = -1)
  <2>1. CASE rest = <<>>
    <3>1. x = es
      BY <2>1, SendIs
    <3>2. t \o rest = t
      BY <1>2, <2>1, ConcatEmptySeq
    <3> QED
      BY <3>1, <3>2
  <2>2. CASE rest # <<>>
    BY <2>2, SendIs
  <2> QED
    BY <2>1, <2>2
<1>4. PICK n : Running(x, n, t \o rest) /\ (m = -1 /\ rest = <<>> => n = -1)
  BY <1>3
<1> HIDE DEF x
<1>5. Running(c, n, t \o rest)
  BY <1>4, CallsAre
<1> HIDE DEF c
<1>6. CASE text # <<>> \/ calls = 0
  <2>1. d = MessageEvents(c, text)
    BY <1>6
  <2>2. /\ \E k, i : Flow(d, k, i, {})
        /\ GoesOn(d) /\ TextOf(d) = t \o rest
    BY <1>5, <2>1, MessageEnds
  <2> HIDE DEF d
  <2>3. \E k, i, O : Flow(d, k, i, O) /\ O = {}
    BY <2>2
  <2> QED
    BY <1>1, <2>2, <2>3
<1>7. CASE ~(text # <<>> \/ calls = 0)
  <2>1. d = c
    BY <1>7
  <2>0. /\ Flow(c, NextIndex(c), n, {n} \ {-1})
        /\ GoesOn(c) /\ TextOf(c) = t \o rest
    BY <1>5, RunningFlow
  <2> HIDE DEF d
  <2>2. /\ Flow(d, NextIndex(d), n, {n} \ {-1})
        /\ GoesOn(d) /\ TextOf(d) = t \o rest
    BY <2>0, <2>1
  <2>3. m = -1 /\ rest = <<>> => {n} \ {-1} = {}
    BY <1>4
  <2>4. \E k, i, O : Flow(d, k, i, O) /\ (m = -1 /\ rest = <<>> => O = {})
    BY <2>2, <2>3
  <2> QED
    BY <1>1, <1>7, <2>2, <2>4
<1> QED
  BY <1>6, <1>7


-------------------------------------------------------------------------------
\* A chat stream.

Chatting(es, t) == GoesOn(es) /\ TextOf(es) = t

LEMMA ChattingIs ==
  ASSUME NEW es, NEW t, Chatting(es, t)
  PROVE  es \in Seq(Events) /\ GoesOn(es) /\ TextOf(es) = t /\ t \in Seq(Char)
<1>1. es \in Seq(Events) /\ GoesOn(es) /\ TextOf(es) = t
  BY DEF Chatting, GoesOn
<1>2. TextOf(es) \in Seq(Char)
  BY <1>1, TextType
<1> QED
  BY <1>1, <1>2

LEMMA StartedIs ==
  ASSUME NEW es, NEW t, Chatting(es, t)
  PROVE  Chatting(Started(es), t)
<1>1. es \in Seq(Events) /\ GoesOn(es) /\ TextOf(es) = t
  BY ChattingIs
<1>2. CASE es # <<>>
  BY <1>2 DEF Started
<1>3. CASE es = <<>>
  <2> DEFINE e == Event("role", 0, <<>>)
  <2>1. Started(es) = <<e>>
    BY <1>3 DEF Started
  <2>2. e \in Events /\ e.kind = "role"
    <3>1. "role" \in Kinds /\ 0 \in Nat
      BY DEF Kinds
    <3> QED
      BY ONLY <3>1, MarkIs
  <2> HIDE DEF e
  <2>3. Append(es, e) = <<e>>
    BY <1>3, <2>2
  <2>4. ~IsText(e) /\ e.kind \notin Over
    BY <2>2 DEF IsText, Over
  <2>5. GoesOn(Append(es, e)) /\ TextOf(Append(es, e)) = t
    BY <1>1, <2>2, <2>4, QuietAppend
  <2> QED
    BY <2>1, <2>3, <2>5 DEF Chatting
<1> QED
  BY <1>2, <1>3

LEMMA ChatSends ==
  ASSUME NEW es, NEW t, Chatting(es, t), NEW e \in Events, e.kind \notin Over
  PROVE  Chatting(Sent(Started(es), e), IF IsText(e) THEN t \o e.text ELSE t)
<1>1. PICK x : x = Started(es)
  OBVIOUS
<1>2. x \in Seq(Events) /\ GoesOn(x) /\ TextOf(x) = t
  BY <1>1, StartedIs, ChattingIs
<1>3. GoesOn(Sent(x, e))
  BY <1>2, GoesOnSent
<1>4. TextOf(Sent(x, e)) = IF IsText(e) THEN t \o e.text ELSE t
  BY <1>2, SentIs
<1> QED
  BY <1>1, <1>3, <1>4 DEF Chatting

LEMMA ReasoningIs ==
  ASSUME NEW es, NEW t, Chatting(es, t), NEW text \in Seq(Char)
  PROVE  Chatting(SendReasoning(es, text), t)
<1>1. CASE text = <<>>
  BY <1>1 DEF SendReasoning
<1>2. CASE text # <<>>
  <2> DEFINE e == Event("reasoning", 0, text)
  <2>1. SendReasoning(es, text) = Sent(Started(es), e)
    BY <1>2 DEF SendReasoning
  <2>2. e \in Events /\ e.kind = "reasoning"
    <3>1. "reasoning" \in Kinds /\ 0 \in Nat
      BY DEF Kinds
    <3> QED
      BY ONLY <3>1, text \in Seq(Char), EventIs
  <2> HIDE DEF e
  <2>3. ~IsText(e) /\ e.kind \notin Over
    BY <2>2 DEF IsText, Over
  <2>4. Chatting(Sent(Started(es), e), IF IsText(e) THEN t \o e.text ELSE t)
    BY <2>2, <2>3, ChatSends
  <2> QED
    BY <2>1, <2>3, <2>4
<1> QED
  BY <1>1, <1>2

LEMMA ContentIs ==
  ASSUME NEW es, NEW t, Chatting(es, t), NEW text \in Seq(Char)
  PROVE  Chatting(SendContent("chat", es, text), t \o text)
<1>0. t \in Seq(Char)
  BY ChattingIs
<1>1. CASE text = <<>>
  <2>1. t \o text = t
    BY <1>0, <1>1, ConcatEmptySeq
  <2> QED
    BY <1>1, <2>1 DEF SendContent
<1>2. CASE text # <<>>
  <2> DEFINE e == Event("content", 0, text)
  <2>1. SendContent("chat", es, text) = Sent(Started(es), e)
    BY <1>2 DEF SendContent
  <2>2. e \in Events /\ e.kind = "content" /\ e.text = text
    <3>1. "content" \in Kinds /\ 0 \in Nat
      BY DEF Kinds
    <3> QED
      BY ONLY <3>1, text \in Seq(Char), EventIs
  <2> HIDE DEF e
  <2>3. IsText(e) /\ e.kind \notin Over
    BY <2>2 DEF IsText, Over
  <2>4. Chatting(Sent(Started(es), e), IF IsText(e) THEN t \o e.text ELSE t)
    BY <2>2, <2>3, ChatSends
  <2> QED
    BY <2>1, <2>2, <2>3, <2>4
<1> QED
  BY <1>1, <1>2

LEMMA ToolCallsAre ==
  ASSUME NEW es, NEW t, Chatting(es, t), NEW calls \in Nat
  PROVE  Chatting(SendToolCalls(es, calls), t)
<1>1. CASE calls = 0
  BY <1>1 DEF SendToolCalls
<1>2. CASE calls # 0
  <2> DEFINE e == Event("tool_calls", calls, <<>>)
  <2>1. SendToolCalls(es, calls) = Append(Started(es), e)
    BY <1>2 DEF SendToolCalls
  <2>2. e \in Events /\ e.kind = "tool_calls"
    <3>1. "tool_calls" \in Kinds
      BY DEF Kinds
    <3> QED
      BY ONLY <3>1, calls \in Nat, MarkIs
  <2> HIDE DEF e
  <2>3. ~IsText(e) /\ e.kind \notin Over
    BY <2>2 DEF IsText, Over
  <2>4. PICK x : x = Started(es)
    OBVIOUS
  <2>5. x \in Seq(Events) /\ GoesOn(x) /\ TextOf(x) = t
    BY <2>4, StartedIs, ChattingIs
  <2>6. GoesOn(Append(x, e)) /\ TextOf(Append(x, e)) = t
    BY <2>2, <2>3, <2>5, QuietAppend
  <2> QED
    BY <2>1, <2>4, <2>6 DEF Chatting
<1> QED
  BY <1>1, <1>2

\* The two events that end a chat stream.
LEMMA StreamEnds ==
  ASSUME NEW es, NEW t, Chatting(es, t), NEW kind \in {"finish", "error"}
  PROVE  \E d : /\ Started(es) \o <<Event(kind, 0, <<>>), Event("[DONE]", 0, <<>>)>>
                     = Append(d, Event("[DONE]", 0, <<>>))
                /\ Unclosed(d) /\ TextOf(d) = t
                /\ kind = "error" => GoesOn(d)
<1> DEFINE a == Event(kind, 0, <<>>)
           b == Event("[DONE]", 0, <<>>)
<1>1. /\ a \in Events /\ a.kind = kind
      /\ b \in Events
  <2>1. kind \in Kinds /\ "[DONE]" \in Kinds /\ 0 \in Nat
    BY DEF Kinds
  <2>2. a \in Events /\ a.kind = kind
    BY ONLY <2>1, MarkIs
  <2>3. b \in Events
    BY ONLY <2>1, MarkIs
  <2> QED
    BY <2>2, <2>3
<1>2. PICK x : x = Started(es)
  OBVIOUS
<1> HIDE DEF a, b
<1>3. x \in Seq(Events) /\ GoesOn(x) /\ TextOf(x) = t
  BY <1>2, StartedIs, ChattingIs
<1>4. x \o <<a, b>> = Append(Append(x, a), b)
  BY <1>1, <1>3, AppendTwo
<1>5. a.kind \notin Closings /\ ~IsText(a)
  BY <1>1 DEF Closings, IsText
<1>6. Unclosed(x)
  BY <1>3, GoesOnUnclosed
<1>7. Unclosed(Append(x, a)) /\ TextOf(Append(x, a)) = t
  BY <1>1, <1>3, <1>5, <1>6, UnclosedAppend, TextAppend
<1>8. kind = "error" => GoesOn(Append(x, a))
  <2>1. kind = "error" => a.kind \notin Over
    BY <1>1 DEF Over
  <2> QED
    BY <1>1, <1>3, <2>1, GoesOnAppend
<1>9. PICK d : d = Append(x, a)
  OBVIOUS
<1>10. /\ x \o <<a, b>> = Append(d, b)
       /\ Unclosed(d) /\ TextOf(d) = t /\ (kind = "error" => GoesOn(d))
  BY ONLY <1>4, <1>7, <1>8, <1>9
<1> QED
  BY <1>2, <1>10 DEF a, b

FinishedAs(es, t, text, calls, rest) ==
    \E d : /\ ChatEnd(es, text, calls, rest) = Append(d, Event("[DONE]", 0, <<>>))
           /\ Unclosed(d) /\ TextOf(d) = t \o rest

LEMMA ChatEnds ==
  ASSUME NEW es, NEW t, Chatting(es, t), NEW text \in Seq(Char), NEW calls \in Nat,
         NEW rest \in Seq(Char), Remaining(Reasoning, rtracker) \in Seq(Char)
  PROVE  FinishedAs(es, t, text, calls, rest)
<1> SUFFICES \E d : /\ ChatEnd(es, text, calls, rest) = Append(d, Event("[DONE]", 0, <<>>))
                   /\ Unclosed(d) /\ TextOf(d) = t \o rest
  BY DEF FinishedAs
<1>1. PICK x : x = SendReasoning(es, Remaining(Reasoning, rtracker))
  OBVIOUS
<1>2. Chatting(x, t)
  BY <1>1, ReasoningIs
<1>3. PICK y : y = SendContent("chat", x, rest)
  OBVIOUS
<1>4. Chatting(y, t \o rest)
  BY <1>2, <1>3, ContentIs
<1>5. PICK z : z = SendToolCalls(y, calls)
  OBVIOUS
<1>6. Chatting(z, t \o rest)
  BY <1>4, <1>5, ToolCallsAre
<1>7. ChatEnd(es, text, calls, rest) = Started(z) \o <<Event("finish", 0, <<>>), Event("[DONE]", 0, <<>>)>>
  BY <1>1, <1>3, <1>5 DEF ChatEnd, FinishStream
<1>8. PICK u : u = t \o rest
  OBVIOUS
<1>9. PICK kind \in {"finish", "error"} : kind = "finish"
  OBVIOUS
<1>10. Chatting(z, u)
  BY <1>6, <1>8
<1>11. \E d : /\ Started(z) \o <<Event(kind, 0, <<>>), Event("[DONE]", 0, <<>>)>>
                    = Append(d, Event("[DONE]", 0, <<>>))
              /\ Unclosed(d) /\ TextOf(d) = u
              /\ kind = "error" => GoesOn(d)
  BY <1>10, StreamEnds
<1>12. PICK d : /\ Started(z) \o <<Event(kind, 0, <<>>), Event("[DONE]", 0, <<>>)>>
                     = Append(d, Event("[DONE]", 0, <<>>))
               /\ Unclosed(d) /\ TextOf(d) = u
  BY ONLY <1>11
<1> QED
  BY <1>7, <1>8, <1>9, <1>12


-------------------------------------------------------------------------------
\* The end of an answer: what is still to be sent, and the reply in one piece.

LEMMA RemainingIs ==
  ASSUME NEW full \in Seq(Char), NEW emitted \in Seq(Char)
  PROVE  /\ Remaining(full, emitted) \in Seq(Char)
         /\ IsPrefix(emitted, full) => emitted \o Remaining(full, emitted) = full
         /\ ~IsPrefix(emitted, full) => Remaining(full, emitted) = <<>>
<1>1. CASE IsPrefix(emitted, full)
  <2>1. After(full, Len(emitted)) \in Seq(Char) /\ emitted \o After(full, Len(emitted)) = full
    BY <1>1, PrefixRest
  <2> QED
    BY <1>1, <2>1 DEF Remaining
<1>2. CASE ~IsPrefix(emitted, full)
  <2>1. Remaining(full, emitted) = <<>>
    BY <1>2 DEF Remaining
  <2> QED
    BY <1>2, <2>1
<1> QED
  BY <1>1, <1>2

LEMMA PrefixOfNothing ==
  ASSUME NEW s \in Seq(Char), IsPrefix(s, <<>>)
  PROVE  s = <<>>
<1>1. <<>> \in Seq(Char) /\ Len(<<>>) = 0
  OBVIOUS
<1>2. Len(s) <= Len(<<>>)
  BY <1>1, PrefixIs
<1>3. Len(s) = 0
  BY <1>1, <1>2
<1> QED
  BY <1>3

LEMMA RemainingOfNothing ==
  ASSUME NEW s \in Seq(Char)
  PROVE  Remaining(<<>>, s) = <<>>
<1>1. <<>> \in Seq(Char) /\ Len(<<>>) = 0
  OBVIOUS
<1>2. CASE ~IsPrefix(s, <<>>)
  BY <1>2 DEF Remaining
<1>3. CASE IsPrefix(s, <<>>)
  <2>1. s = <<>>
    BY <1>3, PrefixOfNothing
  <2>2. s \o Remaining(<<>>, s) = <<>> /\ Remaining(<<>>, s) \in Seq(Char)
    BY <1>1, <1>3, RemainingIs
  <2>3. <<>> \o Remaining(<<>>, s) = Remaining(<<>>, s)
    BY <2>2, ConcatEmptySeq
  <2> QED
    BY <2>1, <2>2, <2>3
<1> QED
  BY <1>2, <1>3

LEMMA FullFront ==
  ASSUME NEW s \in Seq(Char)
  PROVE  SubSeq(s, 1, Len(s)) = s
<1> DEFINE u == SubSeq(s, 1, Len(s))
<1>1. Len(s) \in 0 .. Len(s)
  OBVIOUS
<1>2. u \in Seq(Char) /\ Len(u) = Len(s) /\ \A k \in 1 .. Len(s) : u[k] = s[k]
  BY <1>1, FrontIs
<1> HIDE DEF u
<1>3. u = s
  BY <1>2, SeqEqual
<1> QED
  BY <1>3 DEF u

LEMMA TrimTwice ==
  ASSUME NEW s \in Seq(Char)
  PROVE  Trim(Trim(s)) = Trim(s)
<1>1. CASE Trim(s) = <<>>
  BY <1>1, EmptyTexts
<1>2. ASSUME NEW a \in 1 .. Len(s), NEW b \in 1 .. Len(s), Ends(s, a, b), Trim(s) = SubSeq(s, a, b)
      PROVE  Trim(Trim(s)) = Trim(s)
  <2>1. a <= b /\ s[a] # Blank /\ s[b] # Blank
    BY <1>2 DEF Ends
  <2> DEFINE u == SubSeq(s, a, b)
  <2>2. u \in Seq(Char) /\ Len(u) = b - a + 1 /\ \A i \in 1 .. b - a + 1 : u[i] = s[a + i - 1]
    BY <2>1, PieceIs
  <2> HIDE DEF u
  <2>3. Len(u) \in 1 .. Len(u) /\ 1 \in 1 .. Len(u) /\ 1 <= Len(u)
    BY <2>1, <2>2
  <2>4. u[1] # Blank /\ u[Len(u)] # Blank
    <3>1. u[1] = s[a + 1 - 1] /\ a + 1 - 1 = a
      BY <2>2, <2>3
    <3>2. u[Len(u)] = s[a + Len(u) - 1] /\ a + Len(u) - 1 = b
      BY <2>2, <2>3
    <3> QED
      BY <2>1, <3>1, <3>2
  <2>5. Ends(u, 1, Len(u))
    <3>1. \A i \in 1 .. 1 - 1 : u[i] = Blank
      OBVIOUS
    <3>2. \A i \in Len(u) + 1 .. Len(u) : u[i] = Blank
      BY <2>3
    <3> QED
      BY <2>3, <2>4, <3>1, <3>2 DEF Ends
  <2>6. Trim(u) = u
    BY <2>2, <2>5, TrimEnds, FullFront, ZenonT(60)
  <2> QED
    BY <1>2, <2>6 DEF u
<1> QED
  BY <1>1, <1>2, TrimIs

\* A text without white space at its ends is completed.
LEMMA TrimJoin ==
  ASSUME NEW w \in Seq(Char), Trim(w) = w, NEW t \in Seq(Char), IsPrefix(t, w)
  PROVE  Trim(t \o Remaining(w, t)) = w
BY RemainingIs

\* A text of which more was sent than is left without the white space behind
\* it, but which begins with none.
LEMMA TrimBehind ==
  ASSUME NEW U \in Seq(Char), U = <<>> \/ Head(U) # Blank, NEW t \in Seq(Char), IsPrefix(t, U)
  PROVE  Trim(t \o Remaining(Trim(U), t)) = Trim(U)
<1>1. Trim(U) \in Seq(Char) /\ Trim(Trim(U)) = Trim(U)
  BY TrimType, TrimTwice
<1>2. CASE IsPrefix(t, Trim(U))
  BY <1>1, <1>2, TrimJoin
<1>3. CASE ~IsPrefix(t, Trim(U))
  <2>1. U # <<>>
    <3>1. U = <<>> => t = <<>>
      BY PrefixOfNothing
    <3>2. IsPrefix(<<>>, Trim(U))
      BY <1>1, EmptyPrefix
    <3> QED
      BY <1>3, <3>1, <3>2
  <2>2. U[1] # Blank /\ 1 \in 1 .. Len(U) /\ Len(U) \in Nat
    BY <2>1
  <2>3. ~BlankText(U)
    BY <2>2 DEF BlankText
  <2>4. PICK a, b \in 1 .. Len(U) : Ends(U, a, b) /\ Trim(U) = SubSeq(U, a, b)
    BY <2>3, TrimIs
  <2>5. a = 1
    <3>1. \A i \in 1 .. a - 1 : U[i] = Blank
      BY <2>4 DEF Ends
    <3>2. a # 1 => 1 \in 1 .. a - 1
      BY <2>2
    <3> QED
      BY <2>2, <3>1, <3>2
  <2>6. /\ b \in 0 .. Len(U) /\ Len(t) \in Nat
        /\ Len(t) <= Len(U) /\ \A i \in 1 .. Len(t) : t[i] = U[i]
    BY <2>2, PrefixIs
  <2>7. b < Len(t)
    <3>1. Len(t) <= b => IsPrefix(t, SubSeq(U, 1, b))
      BY <2>6, FrontsNest
    <3> QED
      BY <1>3, <2>4, <2>5, <2>6, <3>1
  <2>8. Ends(t, 1, b)
    <3>1. /\ U[b] # Blank /\ \A i \in b + 1 .. Len(U) : U[i] = Blank
      BY <2>4 DEF Ends
    <3>2. 1 \in 1 .. Len(t) /\ b \in 1 .. Len(t) /\ 1 <= b
      BY <2>6, <2>7
    <3>3. t[1] # Blank /\ t[b] # Blank
      BY <2>2, <2>6, <3>1, <3>2
    <3>4. \A i \in b + 1 .. Len(t) : t[i] = Blank
      <4>1. \A i \in b + 1 .. Len(t) : i \in b + 1 .. Len(U) /\ i \in 1 .. Len(t)
        BY <2>2, <2>6
      <4> QED
        BY <2>6, <3>1, <4>1
    <3> QED
      BY <3>2, <3>3, <3>4 DEF Ends
  <2>9. Trim(t) = SubSeq(t, 1, b)
    BY <2>8, TrimEnds
  <2>10. SubSeq(t, 1, b) = SubSeq(U, 1, b)
    <3> DEFINE u == SubSeq(t, 1, b)
               v == SubSeq(U, 1, b)
    <3>1. b \in 0 .. Len(t) /\ b \in 0 .. Len(U)
      BY <2>6, <2>7
    <3>2. u \in Seq(Char) /\ Len(u) = b /\ \A k \in 1 .. b : u[k] = t[k]
      BY <3>1, FrontIs
    <3>3. v \in Seq(Char) /\ Len(v) = b /\ \A k \in 1 .. b : v[k] = U[k]
      BY <3>1, FrontIs
    <3> HIDE DEF u, v
    <3>4. \A k \in 1 .. b : u[k] = v[k]
      BY <2>6, <2>7, <3>2, <3>3, SMTT(30)
    <3>5. u = v
      BY <3>2, <3>3, <3>4, SeqEqual
    <3> QED
      BY <3>5 DEF u, v
  <2>11. Remaining(Trim(U), t) = <<>> /\ t \o <<>> = t
    BY <1>1, <1>3, RemainingIs, ConcatEmptySeq
  <2> QED
    BY <2>4, <2>5, <2>9, <2>10, <2>11
<1> QED
  BY <1>2, <1>3

LEMMA UnmarkedType ==
  ASSUME NEW s \in Seq(Char)
  PROVE  Unmarked(s) \in Seq(Char) /\ Trim(Unmarked(s)) = Unmarked(s)
<1> DEFINE u == [i \in DOMAIN s |-> IF s[i] = Ran THEN Python ELSE s[i]]
<1>1. DOMAIN s = 1 .. Len(s) /\ Len(s) \in Nat /\ \A i \in 1 .. Len(s) : s[i] \in Char
  OBVIOUS
<1>2. Python \in Char
  BY DEF Char
<1>3. u \in [1 .. Len(s) -> Char]
  BY <1>1, <1>2
<1>4. u \in Seq(Char)
  BY <1>1, <1>3
<1> QED
  BY <1>4, TrimType, TrimTwice DEF Unmarked

LEMMA CleanIsTrimmed ==
  ASSUME NEW s \in Seq(Char)
  PROVE  Trim(Clean(s)) = Clean(s)
<1>1. Cut(s, CodeOpen, TRUE).text \in Seq(Char)
  BY CodeFits, CutResult, Zenon
<1> QED
  BY <1>1, TrimTwice DEF Clean

LEMMA ResponseTextIs ==
  ASSUME Base
  PROVE  /\ ResponseText \in Seq(Char)
         /\ Trim(ResponseText) = ResponseText
         /\ Clean(frame) # <<>> => ResponseText = Clean(frame)
<1>1. frame \in Seq(Char)
  BY DEF Base, Texts
<1> QED
  BY <1>1, CleanType, CleanIsTrimmed, UnmarkedType DEF ResponseText

LEMMA RequestIs ==
  ASSUME Base
  PROVE  /\ req.kind \in {"text", "media", "canvas"}
         /\ req.stream \in BOOLEAN /\ req.tools \in BOOLEAN
         /\ req.api \in {"chat", "responses"}
<1>1. req \in [api : {"chat", "responses"}, stream : BOOLEAN, tools : BOOLEAN,
              kind : {"text", "media", "canvas"}]
  BY RequestsAssumption DEF Base, Texts, RequestsAssumption
<1> QED
  BY <1>1

LEMMA ToolCallsType ==
  ASSUME NEW s \in Seq(Char)
  PROVE  Cardinality(ToolCalls(s)) \in Nat
<1> DEFINE found == Cut(s, FenceOpen, FALSE).blocks
<1>1. found \in Seq(Seq(Char))
  BY FenceFits, CutResult, Zenon
<1> HIDE DEF found
<1>2. DOMAIN found = 1 .. Len(found) /\ IsFiniteSet(1 .. Len(found))
  BY <1>1, FS_Interval
<1>3. ToolCalls(s) \subseteq DOMAIN found
  BY DEF ToolCalls, found
<1>4. IsFiniteSet(ToolCalls(s))
  BY <1>2, <1>3, FS_Subset
<1> QED
  BY <1>4, FS_CardinalityType

LEMMA WholeIs ==
  ASSUME Base, NEW holds \in BOOLEAN
  PROVE  /\ Whole(holds).text \in Seq(Char)
         /\ Whole(holds).calls \in Nat
         /\ Whole(holds).calls # 0 => req.kind = "text" /\ req.tools
         /\ req.kind = "text" /\ req.tools => Whole(holds).text = Trim(Unfenced(ResponseText))
         /\ req.kind = "text" /\ ~req.tools => Whole(holds).text = ResponseText
         /\ req.kind = "media" => Whole(holds).text = Trim(ResponseText \o <<Blank, Doc>>)
<1> DEFINE R == ResponseText
           tail == <<Blank, Doc>>
           w == Whole(holds)
<1>1. R \in Seq(Char) /\ tail \in Seq(Char) /\ <<Doc>> \in Seq(Char)
  <2>1. Doc \in Char /\ Blank \in Char
    BY AnswersAssumption DEF AnswersAssumption, Char
  <2> QED
    BY <2>1, ResponseTextIs
<1>2. req.kind \in {"text", "media", "canvas"} /\ req.tools \in BOOLEAN
  BY RequestIs
<1> HIDE DEF R, tail
<1>3. R \o tail \in Seq(Char) /\ Trim(R \o tail) \in Seq(Char)
  BY <1>1, ConcatProperties, TrimType
<1>4. Trim(Unfenced(R)) \in Seq(Char) /\ Cardinality(ToolCalls(R)) \in Nat
  BY <1>1, UnfencedIs, TrimType, ToolCallsType
<1>5. /\ w.text = (CASE req.kind = "canvas" /\ (R = <<>> \/ holds) -> <<Doc>>
                [] req.kind = "canvas" /\ ~(R = <<>> \/ holds) -> R \o tail
                [] req.kind = "media" -> Trim(R \o tail)
                [] req.kind = "text" -> IF req.tools THEN Trim(Unfenced(R)) ELSE R)
      /\ w.calls = (IF req.kind = "text" /\ req.tools THEN Cardinality(ToolCalls(R)) ELSE 0)
  BY DEF Whole, R, tail
<1> HIDE DEF w
<1>6. CASE req.kind = "text"
  <2>1. /\ w.text = (IF req.tools THEN Trim(Unfenced(R)) ELSE R)
        /\ w.calls = (IF req.tools THEN Cardinality(ToolCalls(R)) ELSE 0)
    BY <1>5, <1>6
  <2> QED
    BY <1>1, <1>2, <1>4, <1>6, <2>1 DEF R, w
<1>7. CASE req.kind = "media"
  <2>1. w.text = Trim(R \o tail) /\ w.calls = 0
    BY <1>5, <1>7
  <2> QED
    BY <1>3, <1>7, <2>1 DEF R, w, tail
<1>8. CASE req.kind = "canvas"
  <2>1. w.text = (IF R = <<>> \/ holds THEN <<Doc>> ELSE R \o tail) /\ w.calls = 0
    BY <1>5, <1>8
  <2> QED
    BY <1>1, <1>3, <1>8, <2>1 DEF R, w
<1> QED
  BY <1>2, <1>6, <1>7, <1>8


LEMMA DocIs == <<Blank, Doc>> \in Seq(Char)
<1>1. Doc \in Char /\ Blank \in Char
  BY AnswersAssumption DEF AnswersAssumption, Char
<1> QED
  BY <1>1

\* What is left to send completes what was sent to the text of the reply.
SameText(t) ==
    req.stream /\ Unchanged
    /\ (req.kind = "text" \/ (req.kind = "media" /\ ~req.tools))
    /\ (req.tools => Unfenced(ResponseText) = <<>> \/ Head(Unfenced(ResponseText)) # Blank)
    => Trim(t \o Remaining(Whole(FALSE).text, t)) = Whole(FALSE).text

LEMMA SentTextIs ==
  ASSUME Base
  PROVE  /\ SentText(gate, tracker) \in Seq(Char)
         /\ tracker = <<>> => SentText(gate, tracker) = <<>>
         /\ ~req.stream => SentText(gate, tracker) = <<>>
<1>1. tracker \in Seq(Char) /\ (~req.stream => tracker = <<>>)
  BY DEF Base, HandedOn
<1>2. gate \in Gates /\ gate = IF req.tools THEN Push(NewGate, tracker) ELSE NewGate
  BY DEF Base, Gated
<1>3. gate.sent \in Seq(Char) /\ (tracker = <<>> => gate.sent = <<>>)
  BY <1>2, GateIs, NewGateIs
<1> QED
  BY <1>1, <1>3 DEF SentText

\* What was sent through the gate is the beginning of the text without its
\* fences.
LEMMA SentWithin ==
  ASSUME Base, req.stream, Unchanged, req.tools
  PROVE  IsPrefix(SentText(gate, tracker), Unfenced(ResponseText))
<1>1. /\ tracker = Clean(frame)
      /\ SentText(gate, tracker) = Push(NewGate, tracker).sent
  BY DEF Base, HandedOn, Gated, SentText
<1>2. ResponseText \in Seq(Char) /\ (Clean(frame) # <<>> => ResponseText = Clean(frame))
  BY ResponseTextIs
<1>3. Unfenced(ResponseText) \in Seq(Char)
  BY <1>2, GateWithin
<1>4. CASE tracker = <<>>
  <2>1. SentText(gate, tracker) = <<>>
    BY <1>4, SentTextIs
  <2> QED
    BY <1>3, <2>1, EmptyPrefix
<1>5. CASE tracker # <<>>
  <2>1. ResponseText = tracker
    BY <1>1, <1>2, <1>5
  <2> QED
    BY <1>1, <1>2, <2>1, GateWithin
<1> QED
  BY <1>4, <1>5

LEMMA SameTextIs ==
  ASSUME Base
  PROVE  SameText(SentText(gate, tracker))
<1>1. PICK t : t = SentText(gate, tracker)
  OBVIOUS
<1>2. PICK w : w = Whole(FALSE).text
  OBVIOUS
<1>3. PICK R : R = ResponseText
  OBVIOUS
<1>4. FALSE \in BOOLEAN
  OBVIOUS
<1>5. /\ w \in Seq(Char)
      /\ req.kind = "text" /\ req.tools => w = Trim(Unfenced(R))
      /\ req.kind = "text" /\ ~req.tools => w = R
      /\ req.kind = "media" => w = Trim(R \o <<Blank, Doc>>)
  BY ONLY Base, <1>2, <1>3, <1>4, WholeIs, Zenon
<1>6. R \in Seq(Char) /\ Trim(R) = R /\ (Clean(frame) # <<>> => R = Clean(frame))
  BY <1>3, ResponseTextIs
<1>7. t \in Seq(Char) /\ (tracker = <<>> => t = <<>>)
  BY <1>1, SentTextIs
<1> SUFFICES ASSUME req.stream, Unchanged,
                    req.kind = "text" \/ (req.kind = "media" /\ ~req.tools),
                    req.tools => Unfenced(R) = <<>> \/ Head(Unfenced(R)) # Blank
             PROVE  Trim(t \o Remaining(w, t)) = w
  BY <1>1, <1>2, <1>3 DEF SameText
<1>8. tracker = Clean(frame) /\ tracker \in Seq(Char)
  BY DEF Base, HandedOn
<1>9. req.tools \in BOOLEAN
  BY RequestIs
<1>10. CASE req.tools
  <2>1. req.kind = "text"
    BY <1>10
  <2>2. PICK U : U = Unfenced(R)
    OBVIOUS
  <2>3. U \in Seq(Char) /\ w = Trim(U) /\ (U = <<>> \/ Head(U) # Blank)
    BY <1>5, <1>6, <1>10, <2>1, <2>2, GateWithin
  <2>4. IsPrefix(t, U)
    BY <1>1, <1>3, <1>10, <2>2, SentWithin
  <2> QED
    BY ONLY <1>7, <2>3, <2>4, TrimBehind
<1>11. CASE ~req.tools
  <2>1. t = tracker
    BY <1>1, <1>11 DEF SentText
  <2>2. Trim(w) = w
    BY <1>5, <1>6, <1>11, TrimTwice, DocIs, ConcatProperties
  <2>3. IsPrefix(t, w)
    <3>1. CASE tracker = <<>>
      BY <1>5, <1>7, <3>1, EmptyPrefix
    <3>2. CASE tracker # <<>> /\ req.kind = "text"
      <4>1. w = t
        BY <1>5, <1>6, <1>8, <1>11, <2>1, <3>2
      <4> QED
        BY <1>7, <4>1, PrefixIs
    <3>3. CASE tracker # <<>> /\ req.kind = "media"
      <4>1. t = R /\ Trim(t) = t
        BY <1>6, <1>8, <2>1, <3>3
      <4>2. PICK d : d = <<Blank, Doc>>
        OBVIOUS
      <4>3. d \in Seq(Char)
        BY <4>2, DocIs
      <4>4. t \o d \in Seq(Char) /\ IsPrefix(t, t \o d)
        BY <1>7, <4>3, ConcatProperties, PrefixOfConcat
      <4>5. PICK u : u = t \o d
        OBVIOUS
      <4>6. u \in Seq(Char) /\ IsPrefix(t, u) /\ w = Trim(u)
        BY <1>5, <3>3, <4>1, <4>2, <4>4, <4>5
      <4>7. IsPrefix(Trim(t), Trim(u))
        BY ONLY <1>7, <4>6, TrimPrefix
      <4> QED
        BY <4>1, <4>6, <4>7
    <3> QED
      BY <1>11, <3>1, <3>2, <3>3
  <2> QED
    BY ONLY <1>5, <1>7, <2>2, <2>3, TrimJoin
<1> QED
  BY <1>10, <1>11

-------------------------------------------------------------------------------
\* What the client has received, at every point.

\* The client knows that its answer has ended.
Closed(d) ==
    /\ \A i \in DOMAIN d : d[i].kind \in Closings => i = Len(d)
    /\ Last(d).kind \in Closings
    /\ Count(d, "json") > 0 => Len(d) = 1

Complete(d) == Count(d, "finish") + Count(d, "completed") > 0

\* Every item is in order, and done if the answer is complete.
Orderly(d) ==
    /\ \A i \in DOMAIN d : d[i].kind \notin Free =>
         /\ \E j \in At(d, "output_item.added", d[i].index) : j < i
         /\ \A j \in At(d, "output_item.done", d[i].index) : i <= j
    /\ \A n \in 0 .. NextIndex(d) - 1 : Cardinality(At(d, "output_item.added", n)) = 1
    /\ Complete(d) /\ Unchanged /\ (Trim(TextOf(d)) # <<>> \/ TextOf(d) = <<>>) =>
         \A n \in 0 .. NextIndex(d) - 1 : Cardinality(At(d, "output_item.done", n)) = 1

\* The text of a complete answer is the text of the reply in one piece.
SameReply(d) ==
    /\ Complete(d)
    /\ Unchanged
    /\ req.kind = "text" \/ (req.kind = "media" /\ ~req.tools)
    /\ req.tools => Unfenced(ResponseText) = <<>> \/ Head(Unfenced(ResponseText)) # Blank
    => Trim(TextOf(d)) = Whole(FALSE).text

Ending(d) ==
    /\ Closed(d)
    /\ req.stream /\ req.api = "responses" => Orderly(d)
    /\ SameReply(d)

LEMMA EndingHolds ==
  ASSUME Ending(out)
  PROVE  EndsOnce /\ ItemLifecycle /\ StreamEqualsReply
<1>1. EndsOnce
  BY DEF Ending, Closed, EndsOnce
<1>2. Received = TextOf(out) /\ (Answered <=> Complete(out))
  BY DEF Received, Answered, Complete
<1>3. StreamEqualsReply
  BY <1>2 DEF Ending, SameReply, StreamEqualsReply
<1>4. ItemLifecycle
  BY <1>2 DEF Ending, Orderly, Free, At, ItemLifecycle
<1> QED
  BY <1>1, <1>3, <1>4

\* What was received so far is a beginning of an answer.
OnTheWay(es, t) ==
    /\ ~req.stream => es = <<>>
    /\ req.stream /\ req.api = "chat" => Chatting(es, t)
    /\ req.stream /\ req.api = "responses" =>
         \E m : Running(es, m, t) /\ (t = <<>> => m = -1)

Heard ==
    /\ pc = "asked" => out = <<>>
    /\ pc = "reading" => OnTheWay(out, SentText(gate, tracker))
    /\ pc = "done" => out \in Seq(Events) /\ Ending(out)

LEMMA OnTheWayIs ==
  ASSUME Base, NEW es, NEW t, OnTheWay(es, t)
  PROVE  GoesOn(es)
<1>1. /\ req.stream \in BOOLEAN /\ req.api \in {"chat", "responses"}
  BY RequestIs
<1>2. CASE ~req.stream
  BY <1>2, GoesOnNothing DEF OnTheWay
<1>3. CASE req.stream /\ req.api = "chat"
  BY <1>3, ChattingIs DEF OnTheWay
<1>4. CASE req.stream /\ req.api = "responses"
  <2>1. PICK m : Running(es, m, t)
    BY <1>4 DEF OnTheWay
  <2> QED
    BY <2>1, RunningFlow
<1> QED
  BY <1>1, <1>2, <1>3, <1>4

\* Nothing said so far.
LEMMA FlowNothing == Flow(<<>>, 0, -1, {})
<1>1. <<>> \in Seq(Events) /\ Len(<<>>) = 0
  OBVIOUS
<1>2. 1 .. Len(<<>>) = {} /\ 0 .. 0 - 1 = {}
  BY <1>1
<1>3. NextIndex(<<>>) = 0
  BY CountNothing DEF NextIndex
<1>4. Declared(<<>>, 0) /\ InOrder(<<>>) /\ Undone(<<>>, 0, {}) /\ Message(<<>>, -1)
  BY <1>2 DEF Declared, InOrder, Undone, Message
<1> QED
  BY <1>1, <1>2, <1>3, <1>4 DEF Flow

LEMMA HeardHolds ==
  ASSUME Base, Heard
  PROVE  /\ out \in Seq(Events)
         /\ EndsOnce /\ ItemLifecycle /\ StreamEqualsReply
<1>1. pc \in {"asked", "reading", "done"}
  BY DEF Base, Texts
<1>2. CASE pc = "done"
  BY <1>2, EndingHolds DEF Heard
<1>3. CASE pc # "done"
  <2>1. GoesOn(out)
    BY <1>1, <1>3, GoesOnNothing, OnTheWayIs DEF Heard
  <2>2. /\ out \in Seq(Events) /\ Unclosed(out)
        /\ Count(out, "finish") = 0 /\ Count(out, "completed") = 0
    BY <2>1, GoesOnUnclosed
  <2>3. ~Answered
    BY <2>2 DEF Answered
  <2>4. EndsOnce
    <3>1. \A i \in DOMAIN out : out[i].kind \notin Closings
      BY <2>2 DEF Unclosed
    <3>2. \A i \in 1 .. Len(out) : out[i].kind # "json"
      BY <2>2, <3>1 DEF Closings
    <3>3. Count(out, "json") = 0
      BY <2>2, <3>2, NoSuchEvent
    <3> QED
      BY <1>3, <3>1, <3>3 DEF EndsOnce
  <2>5. StreamEqualsReply
    BY <2>3 DEF StreamEqualsReply
  <2>6. req.stream /\ req.api = "responses" => \E k, m, O : Flow(out, k, m, O)
    <3>1. CASE pc = "asked"
      BY <3>1, FlowNothing DEF Heard
    <3>2. CASE pc = "reading"
      <4> SUFFICES ASSUME req.stream, req.api = "responses" PROVE \E k, m, O : Flow(out, k, m, O)
        OBVIOUS
      <4>1. PICK m : Running(out, m, SentText(gate, tracker))
        BY <3>2 DEF Heard, OnTheWay
      <4> QED
        BY <4>1, RunningFlow
    <3> QED
      BY <1>1, <1>3, <3>1, <3>2
  <2>7. ItemLifecycle
    <3> SUFFICES ASSUME req.stream, req.api = "responses" PROVE ItemLifecycle
      BY DEF ItemLifecycle
    <3>1. PICK k, m, O : Flow(out, k, m, O)
      BY <2>6
    <3>2. /\ \A i \in DOMAIN out : out[i].kind \notin Free =>
               /\ \E j \in At(out, "output_item.added", out[i].index) : j < i
               /\ \A j \in At(out, "output_item.done", out[i].index) : i <= j
          /\ \A n \in 0 .. NextIndex(out) - 1 : Cardinality(At(out, "output_item.added", n)) = 1
      BY <3>1, FlowOrderly
    <3> QED
      BY <2>3, <3>2 DEF ItemLifecycle, Free, At
  <2> QED
    BY <2>2, <2>4, <2>5, <2>7
<1> QED
  BY <1>2, <1>3


\* The request, and what was handed on of the answer, are what they were.
LEMMA EndsThus ==
  ASSUME Base, UNCHANGED <<req, answer, upstream, tracker, rtracker, gate>>, pc' = "done",
         NEW d \in Seq(Events), out' = d, Ending(d)
  PROVE  Heard'
<1>1. UNCHANGED <<req, answer, frame, drafted>>
  BY DEF upstream
<1>2. (Unchanged' <=> Unchanged) /\ ResponseText' = ResponseText
  BY <1>1 DEF Unchanged, ResponseText
<1>3. Whole(FALSE)' = Whole(FALSE)
  BY <1>1, <1>2 DEF Whole
<1>4. Orderly(d)' <=> Orderly(d)
  BY <1>2 DEF Orderly
<1>5. SameReply(d)' <=> SameReply(d)
  BY <1>1, <1>2, <1>3 DEF SameReply
<1>6. Ending(d)'
  BY <1>1, <1>4, <1>5 DEF Ending
<1>7. Ending(out)'
  BY <1>6 DEF Ending, Orderly, SameReply
<1> QED
  BY <1>7 DEF Heard

\* An answer that fails, or that is given in one piece.
LEMMA EndsShort ==
  ASSUME Base, NEW es, GoesOn(es), NEW e \in Events,
         e.kind \in {"json", "failed", "[DONE]"}, e.kind = "json" => es = <<>>,
         req.stream /\ req.api = "responses" => e.kind # "[DONE]" /\ \E k, m, O : Flow(es, k, m, O)
  PROVE  Append(es, e) \in Seq(Events) /\ Ending(Append(es, e))
<1>1. PICK d : d = Append(es, e)
  OBVIOUS
<1>2. /\ es \in Seq(Events) /\ Unclosed(es)
      /\ Count(es, "finish") = 0 /\ Count(es, "completed") = 0
  BY GoesOnUnclosed
<1>3. d \in Seq(Events)
  BY <1>1, <1>2, AppendIs
<1>4. Count(d, "finish") = 0 /\ Count(d, "completed") = 0
  BY <1>1, <1>2, CountAppend
<1>5. ~Complete(d)
  BY <1>4 DEF Complete
<1>6. Closed(d)
  <2>1. e.kind \in Closings
    BY DEF Closings
  <2> QED
    BY <1>1, <1>2, <2>1, EndsWith DEF Closed
<1>7. SameReply(d)
  BY <1>5 DEF SameReply
<1>8. req.stream /\ req.api = "responses" => Orderly(d)
  <2> SUFFICES ASSUME req.stream, req.api = "responses" PROVE Orderly(d)
    OBVIOUS
  <2>1. PICK k, m, O : Flow(es, k, m, O)
    OBVIOUS
  <2>2. /\ e.kind # "output_item.added" /\ e.kind \in Free
        /\ e.kind \notin {"output_item.done", "content_part.added"}
    BY DEF Free
  <2>3. Flow(d, k, m, O)
    BY ONLY <1>1, <2>1, <2>2, FlowSays, e \in Events
  <2>4. /\ \A i \in DOMAIN d : d[i].kind \notin Free =>
              /\ \E j \in At(d, "output_item.added", d[i].index) : j < i
              /\ \A j \in At(d, "output_item.done", d[i].index) : i <= j
        /\ \A n \in 0 .. NextIndex(d) - 1 : Cardinality(At(d, "output_item.added", n)) = 1
    BY ONLY <2>3, FlowOrderly
  <2> QED
    BY <1>5, <2>4 DEF Orderly
<1> QED
  BY <1>1, <1>3, <1>6, <1>7, <1>8 DEF Ending

\* An answer in one piece is one event.
LEMMA JsonEnds ==
  ASSUME Base, NEW status \in Nat, NEW text \in Seq(Char)
  PROVE  /\ <<Event("json", status, text)>> \in Seq(Events)
         /\ Ending(<<Event("json", status, text)>>)
<1>1. "json" \in Kinds
  BY DEF Kinds
<1>2. PICK e : e = Event("json", status, text)
  OBVIOUS
<1>3. e \in Events /\ e.kind = "json"
  BY <1>1, <1>2, EventIs
<1>4. <<>> \in Seq(Events) /\ GoesOn(<<>>)
  BY GoesOnNothing
<1>5. Append(<<>>, e) = <<e>>
  BY <1>3
<1>6. Append(<<>>, e) \in Seq(Events) /\ Ending(Append(<<>>, e))
  BY <1>3, <1>4, FlowNothing, EndsShort
<1> QED
  BY <1>2, <1>5, <1>6

LEMMA HeardRejects ==
  ASSUME Base, RejectChat \/ RejectResponses
  PROVE  Heard'
<1>1. /\ UNCHANGED <<req, answer, upstream, tracker, rtracker, gate>> /\ pc' = "done"
      /\ out' = <<Event("json", 400, <<>>)>>
  BY DEF RejectChat, RejectResponses, Handled, Json400
<1>2. <<>> \in Seq(Char) /\ 400 \in Nat
  OBVIOUS
<1>3. PICK d : d = <<Event("json", 400, <<>>)>>
  OBVIOUS
<1>4. d \in Seq(Events) /\ Ending(d)
  BY <1>2, <1>3, JsonEnds, ZenonT(60)
<1> QED
  BY <1>1, <1>3, <1>4, EndsThus


\* More was received.
LEMMA GoesOnThus ==
  ASSUME UNCHANGED req, pc' = "reading",
         NEW t, t = (IF req.tools THEN gate'.sent ELSE tracker'),
         NEW es, out' = es, OnTheWay(es, t)
  PROVE  Heard'
<1>1. OnTheWay(es, t)'
  BY DEF OnTheWay
<1>2. SentText(gate, tracker)' = t
  BY DEF SentText
<1> QED
  BY <1>1, <1>2 DEF Heard, OnTheWay

LEMMA HeardAccepts ==
  ASSUME Base, Heard, AcceptChat \/ AcceptResponses
  PROVE  Heard'
<1>1. /\ UNCHANGED <<req, answer, upstream, tracker, rtracker, gate>> /\ pc = "asked"
      /\ pc' = "reading"
  BY DEF AcceptChat, AcceptResponses, Handled
<1>2. SentText(gate, tracker) = <<>>
  BY <1>1, SentTextIs DEF Base, HandedOn
<1>3. <<>> = (IF req.tools THEN gate'.sent ELSE tracker')
  BY <1>1, <1>2 DEF SentText
<1>4. CASE AcceptChat
  <2>1. out' = <<>> /\ req.api = "chat"
    BY <1>4 DEF AcceptChat, Handled
  <2>2. OnTheWay(<<>>, <<>>)
    BY <2>1, GoesOnNothing, TextNothing DEF OnTheWay, Chatting
  <2> QED
    BY <1>1, <1>3, <2>1, <2>2, GoesOnThus
<1>5. CASE AcceptResponses
  <2>1. /\ out' = (IF req.stream THEN <<Event("created", 0, <<>>)>> ELSE <<>>)
        /\ req.api = "responses"
    BY <1>5 DEF AcceptResponses, Handled
  <2>2. CASE ~req.stream
    <3>1. OnTheWay(<<>>, <<>>)
      BY <2>1, <2>2 DEF OnTheWay
    <3> QED
      BY <1>1, <1>3, <2>1, <2>2, <3>1, GoesOnThus
  <2>3. CASE req.stream
    <3>1. "created" \in Kinds /\ 0 \in Nat
      BY DEF Kinds
    <3>2. PICK e : e = Event("created", 0, <<>>)
      OBVIOUS
    <3>3. e \in Events /\ e.kind = "created"
      BY <3>1, <3>2, MarkIs
    <3>4. <<>> \in Seq(Events)
      OBVIOUS
    <3>5. PICK d : d = Append(<<>>, e)
      OBVIOUS
    <3>6. Flow(d, 0, -1, {})
      <4>1. /\ e.kind # "output_item.added" /\ e.kind \in Free
            /\ e.kind \notin {"output_item.done", "content_part.added"}
        BY <3>3 DEF Free
      <4> QED
        BY ONLY <3>3, <3>5, <4>1, FlowNothing, FlowSays
    <3>7. GoesOn(d) /\ TextOf(d) = <<>>
      <4>1. ~IsText(e) /\ e.kind \notin Over
        BY <3>3 DEF IsText, Over
      <4> QED
        BY ONLY <3>3, <3>4, <3>5, <4>1, GoesOnNothing, TextNothing, QuietAppend
    <3>8. Running(d, -1, <<>>)
      <4>1. {-1} \ {-1} = {}
        OBVIOUS
      <4> QED
        BY <3>6, <3>7, <4>1 DEF Running
    <3>9. OnTheWay(d, <<>>)
      BY <2>1, <2>3, <3>8 DEF OnTheWay
    <3>10. out' = d
      BY <2>1, <2>3, <3>2, <3>3, <3>5
    <3> QED
      BY <1>1, <1>3, <3>9, <3>10, GoesOnThus
  <2> QED
    BY <2>2, <2>3
<1> QED
  BY <1>4, <1>5

LEMMA HeardFails ==
  ASSUME Base, Heard, FailChat \/ FailResponses
  PROVE  Heard'
<1>1. /\ UNCHANGED <<req, answer, upstream, tracker, rtracker, gate>> /\ pc = "reading"
      /\ pc' = "done"
  BY DEF FailChat, FailResponses, Handled
<1>2. Failures \subseteq Nat
  BY DEF Failures
<1>3. <<>> \in Seq(Char)
  OBVIOUS
<1>4. ASSUME NEW status \in Failures, out' = <<Event("json", status, <<>>)>>
      PROVE  Heard'
  <2>1. PICK d : d = <<Event("json", status, <<>>)>>
    OBVIOUS
  <2>2. d \in Seq(Events) /\ Ending(d)
    BY <1>2, <1>3, <2>1, JsonEnds
  <2> QED
    BY <1>1, <1>4, <2>1, <2>2, EndsThus
<1>5. PICK t : t = SentText(gate, tracker)
  OBVIOUS
<1>6. OnTheWay(out, t) /\ GoesOn(out)
  BY <1>1, <1>5, OnTheWayIs DEF Heard
<1>7. CASE FailChat
  <2>1. req.api = "chat" /\ \E status \in Failures :
           out' = IF req.stream /\ out # <<>> THEN FailStream(out)
                  ELSE <<Event("json", status, <<>>)>>
    BY <1>7 DEF FailChat, Handled
  <2>2. CASE ~(req.stream /\ out # <<>>)
    BY <1>4, <2>1, <2>2
  <2>3. CASE req.stream /\ out # <<>>
    <3>1. out' = Started(out) \o <<Event("error", 0, <<>>), Event("[DONE]", 0, <<>>)>>
      BY <2>1, <2>3 DEF FailStream
    <3>2. Chatting(out, t)
      BY <1>6, <2>1, <2>3 DEF OnTheWay
    <3>3. PICK es : es = out
      OBVIOUS
    <3>4. PICK kind \in {"finish", "error"} : kind = "error"
      OBVIOUS
    <3>5. Chatting(es, t)
      BY <3>2, <3>3
    <3>6. PICK d : /\ Started(es) \o <<Event(kind, 0, <<>>), Event("[DONE]", 0, <<>>)>>
                        = Append(d, Event("[DONE]", 0, <<>>))
                   /\ Unclosed(d) /\ TextOf(d) = t
                   /\ kind = "error" => GoesOn(d)
      BY ONLY <3>5, StreamEnds
    <3>7. "[DONE]" \in Kinds /\ 0 \in Nat
      BY DEF Kinds
    <3>8. PICK e : e = Event("[DONE]", 0, <<>>)
      OBVIOUS
    <3>9. e \in Events /\ e.kind = "[DONE]"
      BY <3>7, <3>8, MarkIs
    <3>10. GoesOn(d) /\ out' = Append(d, e)
      BY <3>1, <3>3, <3>4, <3>6, <3>8
    <3>11. Append(d, e) \in Seq(Events) /\ Ending(Append(d, e))
      BY <2>1, <3>9, <3>10, EndsShort
    <3> QED
      BY <1>1, <3>10, <3>11, EndsThus
  <2> QED
    BY <2>2, <2>3
<1>8. CASE FailResponses
  <2>1. req.api = "responses" /\ \E status \in Failures :
           out' = IF req.stream THEN Append(out, Event("failed", 0, <<>>))
                  ELSE <<Event("json", status, <<>>)>>
    BY <1>8 DEF FailResponses, Handled
  <2>2. CASE ~req.stream
    BY <1>4, <2>1, <2>2
  <2>3. CASE req.stream
    <3>1. PICK es : es = out
      OBVIOUS
    <3>2. GoesOn(es) /\ OnTheWay(es, t)
      BY <1>6, <3>1
    <3>3. PICK m : Running(es, m, t)
      BY <2>1, <2>3, <3>2 DEF OnTheWay
    <3>4. \E k, i, O : Flow(es, k, i, O)
      BY ONLY <3>3, RunningFlow
    <3>5. "failed" \in Kinds /\ 0 \in Nat
      BY DEF Kinds
    <3>6. PICK e : e = Event("failed", 0, <<>>)
      OBVIOUS
    <3>7. e \in Events /\ e.kind = "failed"
      BY <3>5, <3>6, MarkIs
    <3>8. Append(es, e) \in Seq(Events) /\ Ending(Append(es, e))
      BY <3>2, <3>4, <3>7, EndsShort
    <3>9. out' = Append(es, e)
      BY <2>1, <2>3, <3>1, <3>6
    <3> QED
      BY <1>1, <3>8, <3>9, EndsThus
  <2> QED
    BY <2>2, <2>3
<1> QED
  BY <1>7, <1>8


\* The reply is the one of the texts the model makes of the answer.
LEMMA RepliesAre ==
  ASSUME Base, NEW w \in Replies
  PROVE  /\ w.text \in Seq(Char)
         /\ w.calls \in Nat
         /\ req.kind \in {"text", "media"} => w.text = Whole(FALSE).text
         /\ w.calls # 0 => req.tools /\ w.text = Trim(Unfenced(ResponseText))
<1>1. PICK holds \in BOOLEAN : w = Whole(holds)
  BY DEF Replies
<1>2. FALSE \in BOOLEAN
  OBVIOUS
<1>3. PICK v : v = Whole(FALSE)
  OBVIOUS
<1>4. /\ w.text \in Seq(Char)
      /\ w.calls \in Nat
      /\ w.calls # 0 => req.kind = "text" /\ req.tools
      /\ req.kind = "text" /\ req.tools => w.text = Trim(Unfenced(ResponseText))
      /\ req.kind = "text" /\ ~req.tools => w.text = ResponseText
      /\ req.kind = "media" => w.text = Trim(ResponseText \o <<Blank, Doc>>)
  BY ONLY Base, <1>1, WholeIs, Zenon
<1>5. /\ req.kind = "text" /\ req.tools => v.text = Trim(Unfenced(ResponseText))
      /\ req.kind = "text" /\ ~req.tools => v.text = ResponseText
      /\ req.kind = "media" => v.text = Trim(ResponseText \o <<Blank, Doc>>)
  BY ONLY Base, <1>2, <1>3, WholeIs, Zenon
<1>6. req.tools \in BOOLEAN
  BY RequestIs
<1>7. req.kind \in {"text", "media"} => w.text = v.text
  BY ONLY <1>4, <1>5, <1>6
<1> QED
  BY <1>3, <1>4, <1>7

LEMMA HeardChat ==
  ASSUME Base, Heard, CompleteChat
  PROVE  Heard'
<1>1. /\ UNCHANGED <<req, answer, upstream, tracker, rtracker, gate>> /\ pc = "reading"
      /\ pc' = "done" /\ req.api = "chat"
  BY DEF CompleteChat, Handled
<1>2. PICK w \in Replies :
        out' = IF req.stream THEN ChatEnd(out, w.text, w.calls, Rest(w.text))
               ELSE <<Event("json", 200, w.text)>>
  BY DEF CompleteChat
<1>3. /\ w.text \in Seq(Char) /\ w.calls \in Nat
      /\ req.kind \in {"text", "media"} => w.text = Whole(FALSE).text
  BY RepliesAre
<1>4. CASE ~req.stream
  <2>1. PICK d : d = <<Event("json", 200, w.text)>>
    OBVIOUS
  <2>2. 200 \in Nat
    OBVIOUS
  <2>3. d \in Seq(Events) /\ Ending(d)
    BY <1>3, <2>1, <2>2, JsonEnds
  <2> QED
    BY <1>1, <1>2, <1>4, <2>1, <2>3, EndsThus
<1>5. CASE req.stream
  <2>1. PICK t : t = SentText(gate, tracker)
    OBVIOUS
  <2>2. PICK es : es = out
    OBVIOUS
  <2>3. PICK text : text = w.text
    OBVIOUS
  <2>4. PICK rest : rest = Remaining(text, t)
    OBVIOUS
  <2>5. PICK calls : calls = w.calls
    OBVIOUS
  <2>6. out' = ChatEnd(es, text, calls, rest)
    BY <1>2, <1>5, <2>1, <2>2, <2>3, <2>4, <2>5 DEF Rest
  <2>7. Chatting(es, t)
    BY <1>1, <1>5, <2>1, <2>2 DEF Heard, OnTheWay
  <2>8. t \in Seq(Char) /\ text \in Seq(Char) /\ calls \in Nat /\ rest \in Seq(Char)
    BY <1>3, <2>1, <2>3, <2>4, <2>5, SentTextIs, RemainingIs
  <2>9. Remaining(Reasoning, rtracker) \in Seq(Char)
    BY CleanType, RemainingIs DEF Reasoning, Base, Texts
  <2>22. FinishedAs(es, t, text, calls, rest)
    BY ONLY <2>7, <2>8, <2>9, ChatEnds
  <2>10. PICK d : /\ ChatEnd(es, text, calls, rest) = Append(d, Event("[DONE]", 0, <<>>))
                  /\ Unclosed(d) /\ TextOf(d) = t \o rest
    BY ONLY <2>22 DEF FinishedAs
  <2>11. "[DONE]" \in Kinds /\ 0 \in Nat
    BY DEF Kinds
  <2>12. PICK e : e = Event("[DONE]", 0, <<>>)
    OBVIOUS
  <2>13. e \in Events /\ e.kind = "[DONE]"
    BY <2>11, <2>12, MarkIs
  <2>14. PICK f : f = Append(d, e)
    OBVIOUS
  <2>15. d \in Seq(Events)
    BY <2>10 DEF Unclosed
  <2>16. f \in Seq(Events)
    BY <2>13, <2>14, <2>15, AppendIs
  <2>17. TextOf(f) = t \o rest
    <3>1. ~IsText(e)
      BY <2>13 DEF IsText
    <3> QED
      BY <2>10, <2>13, <2>14, <2>15, <3>1, TextAppend
  <2>18. Closed(f)
    <3>1. e.kind \in Closings /\ e.kind # "json"
      BY <2>13 DEF Closings
    <3> QED
      BY <2>10, <2>13, <2>14, <3>1, EndsWith DEF Closed
  <2>19. SameReply(f)
    <3>1. SameText(t)
      BY <2>1, SameTextIs
    <3>2. req.kind \in {"text", "media"} => rest = Remaining(Whole(FALSE).text, t)
      BY <1>3, <2>3, <2>4
    <3> QED
      BY <1>5, <2>17, <3>1, <3>2 DEF SameText, SameReply
  <2>20. Ending(f)
    BY <1>1, <2>18, <2>19 DEF Ending
  <2>21. out' = f
    BY <2>6, <2>10, <2>12, <2>14
  <2> QED
    BY <1>1, <2>16, <2>20, <2>21, EndsThus
<1> QED
  BY <1>4, <1>5

LEMMA HeardResponses ==
  ASSUME Base, Heard, CompleteResponses
  PROVE  Heard'
<1>1. /\ UNCHANGED <<req, answer, upstream, tracker, rtracker, gate>> /\ pc = "reading"
      /\ pc' = "done" /\ req.api = "responses"
  BY DEF CompleteResponses, Handled
<1>2. PICK w \in Replies :
        out' = IF req.stream THEN ResponsesEnd(out, w.text, w.calls, Rest(w.text))
               ELSE <<Event("json", 200, w.text)>>
  BY DEF CompleteResponses
<1>3. /\ w.text \in Seq(Char) /\ w.calls \in Nat
      /\ req.kind \in {"text", "media"} => w.text = Whole(FALSE).text
      /\ w.calls # 0 => req.tools /\ w.text = Trim(Unfenced(ResponseText))
  BY RepliesAre
<1>4. CASE ~req.stream
  <2>1. PICK d : d = <<Event("json", 200, w.text)>>
    OBVIOUS
  <2>2. 200 \in Nat
    OBVIOUS
  <2>3. d \in Seq(Events) /\ Ending(d)
    BY <1>3, <2>1, <2>2, JsonEnds
  <2> QED
    BY <1>1, <1>2, <1>4, <2>1, <2>3, EndsThus
<1>5. CASE req.stream
  <2>1. PICK t : t = SentText(gate, tracker)
    OBVIOUS
  <2>2. PICK es : es = out
    OBVIOUS
  <2>3. PICK text : text = w.text
    OBVIOUS
  <2>4. PICK rest : rest = Remaining(text, t)
    OBVIOUS
  <2>5. PICK calls : calls = w.calls
    OBVIOUS
  <2>6. out' = ResponsesEnd(es, text, calls, rest)
    BY <1>2, <1>5, <2>1, <2>2, <2>3, <2>4, <2>5 DEF Rest
  <2>7. PICK m : Running(es, m, t) /\ (t = <<>> => m = -1)
    BY <1>1, <1>5, <2>1, <2>2 DEF Heard, OnTheWay
  <2>8. t \in Seq(Char) /\ text \in Seq(Char) /\ calls \in Nat /\ rest \in Seq(Char)
    BY <1>3, <2>1, <2>3, <2>4, <2>5, SentTextIs, RemainingIs
  <2>26. CompletedAs(es, m, t, text, calls, rest)
    BY ONLY <2>7, <2>8, ResponsesEnds
  <2>9. PICK d : /\ ResponsesEnd(es, text, calls, rest) = Append(d, Event("completed", 0, text))
                 /\ GoesOn(d) /\ TextOf(d) = t \o rest
                 /\ \E k, n, O :
                      /\ Flow(d, k, n, O)
                      /\ text # <<>> \/ calls = 0 \/ (m = -1 /\ rest = <<>>) => O = {}
    BY ONLY <2>26 DEF CompletedAs
  <2>10. PICK k, n, O : /\ Flow(d, k, n, O)
                        /\ text # <<>> \/ calls = 0 \/ (m = -1 /\ rest = <<>>) => O = {}
    BY ONLY <2>9
  <2>11. "completed" \in Kinds /\ 0 \in Nat
    BY DEF Kinds
  <2>12. PICK e : e = Event("completed", 0, text)
    OBVIOUS
  <2>13. e \in Events /\ e.kind = "completed"
    BY <2>8, <2>11, <2>12, EventIs
  <2>14. PICK f : f = Append(d, e)
    OBVIOUS
  <2>15. d \in Seq(Events) /\ Unclosed(d)
    BY <2>9, GoesOnUnclosed
  <2>16. f \in Seq(Events)
    BY <2>13, <2>14, <2>15, AppendIs
  <2>17. TextOf(f) = t \o rest
    <3>1. ~IsText(e)
      BY <2>13 DEF IsText
    <3> QED
      BY <2>9, <2>13, <2>14, <2>15, <3>1, TextAppend
  <2>18. Closed(f)
    <3>1. e.kind \in Closings /\ e.kind # "json"
      BY <2>13 DEF Closings
    <3> QED
      BY <2>13, <2>14, <2>15, <3>1, EndsWith DEF Closed
  <2>19. SameReply(f)
    <3>1. SameText(t)
      BY <2>1, SameTextIs
    <3>2. req.kind \in {"text", "media"} => rest = Remaining(Whole(FALSE).text, t)
      BY <1>3, <2>3, <2>4
    <3> QED
      BY <1>5, <2>17, <3>1, <3>2 DEF SameText, SameReply
  <2>20. Flow(f, k, n, O)
    <3>1. /\ e.kind # "output_item.added" /\ e.kind \in Free
          /\ e.kind \notin {"output_item.done", "content_part.added"}
      BY <2>13 DEF Free
    <3> QED
      BY ONLY <2>10, <2>13, <2>14, <3>1, FlowSays
  <2>21. /\ \A i \in DOMAIN f : f[i].kind \notin Free =>
              /\ \E j \in At(f, "output_item.added", f[i].index) : j < i
              /\ \A j \in At(f, "output_item.done", f[i].index) : i <= j
         /\ \A i \in 0 .. NextIndex(f) - 1 : Cardinality(At(f, "output_item.added", i)) = 1
         /\ O = {} => \A i \in 0 .. NextIndex(f) - 1 :
                        Cardinality(At(f, "output_item.done", i)) = 1
    BY ONLY <2>20, FlowOrderly
  \* There may be calls only, and white space that was sent in front of them.
  <2>22. Unchanged /\ (Trim(TextOf(f)) # <<>> \/ TextOf(f) = <<>>) => O = {}
    <3> SUFFICES ASSUME Unchanged, Trim(TextOf(f)) # <<>> \/ TextOf(f) = <<>>,
                        text = <<>>, calls # 0
                 PROVE  m = -1 /\ rest = <<>>
      BY <2>10
    <3>1. rest = <<>>
      BY <2>4, <2>8, RemainingOfNothing
    <3>2. TextOf(f) = t
      BY <2>8, <2>17, <3>1, ConcatEmptySeq
    <3>3. PICK U : U = Unfenced(ResponseText)
      OBVIOUS
    <3>4. req.tools /\ Trim(U) = <<>>
      BY <1>3, <2>3, <2>5, <3>3
    <3>5. U \in Seq(Char) /\ IsPrefix(t, U)
      BY <1>5, <2>1, <3>3, <3>4, SentWithin, ResponseTextIs, GateWithin
    <3>6. IsPrefix(Trim(t), Trim(U))
      BY ONLY <2>8, <3>5, TrimPrefix
    <3>7. Trim(t) = <<>>
      BY <2>8, <3>4, <3>6, TrimType, PrefixOfNothing
    <3>8. t = <<>>
      BY <3>2, <3>7
    <3> QED
      BY <2>7, <3>1, <3>8
  <2>23. Orderly(f)
    BY <2>21, <2>22 DEF Orderly
  <2>24. Ending(f)
    BY <2>18, <2>19, <2>23 DEF Ending
  <2>25. out' = f
    BY <2>6, <2>9, <2>12, <2>14
  <2> QED
    BY <1>1, <2>16, <2>24, <2>25, EndsThus
<1> QED
  BY <1>4, <1>5


LEMMA HeardReasoning ==
  ASSUME Base, Heard, ReadReasoning
  PROVE  Heard'
<1>1. /\ UNCHANGED <<req, answer, frame, drafted, tracker, gate, pc>> /\ pc = "reading"
  BY DEF ReadReasoning
<1>2. PICK n \in Len(thought) + 1 .. Len(answer.thought) :
        out' = SendReasoning(out, IF req.stream /\ req.api = "chat"
                                  THEN NewIn(rtracker, Clean(SubSeq(answer.thought, 1, n)))
                                  ELSE <<>>)
  BY DEF ReadReasoning
<1>3. PICK t : t = SentText(gate, tracker)
  OBVIOUS
<1>4. PICK es : es = out
  OBVIOUS
<1>5. OnTheWay(es, t)
  BY <1>1, <1>3, <1>4 DEF Heard
<1>6. pc' = "reading" /\ UNCHANGED req /\ t = (IF req.tools THEN gate'.sent ELSE tracker')
  BY <1>1, <1>3 DEF SentText
<1>7. CASE ~(req.stream /\ req.api = "chat")
  <2>1. out' = es
    BY <1>2, <1>4, <1>7 DEF SendReasoning
  <2> QED
    BY <1>5, <1>6, <2>1, GoesOnThus
<1>8. CASE req.stream /\ req.api = "chat"
  <2>1. PICK told : told = SubSeq(answer.thought, 1, n)
    OBVIOUS
  <2>2. told \in Seq(Char) /\ rtracker \in Seq(Char)
    <3>1. /\ thought \in Seq(Char) /\ Len(thought) \in Nat /\ rtracker \in Seq(Char)
          /\ answer.thought \in Seq(Char) /\ Len(answer.thought) \in Nat
      BY AnswerIs DEF Base, Texts
    <3>2. n \in 0 .. Len(answer.thought)
      BY <3>1
    <3> QED
      BY <2>1, <3>1, <3>2, FrontIs
  <2>3. PICK new : new = NewIn(rtracker, Clean(told))
    OBVIOUS
  <2>4. new \in Seq(Char)
    BY <2>2, <2>3, CleanType, NewInIs
  <2>5. PICK d : d = SendReasoning(es, new)
    OBVIOUS
  <2>6. out' = d
    BY <1>2, <1>4, <1>8, <2>1, <2>3, <2>5
  <2>7. Chatting(es, t)
    BY <1>5, <1>8 DEF OnTheWay
  <2>8. Chatting(d, t)
    BY ONLY <2>4, <2>5, <2>7, ReasoningIs
  <2>9. OnTheWay(d, t)
    BY <1>8, <2>8 DEF OnTheWay
  <2> QED
    BY <1>6, <2>6, <2>9, GoesOnThus
<1> QED
  BY <1>7, <1>8

\* What the gate has let through is what it let through before, and the rest.
LEMMA HeardReceives ==
  ASSUME Base, Heard, NEW text \in Seq(Char), Receive(text), UNCHANGED <<req, pc>>, pc = "reading"
  PROVE  Heard'
<1>1. PICK new \in Seq(Char) :
        /\ new = (IF req.stream THEN NewIn(tracker, Clean(text)) ELSE <<>>)
        /\ tracker' = tracker \o new
        /\ gate' = (IF req.tools THEN Push(gate, new) ELSE gate)
        /\ out' = SendContent(req.api, out, IF req.tools THEN After(gate'.sent, Len(gate.sent))
                                            ELSE new)
  BY ReceiveIs
<1>2. PICK t : t = SentText(gate, tracker)
  OBVIOUS
<1>3. PICK es : es = out
  OBVIOUS
<1>4. OnTheWay(es, t)
  BY <1>2, <1>3 DEF Heard
<1>5. PICK u : u = (IF req.tools THEN gate'.sent ELSE tracker')
  OBVIOUS
<1>6. PICK sent : sent = (IF req.tools THEN After(gate'.sent, Len(gate.sent)) ELSE new)
  OBVIOUS
<1>7. /\ t \in Seq(Char) /\ (~req.stream => t = <<>>)
      /\ req.stream \in BOOLEAN /\ req.tools \in BOOLEAN /\ req.api \in {"chat", "responses"}
  BY <1>2, SentTextIs, RequestIs
<1>8. sent \in Seq(Char) /\ u = t \o sent
  <2>1. CASE req.tools
    <3>1. PICK h : h = gate'
      OBVIOUS
    <3>2. h = Push(gate, new) /\ gate \in Gates
      BY <1>1, <2>1, <3>1 DEF Base, Gated
    <3>3. h \in Gates /\ IsPrefix(gate.sent, h.sent)
      BY <3>2, PushType
    <3>4. gate.sent \in Seq(Char) /\ h.sent \in Seq(Char)
      BY <3>2, <3>3, GateIs
    <3>5. /\ After(h.sent, Len(gate.sent)) \in Seq(Char)
          /\ gate.sent \o After(h.sent, Len(gate.sent)) = h.sent
      BY <3>3, <3>4, PrefixRest
    <3> QED
      BY <1>2, <1>5, <1>6, <2>1, <3>1, <3>5 DEF SentText
  <2>2. CASE ~req.tools
    BY <1>1, <1>2, <1>5, <1>6, <2>2 DEF SentText
  <2> QED
    BY <1>7, <2>1, <2>2
<1>9. out' = SendContent(req.api, es, sent)
  BY <1>1, <1>3, <1>6
<1>10. PICK d : d = SendContent(req.api, es, sent)
  OBVIOUS
<1>11. OnTheWay(d, u)
  <2>1. CASE ~req.stream
    <3>1. sent = <<>>
      <4>1. u = <<>>
        <5>1. new = <<>>
          BY <1>1, <2>1
        <5>2. tracker \in Seq(Char) /\ tracker = <<>>
          BY <2>1 DEF Base, HandedOn
        <5>3. tracker' = <<>>
          BY <1>1, <5>1, <5>2
        <5>4. req.tools => gate = NewGate
          BY <5>2, NewGateIs DEF Base, Gated
        <5>5. req.tools => gate' = NewGate
          BY <1>1, <5>1, <5>4, NewGateIs
        <5> QED
          BY <1>5, <5>3, <5>5, NewGateIs
      <4> QED
        BY <1>7, <1>8, <2>1, <4>1, ConcatEmptySeq
    <3>2. d = es
      BY <1>10, <3>1 DEF SendContent
    <3> QED
      BY <1>4, <2>1, <3>2 DEF OnTheWay
  <2>2. CASE req.stream /\ req.api = "chat"
    <3>1. Chatting(es, t)
      BY <1>4, <2>2 DEF OnTheWay
    <3>2. d = SendContent("chat", es, sent)
      BY <1>10, <2>2
    <3>3. Chatting(d, u)
      BY ONLY <1>8, <3>1, <3>2, ContentIs
    <3> QED
      BY <2>2, <3>3 DEF OnTheWay
  <2>3. CASE req.stream /\ req.api = "responses"
    <3>1. PICK m : Running(es, m, t) /\ (t = <<>> => m = -1)
      BY <1>4, <2>3 DEF OnTheWay
    <3>2. d = SendContent("responses", es, sent)
      BY <1>10, <2>3
    <3>3. CASE sent = <<>>
      <4>1. d = es
        BY <3>2, <3>3 DEF SendContent
      <4>2. u = t
        BY <1>7, <1>8, <3>3, ConcatEmptySeq
      <4> QED
        BY <1>4, <4>1, <4>2
    <3>4. CASE sent # <<>>
      <4>1. \E n \in Nat : Running(d, n, u)
        BY ONLY <1>8, <3>1, <3>2, <3>4, SendIs
      <4>2. u # <<>>
        BY <1>7, <1>8, <3>4
      <4> QED
        BY <2>3, <4>1, <4>2 DEF OnTheWay
    <3> QED
      BY <3>3, <3>4
  <2> QED
    BY <1>7, <2>1, <2>2, <2>3
<1> QED
  BY <1>5, <1>9, <1>10, <1>11, GoesOnThus

LEMMA HeardText ==
  ASSUME Base, Heard, ReadText \/ ReadDraft
  PROVE  Heard'
<1>1. UNCHANGED <<req, pc>> /\ pc = "reading"
  BY DEF ReadText, ReadDraft
<1>2. CASE ReadText
  <2>1. PICK n \in 1 .. Len(answer.text) : Receive(SubSeq(answer.text, 1, n))
    BY <1>2 DEF ReadText
  <2>2. PICK text : text = SubSeq(answer.text, 1, n)
    OBVIOUS
  <2>3. answer.text \in Seq(Char) /\ n \in 0 .. Len(answer.text)
    BY AnswerIs DEF Base, Texts
  <2>4. text \in Seq(Char) /\ Receive(text)
    BY <2>1, <2>2, <2>3, FrontIs
  <2> QED
    BY <1>1, <2>4, HeardReceives
<1>3. CASE ReadDraft
  <2>1. PICK text : text = answer.draft
    OBVIOUS
  <2>2. text \in Seq(Char) /\ Receive(text)
    BY <1>3, <2>1, AnswerIs DEF ReadDraft, Base, Texts
  <2> QED
    BY <1>1, <2>2, HeardReceives
<1> QED
  BY <1>2, <1>3

\* An attempt is repeated, or nothing happens.
LEMMA HeardStays ==
  ASSUME Base, Heard, Retry \/ UNCHANGED vars
  PROVE  Heard'
<1>1. /\ UNCHANGED <<req, answer, drafted, tracker, rtracker, gate, out, pc>>
      /\ pc = "reading" \/ UNCHANGED vars
  BY DEF Retry, vars
<1>2. CASE pc = "reading"
  <2>1. PICK t : t = SentText(gate, tracker)
    OBVIOUS
  <2>2. PICK es : es = out
    OBVIOUS
  <2>3. OnTheWay(es, t)
    BY <1>2, <2>1, <2>2 DEF Heard
  <2>4. pc' = "reading" /\ out' = es /\ t = (IF req.tools THEN gate'.sent ELSE tracker')
    BY <1>1, <1>2, <2>1, <2>2 DEF SentText
  <2> QED
    BY <1>1, <2>3, <2>4, GoesOnThus
<1>3. CASE pc = "asked" /\ UNCHANGED vars
  BY <1>3 DEF Heard, vars
<1>4. CASE pc = "done" /\ UNCHANGED vars
  <2>1. /\ UNCHANGED <<req, answer, upstream, tracker, rtracker, gate>> /\ pc' = "done"
    BY <1>4 DEF vars, upstream
  <2>2. PICK d : d = out
    OBVIOUS
  <2>3. d \in Seq(Events) /\ Ending(d) /\ out' = d
    BY <1>4, <2>2 DEF Heard, vars
  <2> QED
    BY <2>1, <2>3, EndsThus
<1>5. pc \in {"asked", "reading", "done"}
  BY DEF Base, Texts
<1> QED
  BY <1>1, <1>2, <1>3, <1>4, <1>5

LEMMA NextHeard ==
  ASSUME Base, Heard, [Next]_vars
  PROVE  Heard'
<1>1. CASE RejectChat \/ RejectResponses
  BY <1>1, HeardRejects
<1>2. CASE AcceptChat \/ AcceptResponses
  BY <1>2, HeardAccepts
<1>3. CASE ReadReasoning
  BY <1>3, HeardReasoning
<1>4. CASE ReadText \/ ReadDraft
  BY <1>4, HeardText
<1>5. CASE Retry \/ UNCHANGED vars
  BY <1>5, HeardStays
<1>6. CASE CompleteChat
  BY <1>6, HeardChat
<1>7. CASE CompleteResponses
  BY <1>7, HeardResponses
<1>8. CASE FailChat \/ FailResponses
  BY <1>8, HeardFails
<1> QED
  BY <1>1, <1>2, <1>3, <1>4, <1>5, <1>6, <1>7, <1>8 DEF Next

LEMMA HeardInvariant == Spec => []Heard
<1>1. Init => Heard
  BY DEF Init, Heard
<1>2. Base /\ Heard /\ [Next]_vars => Heard'
  BY NextHeard
<1> QED
  BY <1>1, <1>2, BaseInvariant, PTL DEF Spec

-------------------------------------------------------------------------------
\* What the runs check.

LEMMA HeardTypes ==
  ASSUME Base, Heard
  PROVE  TypeOK
<1>1. gate.inFence \in BOOLEAN
  BY GateIs DEF Base, Gated
<1>2. \A i \in DOMAIN out : out[i].index \in Nat
  <2>1. out \in Seq(Events)
    BY HeardHolds
  <2> SUFFICES ASSUME NEW i \in DOMAIN out PROVE out[i].index \in Nat
    OBVIOUS
  <2>2. out[i] \in Events
    BY <2>1
  <2> QED
    BY <2>2, FieldsAre
<1> QED
  BY <1>1, <1>2 DEF Base, Texts, TypeOK

\* The variables keep their types: what is read of an answer is a beginning of
\* it or its draft, and every event about an item names one by a number.
THEOREM TypeCorrect == Spec => []TypeOK
<1>1. Base /\ Heard => TypeOK
  BY HeardTypes
<1> QED
  BY <1>1, BaseInvariant, HeardInvariant, PTL

\* The client is told once, and by the last thing it receives, that its answer
\* has ended, and of an error by a status only if nothing was sent before, for
\* any answer, cut and broken off anywhere (handleChatCompletions,
\* handleResponses and their writers).
THEOREM ToldOfTheEnd == Spec => []EndsOnce
<1>1. Base /\ Heard => EndsOnce
  BY HeardHolds
<1> QED
  BY <1>1, BaseInvariant, HeardInvariant, PTL

\* Every item of a responses stream is declared once, before anything is said
\* of it, and done once, after everything, for any answer with any number of
\* calls in it (handleResponses).
THEOREM ItemsInOrder == Spec => []ItemLifecycle
<1>1. Base /\ Heard => ItemLifecycle
  BY HeardHolds
<1> QED
  BY <1>1, BaseInvariant, HeardInvariant, PTL

\* The client of a stream ends up with the text of the reply in one piece, for
\* any text, with any number of fences, whole or half, cut anywhere
\* (deltaTracker, toolFenceGate, remainingOf and parseToolCalls together).
THEOREM StreamIsTheReply == Spec => []StreamEqualsReply
<1>1. Base /\ Heard => StreamEqualsReply
  BY HeardHolds
<1> QED
  BY <1>1, BaseInvariant, HeardInvariant, PTL

===============================================================================
