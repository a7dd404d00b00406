-------------------------- MODULE KeystrokesProofs --------------------------
(***************************************************************************)
(* Theorems about Keystrokes, for data of every length: where SendPaced     *)
(* cuts the bytes, against the grammar, and that it sends all of them.     *)
(***************************************************************************)
EXTENDS Keystrokes, SequenceTheorems, WellFoundedInduction, TLAPS

-----------------------------------------------------------------------------
(* The least number of a set, and induction over a set of numbers.         *)

(* A nonempty set of naturals has a least element. *)
LEMMA Smallest == ASSUME NEW S \in SUBSET Nat, S # {} PROVE \E m \in S : \A n \in S : m <= n
<1>1. PICK m \in S : \A n \in S : ~(<<n, m>> \in OpToRel(<, Nat))
  BY NatLessThanWellFounded, WFMin
<1>2. \A n \in S : ~(n < m)
  BY <1>1 DEF OpToRel
<1> QED
  BY <1>2

(* Least finds it. *)
LEMMA LeastIs ==
    ASSUME NEW S \in SUBSET Nat, S # {}
    PROVE  Least(S) \in S /\ \A n \in S : Least(S) <= n
BY Smallest DEF Least

(* Induction, as a fact about a set. *)
LEMMA Climb ==
    ASSUME NEW S, 0 \in S, \A n \in Nat : n \in S => n + 1 \in S
    PROVE  Nat \subseteq S
<1> SUFFICES ASSUME Nat \ S # {} PROVE FALSE
    OBVIOUS
<1>1. PICK m \in Nat \ S : \A n \in Nat \ S : m <= n
  BY Smallest
<1>2. m # 0 /\ m - 1 \in Nat /\ m - 1 \in S /\ m = (m - 1) + 1
  BY <1>1
<1> QED
  BY <1>1, <1>2

-----------------------------------------------------------------------------
(* Package keys yields bytes.                                              *)

(* A key stands for some bytes. *)
LEMMA SpecialType == ASSUME NEW k \in Key PROVE parseSpecial(k) \in Seq(Byte)
<1>1. /\ \A a \in Byte : <<a>> \in Seq(Byte)
      /\ \A a, b \in Byte : <<a, b>> \in Seq(Byte)
      /\ \A a, b, c \in Byte : <<a, b, c>> \in Seq(Byte)
      /\ \A a, b, c, d \in Byte : <<a, b, c, d>> \in Seq(Byte)
      /\ <<>> \in Seq(Byte)
  OBVIOUS
<1>2. /\ "ESC" \in Byte /\ "[" \in Byte /\ "O" \in Byte /\ "]" \in Byte /\ "\\" \in Byte
      /\ "fin" \in Byte /\ "par" \in Byte /\ "lead" \in Byte /\ "cont" \in Byte
  BY DEF Byte
<1> HIDE DEF Byte
<1>3. \A c \in Bases : c \in {"letter", "O", "[", "]", "\\", "sign", "rune"} \cup Named \cup {"bogus"}
  BY DEF Bases, Letters
<1>4. \A c \in {"letter", "O", "[", "]", "\\", "sign", "rune"} : literal(c) \in Seq(Byte)
  BY <1>1, <1>2 DEF literal
<1>5. \A c \in Named : named[c] \in Seq(Byte)
  <2>1. /\ named["esc"] = <<"ESC">> /\ named["tab"] = <<"par">>
        /\ named["arrow"] = <<"ESC", "[", "fin">>
        /\ named["page"] = <<"ESC", "[", "par", "fin">> /\ named["F1"] = <<"ESC", "O", "fin">>
    BY DEF named
  <2>2. /\ <<"ESC", "[", "fin">> \in Seq(Byte) /\ <<"ESC", "[", "par", "fin">> \in Seq(Byte)
        /\ <<"ESC", "O", "fin">> \in Seq(Byte)
    BY <1>1, <1>2
  <2>3. <<"ESC">> \in Seq(Byte) /\ <<"par">> \in Seq(Byte)
    BY <1>1, <1>2
  <2> QED
    BY <2>1, <2>2, <2>3, Zenon DEF Named
<1>6. ASSUME NEW c \in Bases, NEW s \in BOOLEAN PROVE resolveBase(c, s) \in Seq(Byte)
  <2> USE <1>1, <1>2, <1>3, <1>4, <1>5
  <2>1. CASE c = "bogus"
    BY <2>1 DEF resolveBase
  <2>2. CASE c # "bogus" /\ s
    BY <2>2 DEF resolveBase, Letters, Named
  <2>3. CASE c # "bogus" /\ ~s
    BY <2>3 DEF resolveBase
  <2> QED
    BY <2>1, <2>2, <2>3
<1>7. resolveBase(k.base, k.shift) \in Seq(Byte)
  BY <1>6 DEF Key
<1> DEFINE key == IF ~k.ctrl THEN resolveBase(k.base, k.shift)
                  ELSE IF resolveBase(k.base, k.shift) # <<>> /\ k.base \in Letters
                       THEN <<"par">> ELSE <<>>
<1>8. key \in Seq(Byte)
  BY <1>1, <1>2, <1>7
<1>9. parseSpecial(k) = IF k.meta /\ key # <<>> THEN <<"ESC">> \o key ELSE key
  BY DEF parseSpecial
<1>10. <<"ESC">> \in Seq(Byte)
  BY <1>1, <1>2
<1> HIDE DEF key
<1> QED
  BY <1>8, <1>9, <1>10, ConcatProperties

(* The bytes of all keys are those of each, one after the other: what the    *)
(* recursion computes, position by position.                               *)
LEMMA ParsePrefixes ==
    ASSUME NEW keys \in Seq(Key)
    PROVE  \E f \in [0..Len(keys) -> Seq(Byte)] :
              /\ f[0] = <<>> /\ ParseAll(keys) = f[Len(keys)]
              /\ \A n \in 1..Len(keys) : f[n] = f[n - 1] \o parseSpecial(keys[n])
<1> DEFINE L == Len(keys)
           sp == [n \in 1..L |-> parseSpecial(keys[n])]
           Good(f, m) == /\ f \in [0..m -> Seq(Byte)] /\ f[0] = <<>>
                         /\ \A n \in 1..m : f[n] = f[n - 1] \o sp[n]
           Has(m) == \E f : Good(f, m)
<1>0. L \in Nat /\ sp \in [1..L -> Seq(Byte)] /\ <<>> \in Seq(Byte)
  BY SpecialType
<1>00. \A n \in 1..L : sp[n] = parseSpecial(keys[n])
  OBVIOUS
<1> HIDE DEF sp, L
<1>1. Has(0)
  <2> DEFINE f == [n \in 0..0 |-> <<>>]
  <2>1. Good(f, 0)
    BY <1>0
  <2> HIDE DEF f
  <2> QED
    BY <2>1
<1>2. ASSUME NEW m \in Nat, m + 1 <= L, Has(m) PROVE Has(m + 1)
  <2>1. PICK f : Good(f, m)
    BY <1>2
  <2> DEFINE t == f[m] \o sp[m + 1]
             g == [n \in 0..m + 1 |-> IF n = m + 1 THEN t ELSE f[n]]
  <2>2. t \in Seq(Byte)
    <3>1. f[m] \in Seq(Byte) /\ sp[m + 1] \in Seq(Byte)
      BY <1>0, <1>2, <2>1
    <3> QED
      BY <3>1, ConcatProperties
  <2>3. g[m + 1] = f[m] \o sp[m + 1]
    OBVIOUS
  <2> HIDE DEF t
  <2>4. g \in [0..m + 1 -> Seq(Byte)] /\ g[0] = <<>> /\ \A n \in 0..m : g[n] = f[n]
    BY <2>1, <2>2
  <2>5. \A n \in 1..m + 1 : g[n] = g[n - 1] \o sp[n]
    <3> HIDE DEF g
    <3> DEFINE Eq(n) == g[n] = g[n - 1] \o sp[n]
    <3>1. (m + 1) - 1 = m /\ g[m] = f[m]
      BY <2>4
    <3>2. Eq(m + 1)
      BY <2>3, <3>1
    <3>3. ASSUME NEW n \in 1..m PROVE Eq(n)
      <4>1. g[n] = f[n] /\ g[n - 1] = f[n - 1]
        BY <2>4
      <4>2. f[n] = f[n - 1] \o sp[n]
        BY <2>1
      <4> QED
        BY <4>1, <4>2
    <3> HIDE DEF Eq
    <3>4. \A n \in 1..m + 1 : Eq(n)
      BY <3>2, <3>3
    <3> QED
      BY <3>4 DEF Eq
  <2>6. Good(g, m + 1)
    BY <2>4, <2>5
  <2> QED
    BY <2>6
<1>3. Has(L)
  <2> HIDE DEF Has
  <2> DEFINE S == {m \in Nat : m <= L => Has(m)}
  <2>1. 0 \in S
    BY <1>1
  <2>2. \A m \in Nat : m \in S => m + 1 \in S
    BY <1>0, <1>2
  <2>3. Nat \subseteq S
    <3> HIDE DEF S
    <3> QED
      BY <2>1, <2>2, Climb
  <2> QED
    BY <1>0, <2>3
<1>4. PICK f : Good(f, L)
  BY <1>3
<1> DEFINE Rec(g) == g = [n \in 0..L |-> IF n = 0 THEN <<>> ELSE g[n - 1] \o parseSpecial(keys[n])]
           up == CHOOSE g : Rec(g)
<1>5. Rec(f)
  <2> DEFINE h == [n \in 0..L |-> IF n = 0 THEN <<>> ELSE f[n - 1] \o parseSpecial(keys[n])]
  <2>1. ASSUME NEW n \in 0..L PROVE f[n] = h[n]
    <3>1. CASE n = 0
      BY <1>4, <3>1
    <3>2. CASE n # 0
      <4>1. n \in 1..L
        BY <1>0, <3>2
      <4> QED
        BY <1>00, <1>4, <4>1
    <3> QED
      BY <3>1, <3>2
  <2>2. f = [n \in 0..L |-> f[n]]
    BY <1>4
  <2> QED
    BY <2>1, <2>2
<1>6. Rec(up)
  BY <1>5
<1>7. ParseAll(keys) = up[L]
  BY DEF ParseAll, L
<1>8. up = f
  <2> HIDE DEF up
  <2>1. up = [n \in 0..L |-> up[n]] /\ up[0] = <<>>
        /\ \A n \in 1..L : up[n] = up[n - 1] \o sp[n]
    BY <1>0, <1>00, <1>6
  <2> HIDE DEF Rec
  <2> DEFINE S == {n \in Nat : n <= L => up[n] = f[n]}
  <2>2. 0 \in S
    BY <1>4, <2>1
  <2>3. ASSUME NEW n \in Nat, n \in S PROVE n + 1 \in S
    <3> SUFFICES ASSUME n + 1 <= L PROVE up[n + 1] = f[n + 1]
      OBVIOUS
    <3>1. n + 1 \in 1..L /\ (n + 1) - 1 = n /\ up[n] = f[n]
      BY <1>0, <2>3
    <3> QED
      BY <1>4, <2>1, <3>1
  <2>4. Nat \subseteq S
    <3> HIDE DEF S
    <3> QED
      BY <2>2, <2>3, Climb
  <2>5. \A n \in 0..L : up[n] = f[n]
    BY <1>0, <2>4
  <2>6. f = [n \in 0..L |-> f[n]]
    BY <1>4
  <2> QED
    BY <2>1, <2>5, <2>6
<1> HIDE DEF up
<1> QED
  BY <1>00, <1>4, <1>7, <1>8 DEF L

-----------------------------------------------------------------------------
(* Where a keystroke ends.                                                 *)

(* A run of the bytes. *)
LEMMA Slice ==
    ASSUME NEW b \in Seq(Byte), NEW s \in 1..Len(b), NEW e \in s + 1..Len(b) + 1
    PROVE  /\ SubSeq(b, s, e - 1) \in Seq(Byte) /\ Len(SubSeq(b, s, e - 1)) = e - s
           /\ \A k \in 1..e - s : SubSeq(b, s, e - 1)[k] = b[s + k - 1]
<1>1. s \in Int /\ e - 1 \in Int /\ (\A k \in s..e - 1 : b[k] \in Byte)
      /\ s <= e - 1 /\ (e - 1) - s + 1 = e - s
  BY ElementOfSeq
<1>2. /\ SubSeq(b, s, e - 1) \in Seq(Byte)
      /\ Len(SubSeq(b, s, e - 1)) = IF s <= e - 1 THEN (e - 1) - s + 1 ELSE 0
      /\ \A k \in 1..(e - 1) - s + 1 : SubSeq(b, s, e - 1)[k] = b[s + k - 1]
  BY <1>1, SubSeqProperties
<1> QED
  BY <1>1, <1>2

(* A beginning of a run. *)
LEMMA Prefix ==
    ASSUME NEW w \in Seq(Byte), NEW n \in 1..Len(w)
    PROVE  /\ Len(SubSeq(w, 1, n)) = n
           /\ \A k \in 1..n : SubSeq(w, 1, n)[k] = w[k]
<1>1. 1 \in 1..Len(w) /\ n + 1 \in 1 + 1..Len(w) + 1 /\ (n + 1) - 1 = n
      /\ \A k \in 1..n : 1 + k - 1 = k
  OBVIOUS
<1> QED
  BY <1>1, Slice

(* A run that begins with ESC is no character, and what it is by its second  *)
(* byte it is not by another.                                              *)
LEMMA NotYet ==
    ASSUME NEW v, Len(v) \in Nat \ {0}, v[1] = "ESC",
           Len(v) >= 2 => \/ v[2] = "[" /\ (Len(v) >= 3 => v[Len(v)] \notin Final)
                          \/ v[2] = "O" /\ Len(v) = 2
                          \/ v[2] = "]" /\ (Len(v) >= 3 => ~Stops(v, Len(v)))
    PROVE  ~IsKeystroke(v)
<1>1. ~IsCSI(v)
  BY DEF IsCSI
<1>2. ~IsSS3(v)
  BY DEF IsSS3
<1>3. ~IsOSC(v)
  BY DEF IsOSC
<1>4. ~IsAlt(v)
  BY DEF IsAlt
<1>5. v # <<"lead", "cont">>
  OBVIOUS
<1>6. ~IsChar(v)
  BY <1>5 DEF IsChar
<1> QED
  BY <1>1, <1>2, <1>3, <1>4, <1>6 DEF IsKeystroke

(* escapeSeqEnd, case by case: the end is within the data, and either the    *)
(* sequence it has passed over is one of the grammar, or it is the end of  *)
(* the data and no beginning of what is there is.                          *)
Whole(b, s, e) ==
    /\ e \in s + 1..Len(b) + 1
    /\ \/ IsKeystroke(SubSeq(b, s, e - 1))
       \/ IsTruncated(SubSeq(b, s, e - 1)) /\ e = Len(b) + 1

(* ESC [ ... *)
LEMMA WholeCSI ==
    ASSUME NEW b \in Seq(Byte), NEW s \in 1..Len(b), s < Len(b), b[s] = "ESC", b[s + 1] = "["
    PROVE  Whole(b, s, escapeSeqEnd(b, s))
<1> DEFINE C == {k \in s + 2..Len(b) : b[k] \in Final}
           e == IF C = {} THEN Len(b) + 1 ELSE Least(C) + 1
           w == SubSeq(b, s, e - 1)
<1>0. Len(b) \in Nat
  OBVIOUS
<1>1. escapeSeqEnd(b, s) = e
  BY DEF escapeSeqEnd
<1>2. C \in SUBSET Nat
  OBVIOUS
<1>3. CASE C = {}
  <2>0. \A k \in s + 2..Len(b) : b[k] \notin Final
    BY <1>3
  <2> HIDE DEF C
  <2>1. e = Len(b) + 1 /\ e \in s + 1..Len(b) + 1
    BY <1>3
  <2> HIDE DEF e
  <2>2. w \in Seq(Byte) /\ Len(w) = e - s /\ \A k \in 1..e - s : w[k] = b[s + k - 1]
    BY <2>1, Slice
  <2> HIDE DEF w
  <2>3. Len(w) \in Nat /\ Len(w) >= 2 /\ w[1] = "ESC" /\ w[2] = "["
    <3>1. 1 \in 1..e - s /\ 2 \in 1..e - s /\ s + 1 - 1 = s /\ s + 2 - 1 = s + 1
          /\ e - s \in Nat /\ e - s >= 2
      BY <1>0, <2>1
    <3>2. w[1] = b[s + 1 - 1] /\ w[2] = b[s + 2 - 1]
      BY <2>2, <3>1
    <3> QED
      BY <2>2, <3>1, <3>2
  <2>4. ASSUME NEW k \in 3..Len(w) PROVE w[k] \notin Final
    <3>1. w[k] = b[s + k - 1] /\ s + k - 1 \in s + 2..Len(b)
      BY <1>0, <2>1, <2>2
    <3> QED
      BY <2>0, <3>1
  <2>5. ASSUME NEW n \in 1..Len(w) PROVE ~IsKeystroke(SubSeq(w, 1, n))
    <3> DEFINE v == SubSeq(w, 1, n)
    <3>1. Len(v) = n /\ \A k \in 1..n : v[k] = w[k]
      BY <2>2, Prefix
    <3> HIDE DEF v
    <3>2. v[1] = "ESC" /\ (n >= 2 => v[2] = "[") /\ (n >= 3 => v[n] \notin Final)
      BY <2>3, <2>4, <3>1
    <3>3. ~IsKeystroke(v)
      BY <2>3, <3>1, <3>2, NotYet
    <3> QED
      BY <3>3 DEF v
  <2>6. w # <<>>
    BY <2>3
  <2> QED
    BY <1>1, <2>1, <2>3, <2>5, <2>6 DEF Whole, IsTruncated, w
<1>4. CASE C # {}
  <2> DEFINE l == Least(C)
  <2>1. l \in C /\ \A k \in C : l <= k
    BY <1>2, <1>4, LeastIs
  <2> HIDE DEF l
  <2>2. l \in s + 2..Len(b) /\ b[l] \in Final /\ \A k \in s + 2..l - 1 : b[k] \notin Final
    BY <2>1
  <2> HIDE DEF C
  <2>3. e = l + 1
    BY <1>4 DEF l
  <2> HIDE DEF e
  <2>4. e \in s + 1..Len(b) + 1
    BY <1>0, <2>2, <2>3
  <2>5. Len(w) = e - s /\ \A k \in 1..e - s : w[k] = b[s + k - 1]
    BY <2>4, Slice
  <2> HIDE DEF w
  <2>6. IsCSI(w)
    <3>1. Len(w) >= 3 /\ w[1] = "ESC" /\ w[2] = "[" /\ w[Len(w)] = b[l]
      <4>1. /\ 1 \in 1..e - s /\ 2 \in 1..e - s /\ e - s \in 1..e - s /\ e - s >= 3
            /\ s + 1 - 1 = s /\ s + 2 - 1 = s + 1 /\ s + (e - s) - 1 = l
        BY <1>0, <2>2, <2>3
      <4>2. w[1] = b[s + 1 - 1] /\ w[2] = b[s + 2 - 1] /\ w[e - s] = b[s + (e - s) - 1]
        BY <2>5, <4>1
      <4> QED
        BY <2>5, <4>1, <4>2
    <3>2. ASSUME NEW k \in 3..Len(w) - 1 PROVE w[k] \notin Final
      <4>1. w[k] = b[s + k - 1] /\ s + k - 1 \in s + 2..l - 1
        BY <1>0, <2>2, <2>3, <2>5
      <4> QED
        BY <2>2, <4>1
    <3> QED
      BY <2>2, <3>1, <3>2 DEF IsCSI
  <2> QED
    BY <1>1, <2>4, <2>6 DEF Whole, IsKeystroke, w
<1> QED
  BY <1>3, <1>4

(* ESC O and one byte. *)
LEMMA WholeSS3 ==
    ASSUME NEW b \in Seq(Byte), NEW s \in 1..Len(b), s < Len(b), b[s] = "ESC", b[s + 1] = "O"
    PROVE  Whole(b, s, escapeSeqEnd(b, s))
<1> DEFINE e == IF s + 2 <= Len(b) THEN s + 3 ELSE s + 2
           w == SubSeq(b, s, e - 1)
<1>1. escapeSeqEnd(b, s) = e /\ e \in s + 1..Len(b) + 1
  BY DEF escapeSeqEnd
<1>2. \/ s + 2 <= Len(b) /\ e - s = 3
      \/ s + 2 > Len(b) /\ e - s = 2 /\ e = Len(b) + 1
  OBVIOUS
<1> HIDE DEF e
<1>3. w \in Seq(Byte) /\ Len(w) = e - s /\ \A k \in 1..e - s : w[k] = b[s + k - 1]
  BY <1>1, Slice
<1> HIDE DEF w
<1>4. w[1] = "ESC" /\ w[2] = "O"
  BY <1>2, <1>3
<1>5. CASE s + 2 <= Len(b)
  <2>1. IsSS3(w)
    BY <1>2, <1>3, <1>4, <1>5 DEF IsSS3
  <2> QED
    BY <1>1, <2>1 DEF Whole, IsKeystroke, w
<1>6. CASE s + 2 > Len(b)
  <2>1. Len(w) = 2 /\ e = Len(b) + 1 /\ w # <<>>
    BY <1>2, <1>3, <1>6
  <2>2. ASSUME NEW n \in 1..Len(w) PROVE ~IsKeystroke(SubSeq(w, 1, n))
    <3> DEFINE v == SubSeq(w, 1, n)
    <3>1. Len(v) = n /\ \A k \in 1..n : v[k] = w[k]
      BY <1>3, Prefix
    <3> HIDE DEF v
    <3>2. n \in {1, 2} /\ v[1] = "ESC" /\ (n = 2 => v[2] = "O")
      BY <1>4, <2>1, <3>1
    <3>3. Len(v) \in Nat \ {0} /\ (Len(v) >= 2 => v[2] = "O" /\ Len(v) = 2)
      BY <3>1, <3>2
    <3>4. ~IsKeystroke(v)
      BY <3>2, <3>3, NotYet
    <3> QED
      BY <3>4 DEF v
  <2> QED
    BY <1>1, <1>4, <2>1, <2>2 DEF Whole, IsTruncated, w
<1> QED
  BY <1>5, <1>6

(* Where the data have neither BEL nor ESC \, no string ends.               *)
LEMMA NoStop ==
    ASSUME NEW b \in Seq(Byte), NEW s \in Nat, NEW m \in Nat,
           \A p \in s + 2..m : b[p] # "BEL",
           \A p \in s + 2..m : p < m => ~(b[p] = "ESC" /\ b[p + 1] = "\\"),
           NEW w, NEW k \in Nat, 3 <= k, s + k - 1 <= m,
           \A j \in 1..k : w[j] = b[s + j - 1]
    PROVE  ~Stops(w, k)
<1>1. /\ k \in 1..k /\ s + k - 1 \in s + 2..m
      /\ k >= 4 => /\ k - 1 \in 1..k /\ s + (k - 1) - 1 \in s + 2..m
                   /\ s + (k - 1) - 1 < m /\ (s + (k - 1) - 1) + 1 = s + k - 1
  OBVIOUS
<1>2. w[k] = b[s + k - 1] /\ w[k] # "BEL"
  BY <1>1
<1>3. ASSUME k >= 4 PROVE ~(w[k] = "\\" /\ w[k - 1] = "ESC")
  <2>1. w[k - 1] = b[s + (k - 1) - 1]
    BY <1>1, <1>3
  <2>2. ~(b[s + (k - 1) - 1] = "ESC" /\ b[(s + (k - 1) - 1) + 1] = "\\")
    BY <1>1, <1>3
  <2> QED
    BY <1>1, <1>2, <1>3, <2>1, <2>2
<1> QED
  BY <1>2, <1>3 DEF Stops

(* ESC ] ... *)
LEMMA WholeOSC ==
    ASSUME NEW b \in Seq(Byte), NEW s \in 1..Len(b), s < Len(b), b[s] = "ESC", b[s + 1] = "]"
    PROVE  Whole(b, s, escapeSeqEnd(b, s))
<1> DEFINE E(k) == b[k] = "BEL" \/ (b[k] = "ESC" /\ k < Len(b) /\ b[k + 1] = "\\")
           C == {k \in s + 2..Len(b) : E(k)}
           l == Least(C)
           e == IF C = {} THEN Len(b) + 1 ELSE l + (IF b[l] = "BEL" THEN 1 ELSE 2)
           w == SubSeq(b, s, e - 1)
<1>0. Len(b) \in Nat
  OBVIOUS
<1>1. escapeSeqEnd(b, s) = e
  BY DEF escapeSeqEnd
<1>2. C \in SUBSET Nat
  OBVIOUS
<1>3. CASE C = {}
  <2>0. /\ \A k \in s + 2..Len(b) : b[k] # "BEL"
        /\ \A k \in s + 2..Len(b) : k < Len(b) => ~(b[k] = "ESC" /\ b[k + 1] = "\\")
    BY <1>3
  <2> HIDE DEF C, l
  <2>1. e = Len(b) + 1 /\ e \in s + 1..Len(b) + 1
    BY <1>3
  <2> HIDE DEF e
  <2>2. w \in Seq(Byte) /\ Len(w) = e - s /\ \A k \in 1..e - s : w[k] = b[s + k - 1]
    BY <2>1, Slice
  <2> HIDE DEF w
  <2>3. Len(w) \in Nat /\ Len(w) >= 2 /\ w[1] = "ESC" /\ w[2] = "]"
    <3>1. 1 \in 1..e - s /\ 2 \in 1..e - s /\ s + 1 - 1 = s /\ s + 2 - 1 = s + 1
          /\ e - s \in Nat /\ e - s >= 2
      BY <1>0, <2>1
    <3>2. w[1] = b[s + 1 - 1] /\ w[2] = b[s + 2 - 1]
      BY <2>2, <3>1
    <3> QED
      BY <2>2, <3>1, <3>2
  <2>4. ASSUME NEW n \in 1..Len(w) PROVE ~IsKeystroke(SubSeq(w, 1, n))
    <3> DEFINE v == SubSeq(w, 1, n)
    <3>1. Len(v) = n /\ \A k \in 1..n : v[k] = w[k]
      BY <2>2, Prefix
    <3>2. n \in Nat /\ s \in Nat /\ s + n - 1 <= Len(b) /\ \A k \in 1..n : v[k] = b[s + k - 1]
      BY <1>0, <2>1, <2>2, <3>1
    <3> HIDE DEF v
    <3>3. n >= 3 => ~Stops(v, n)
      BY <1>0, <2>0, <3>2, NoStop
    <3>4. Len(v) \in Nat \ {0} /\ v[1] = "ESC" /\ (n >= 2 => v[2] = "]")
      BY <2>3, <3>1
    <3>5. ~IsKeystroke(v)
      BY <3>1, <3>3, <3>4, NotYet
    <3> QED
      BY <3>5 DEF v
  <2>5. w # <<>>
    BY <2>3
  <2> QED
    BY <1>1, <2>1, <2>3, <2>4, <2>5 DEF Whole, IsTruncated, w
<1>4. CASE C # {}
  <2>1. l \in C /\ \A k \in C : l <= k
    BY <1>2, <1>4, LeastIs
  <2> HIDE DEF l
  <2>2. /\ l \in s + 2..Len(b) /\ E(l)
        /\ \A k \in s + 2..l - 1 : ~E(k)
    BY <2>1
  <2> HIDE DEF C
  <2>3. \/ e = l + 1 /\ b[l] = "BEL"
        \/ e = l + 2 /\ b[l] = "ESC" /\ l < Len(b) /\ b[l + 1] = "\\"
    BY <1>4, <2>2
  <2>4. /\ \A k \in s + 2..l - 1 : b[k] # "BEL"
        /\ \A k \in s + 2..l - 1 : ~(b[k] = "ESC" /\ b[k + 1] = "\\")
    BY <2>2
  <2> HIDE DEF e, E
  <2>5. e \in s + 1..Len(b) + 1
    BY <1>0, <2>2, <2>3
  <2>6. Len(w) = e - s /\ \A k \in 1..e - s : w[k] = b[s + k - 1]
    BY <2>5, Slice
  <2> HIDE DEF w
  <2>7. Len(w) \in Nat /\ Len(w) >= 3 /\ w[1] = "ESC" /\ w[2] = "]"
    <3>1. 1 \in 1..e - s /\ 2 \in 1..e - s /\ s + 1 - 1 = s /\ s + 2 - 1 = s + 1
          /\ e - s \in Nat /\ e - s >= 3
      BY <1>0, <2>2, <2>3
    <3>2. w[1] = b[s + 1 - 1] /\ w[2] = b[s + 2 - 1]
      BY <2>6, <3>1
    <3> QED
      BY <2>6, <3>1, <3>2
  <2>8. Stops(w, Len(w))
    <3>1. CASE e = l + 1 /\ b[l] = "BEL"
      <4>1. e - s \in 1..e - s /\ s + (e - s) - 1 = l
        BY <2>2, <3>1
      <4> QED
        BY <2>6, <3>1, <4>1 DEF Stops
    <3>2. CASE e = l + 2 /\ b[l] = "ESC" /\ b[l + 1] = "\\"
      <4>1. /\ e - s \in 1..e - s /\ s + (e - s) - 1 = l + 1 /\ e - s >= 4
            /\ (e - s) - 1 \in 1..e - s /\ s + ((e - s) - 1) - 1 = l
        BY <2>2, <3>2
      <4>2. w[e - s] = b[s + (e - s) - 1] /\ w[(e - s) - 1] = b[s + ((e - s) - 1) - 1]
        BY <2>6, <4>1
      <4> QED
        BY <2>6, <3>2, <4>1, <4>2 DEF Stops
    <3> QED
      BY <2>3, <3>1, <3>2
  <2>9. ASSUME NEW k \in 3..Len(w) - 1 PROVE ~Stops(w, k)
    <3>1. /\ k \in Nat /\ s \in Nat /\ l \in Nat /\ 3 <= k /\ l - 1 \in Nat
          /\ \A j \in 1..k : j \in 1..e - s
      BY <1>0, <2>2, <2>3, <2>6
    <3>2. \A j \in 1..k : w[j] = b[s + j - 1]
      BY <2>6, <3>1
    <3>3. CASE e = l + 1
      <4>1. s + k - 1 <= l - 1
        BY <2>2, <2>6, <3>3
      <4> QED
        BY <2>4, <3>1, <3>2, <4>1, NoStop
    <3>4. CASE e = l + 2 /\ b[l] = "ESC"
      <4>1. s + k - 1 <= l /\ \A p \in s + 2..l : p = l \/ p \in s + 2..l - 1
        BY <2>2, <2>6, <3>4
      <4>2. /\ \A p \in s + 2..l : b[p] # "BEL"
            /\ \A p \in s + 2..l : p < l => ~(b[p] = "ESC" /\ b[p + 1] = "\\")
        BY <2>2, <2>4, <3>4, <4>1
      <4> QED
        BY <3>1, <3>2, <4>1, <4>2, NoStop
    <3> QED
      BY <2>3, <3>3, <3>4
  <2>10. IsOSC(w)
    BY <2>7, <2>8, <2>9 DEF IsOSC
  <2> QED
    BY <1>1, <2>5, <2>10 DEF Whole, IsKeystroke, w
<1> QED
  BY <1>3, <1>4

(* An ESC that is the last byte, or is followed by any other byte. *)
LEMMA WholeAlt ==
    ASSUME NEW b \in Seq(Byte), NEW s \in 1..Len(b), b[s] = "ESC",
           s < Len(b) => b[s + 1] \notin {"[", "O", "]"}
    PROVE  Whole(b, s, escapeSeqEnd(b, s))
<1>0. Len(b) \in Nat
  OBVIOUS
<1>1. CASE s = Len(b)
  <2> DEFINE w == SubSeq(b, s, s + 1 - 1)
  <2>1. escapeSeqEnd(b, s) = s + 1 /\ s + 1 \in s + 1..Len(b) + 1
    BY <1>0, <1>1 DEF escapeSeqEnd
  <2>2. w \in Seq(Byte) /\ Len(w) = 1 /\ w[1] = "ESC"
    <3> DEFINE e == s + 1
    <3>1. e \in s + 1..Len(b) + 1 /\ e - s = 1 /\ 1 \in 1..1 /\ s + 1 - 1 = s
      BY <1>0, <2>1
    <3>2. w = SubSeq(b, s, e - 1)
      OBVIOUS
    <3> HIDE DEF e, w
    <3>3. w \in Seq(Byte) /\ Len(w) = e - s /\ \A k \in 1..e - s : w[k] = b[s + k - 1]
      BY <3>1, <3>2, Slice
    <3>4. w[1] = b[s + 1 - 1]
      BY <3>1, <3>3
    <3> QED
      BY <3>1, <3>3, <3>4
  <2> HIDE DEF w
  <2>3. ASSUME NEW n \in 1..Len(w) PROVE ~IsKeystroke(SubSeq(w, 1, n))
    <3> DEFINE v == SubSeq(w, 1, n)
    <3>1. n = 1 /\ Len(v) = 1 /\ v[1] = "ESC"
      BY <2>2, Prefix
    <3> HIDE DEF v
    <3>2. ~IsKeystroke(v)
      BY <3>1, NotYet
    <3> QED
      BY <3>2 DEF v
  <2>4. IsTruncated(w)
    <3>1. w # <<>>
      <4>1. Len(<<>>) = 0
        OBVIOUS
      <4>2. Len(w) # Len(<<>>)
        BY <2>2, <4>1
      <4> QED
        BY <4>2, Zenon
    <3> QED
      BY <2>2, <2>3, <3>1 DEF IsTruncated
  <2> QED
    BY <1>1, <2>1, <2>4 DEF Whole, w
<1>2. CASE s < Len(b)
  <2> DEFINE w == SubSeq(b, s, s + 2 - 1)
  <2>1. escapeSeqEnd(b, s) = s + 2 /\ s + 2 \in s + 1..Len(b) + 1
    BY <1>0, <1>2 DEF escapeSeqEnd
  <2>2. Len(w) = 2 /\ w[1] = "ESC" /\ w[2] = b[s + 1]
    <3> DEFINE e == s + 2
    <3>1. /\ e \in s + 1..Len(b) + 1 /\ e - s = 2 /\ 1 \in 1..2 /\ 2 \in 1..2
          /\ s + 1 - 1 = s /\ s + 2 - 1 = s + 1
      BY <1>0, <2>1
    <3>2. w = SubSeq(b, s, e - 1)
      OBVIOUS
    <3> HIDE DEF e, w
    <3>3. Len(w) = e - s /\ \A k \in 1..e - s : w[k] = b[s + k - 1]
      BY <3>1, <3>2, Slice
    <3>4. w[1] = b[s + 1 - 1] /\ w[2] = b[s + 2 - 1]
      BY <3>1, <3>3
    <3> QED
      BY <3>1, <3>3, <3>4
  <2> HIDE DEF w
  <2>3. IsAlt(w)
    BY <1>2, <2>2 DEF IsAlt
  <2> QED
    BY <2>1, <2>3 DEF Whole, IsKeystroke, w
<1> QED
  BY <1>0, <1>1, <1>2

(* A character: a byte, or the two bytes of a rune that are there. *)
LEMMA WholeChar ==
    ASSUME NEW b \in Seq(Byte), NEW s \in 1..Len(b), b[s] # "ESC"
    PROVE  Whole(b, s, keystrokeEnd(b, s))
<1> DEFINE e == keystrokeEnd(b, s)
           w == SubSeq(b, s, e - 1)
<1>1. \/ e = s + 2 /\ b[s] = "lead" /\ s < Len(b) /\ b[s + 1] = "cont"
      \/ e = s + 1
  BY DEF keystrokeEnd
<1>2. e \in s + 1..Len(b) + 1
  BY <1>1
<1> HIDE DEF e
<1>3. w \in Seq(Byte) /\ Len(w) = e - s /\ \A k \in 1..e - s : w[k] = b[s + k - 1]
  BY <1>2, Slice
<1> HIDE DEF w
<1>4. IsChar(w)
  <2>1. CASE e = s + 1
    <3>1. e - s = 1 /\ 1 \in 1..1 /\ s + 1 - 1 = s
      BY <2>1
    <3> QED
      BY <1>3, <3>1 DEF IsChar
  <2>2. CASE e = s + 2 /\ b[s] = "lead" /\ b[s + 1] = "cont"
    <3>1. e - s = 2 /\ 1 \in 1..2 /\ 2 \in 1..2 /\ s + 1 - 1 = s /\ s + 2 - 1 = s + 1
      BY <2>2
    <3>2. w \in Seq(Byte) /\ Len(w) = 2 /\ w[1] = "lead" /\ w[2] = "cont"
      BY <1>3, <2>2, <3>1
    <3>3. w = <<"lead", "cont">>
      BY <3>2
    <3> QED
      BY <3>3 DEF IsChar
  <2> QED
    BY <1>1, <2>1, <2>2
<1> QED
  BY <1>2, <1>4 DEF Whole, IsKeystroke, e, w

(* keystrokeEnd passes over one keystroke of the grammar, or over all that  *)
(* there is of one that the data do not finish, whatever the bytes.        *)
THEOREM KeystrokeEndCorrect ==
    ASSUME NEW b \in Seq(Byte), NEW s \in 1..Len(b)
    PROVE  Whole(b, s, keystrokeEnd(b, s))
<1>1. CASE b[s] # "ESC"
  BY <1>1, WholeChar
<1>2. CASE b[s] = "ESC"
  <2>1. keystrokeEnd(b, s) = escapeSeqEnd(b, s)
    BY <1>2 DEF keystrokeEnd
  <2>2. Whole(b, s, escapeSeqEnd(b, s))
    BY <1>2, WholeCSI, WholeSS3, WholeOSC, WholeAlt
  <2> QED
    BY <2>1, <2>2
<1> QED
  BY <1>1, <1>2

(* The first byte of a rune goes alone only if the second does not follow.  *)
LEMMA LoneLead ==
    ASSUME NEW b \in Seq(Byte), NEW s \in 1..Len(b), keystrokeEnd(b, s) <= Len(b),
           SubSeq(b, s, keystrokeEnd(b, s) - 1) = <<"lead">>
    PROVE  b[keystrokeEnd(b, s)] # "cont"
<1> DEFINE e == keystrokeEnd(b, s)
<1>1. e \in s + 1..Len(b) + 1
  BY KeystrokeEndCorrect DEF Whole
<1> DEFINE w == SubSeq(b, s, e - 1)
<1>2. Len(w) = e - s /\ w[1] = b[s + 1 - 1] /\ w = <<"lead">>
  <2>0. w = <<"lead">>
    OBVIOUS
  <2> HIDE DEF e
  <2>1. 1 \in 1..e - s
    BY <1>1
  <2> QED
    BY <1>1, <2>0, <2>1, Slice
<1> HIDE DEF w, e
<1>3. e = s + 1 /\ b[s] = "lead"
  <2>1. Len(<<"lead">>) = 1 /\ <<"lead">>[1] = "lead" /\ s + 1 - 1 = s
    OBVIOUS
  <2> QED
    BY <1>1, <1>2, <2>1
<1> QED
  BY <1>3 DEF keystrokeEnd, e

-----------------------------------------------------------------------------
(* The inductive invariant.                                                *)

KeyType ==
    /\ typed \in Seq(Key) /\ data \in Seq(Byte) /\ writes \in Seq(Seq(Byte))
    /\ i \in 1..Len(data) + 1 /\ pc \in {"parse", "check", "write", "ok", "err"}

(* Nothing is written before the check, and "ok" comes at the end.          *)
ProgressInv ==
    /\ pc \in {"parse", "check"} => i = 1 /\ writes = <<>>
    /\ pc = "ok" => i = Len(data) + 1

(* What has been written ends where a keystroke does.                       *)
JunctionInv ==
    (pacing /\ writes # <<>> /\ writes[Len(writes)] = <<"lead">> /\ i <= Len(data)) =>
        data[i] # "cont"

KeyInv == KeyType /\ ProgressInv /\ BytesInOrder /\ WholeKeystrokes /\ JunctionInv

USE DEF vars

(* Nothing is sent at the start, and RawData are bytes. *)
LEMMA KeyInit == Init => KeyInv
<1> SUFFICES ASSUME Init PROVE KeyInv
    OBVIOUS
<1>1. data \in Seq(Byte) /\ typed \in Seq(Key) /\ Len(data) \in Nat
  <2>1. <<>> \in Seq(Byte) /\ <<>> \in Seq(Key)
    OBVIOUS
  <2>2. data \in Seq(Byte) /\ typed \in Seq(Key)
    BY <2>1, InputAssumption, Zenon DEF Init
  <2> QED
    BY <2>2
<1>2. KeyType /\ ProgressInv
  BY <1>1 DEF Init, KeyType, ProgressInv
<1>3. BytesInOrder
  <2>1. SubSeq(data, 1, 1 - 1) = <<>>
    BY SubSeqEmpty
  <2> QED
    BY <1>1, <2>1 DEF Init, BytesInOrder
<1>4. WholeKeystrokes /\ JunctionInv
  BY DEF Init, WholeKeystrokes, JunctionInv
<1> QED
  BY <1>2, <1>3, <1>4 DEF KeyInv

(* A write of the bytes up to e: all that is received are the data up to e. *)
LEMMA PutReceives ==
    ASSUME KeyInv, NEW e \in i + 1..Len(data) + 1
    PROVE  /\ received \o SubSeq(data, i, e - 1) = SubSeq(data, 1, e - 1)
           /\ SubSeq(data, i, e - 1) \in Seq(Byte)
<1>1. /\ data \in Seq(Byte) /\ i \in 1..Len(data) + 1 /\ Len(data) \in Nat
      /\ received = SubSeq(data, 1, i - 1)
  BY DEF KeyInv, KeyType, BytesInOrder
<1>2. /\ 1 \in 1..Len(data) + 1 /\ i - 1 \in 1 - 1..Len(data) /\ e - 1 \in i - 1..Len(data)
      /\ (i - 1) + 1 = i /\ i \in 1..Len(data) /\ e \in i + 1..Len(data) + 1
  BY <1>1
<1>3. SubSeq(data, 1, i - 1) \o SubSeq(data, (i - 1) + 1, e - 1) = SubSeq(data, 1, e - 1)
  BY <1>1, <1>2, ConcatAdjacentSubSeq
<1>4. SubSeq(data, i, e - 1) \in Seq(Byte)
  BY <1>1, <1>2, Slice
<1> QED
  BY <1>1, <1>2, <1>3, <1>4

(* A paced write is a keystroke, and the next one does not continue it. *)
LEMMA SendKeyStep == ASSUME KeyInv, SendKey PROVE KeyInv'
<1> DEFINE e == keystrokeEnd(data, i)
           w == SubSeq(data, i, e - 1)
<1>1. /\ data \in Seq(Byte) /\ i \in 1..Len(data) /\ Len(data) \in Nat
      /\ writes \in Seq(Seq(Byte)) /\ Len(writes) \in Nat /\ typed \in Seq(Key)
      /\ pc = "write" /\ pacing /\ UNCHANGED <<typed, data, paced, exit>>
  BY DEF SendKey, KeyInv, KeyType
<1>2. Whole(data, i, e)
  BY <1>1, KeystrokeEndCorrect
<1>3. e \in i + 1..Len(data) + 1 /\ (IsKeystroke(w) \/ (IsTruncated(w) /\ e = Len(data) + 1))
  BY <1>2 DEF Whole
<1>4. CASE exit = "closed"
  <2>1. UNCHANGED <<i, writes, received>> /\ pc' = "err"
    BY <1>4 DEF SendKey, Put
  <2> QED
    BY <1>1, <2>1 DEF KeyInv, KeyType, ProgressInv, BytesInOrder, WholeKeystrokes,
       JunctionInv, pacing
<1>5. CASE exit # "closed"
  <2>1. /\ writes' = Append(writes, w) /\ received' = received \o w /\ i' = e
        /\ pc' = "write"
    BY <1>5 DEF SendKey, Put
  <2>2. w \in Seq(Byte) /\ received \o w = SubSeq(data, 1, e - 1)
    <3> HIDE DEF e
    <3> QED
      BY <1>3, PutReceives
  <2>3. w = <<"lead">> /\ e <= Len(data) => data[e] # "cont"
    BY <1>1, LoneLead
  <2>4. w = <<"cont">> => data[i] = "cont"
    <3> HIDE DEF e
    <3>1. 1 \in 1..e - i /\ i + 1 - 1 = i
      BY <1>1, <1>3
    <3>2. w[1] = data[i]
      BY <1>1, <1>3, <3>1, Slice
    <3>3. <<"cont">>[1] = "cont"
      OBVIOUS
    <3> QED
      BY <3>2, <3>3
  <2> HIDE DEF w, e
  <2>5. KeyType' /\ ProgressInv' /\ BytesInOrder'
    <3>1. i' \in 1..Len(data') + 1
      BY <1>1, <1>3, <2>1
    <3>2. writes' \in Seq(Seq(Byte))
      BY <1>1, <2>1, <2>2
    <3> QED
      BY <1>1, <2>1, <2>2, <3>1, <3>2 DEF KeyType, ProgressInv, BytesInOrder
  <2>6. /\ Len(writes') = Len(writes) + 1 /\ writes'[Len(writes) + 1] = w
        /\ \A k \in 1..Len(writes) : writes'[k] = writes[k]
    BY <1>1, <2>1, <2>2
  <2>7. JunctionInv'
    BY <1>1, <2>1, <2>3, <2>6 DEF JunctionInv
  <2>8. WholeKeystrokes'
    <3> SUFFICES ASSUME NEW k \in 1..Len(writes')
                 PROVE  /\ \/ IsKeystroke(writes'[k])
                           \/ IsTruncated(writes'[k]) /\ k = Len(writes') /\ i' > Len(data')
                        /\ writes'[k] = <<"lead">> =>
                              k = Len(writes') \/ writes'[k + 1] # <<"cont">>
      BY DEF WholeKeystrokes
    <3>1. CASE k = Len(writes) + 1
      BY <1>1, <1>3, <2>1, <2>6, <3>1
    <3>2. CASE k \in 1..Len(writes)
      <4>1. /\ \/ IsKeystroke(writes[k])
               \/ IsTruncated(writes[k]) /\ k = Len(writes) /\ i > Len(data)
            /\ writes[k] = <<"lead">> => k = Len(writes) \/ writes[k + 1] # <<"cont">>
        BY <1>1, <3>2 DEF KeyInv, WholeKeystrokes
      <4>2. IsKeystroke(writes'[k])
        BY <1>1, <2>6, <3>2, <4>1
      <4>3. ASSUME k < Len(writes) PROVE writes'[k + 1] = writes[k + 1] /\ k # Len(writes)
        <5>1. k + 1 \in 1..Len(writes)
          BY <1>1, <3>2, <4>3
        <5> QED
          BY <1>1, <2>6, <3>2, <4>3, <5>1
      <4>4. ASSUME k = Len(writes), writes[k] = <<"lead">> PROVE writes'[k + 1] # <<"cont">>
        <5>1. writes # <<>>
          BY <1>1, <3>2
        <5>2. data[i] # "cont"
          BY <1>1, <4>4, <5>1 DEF KeyInv, JunctionInv
        <5> QED
          BY <2>4, <2>6, <4>4, <5>2
      <4>5. writes'[k] = writes[k] /\ (k < Len(writes) \/ k = Len(writes))
        BY <1>1, <2>6, <3>2
      <4> QED
        BY <4>1, <4>2, <4>3, <4>4, <4>5
    <3> QED
      BY <1>1, <2>6, <3>1, <3>2
  <2> QED
    BY <2>5, <2>7, <2>8 DEF KeyInv
<1> QED
  BY <1>4, <1>5

(* Every step keeps the invariant. *)
LEMMA KeyStep == ASSUME KeyInv, [Next]_vars PROVE KeyInv'
<1>0. /\ data \in Seq(Byte) /\ typed \in Seq(Key) /\ Len(data) \in Nat
      /\ i \in 1..Len(data) + 1
  BY DEF KeyInv, KeyType
<1>1. CASE Parse
  <2>1. /\ data' = data \/ data' = ParseAll(typed)
        /\ i' = 1 /\ writes' = <<>> /\ received' = SubSeq(data, 1, 1 - 1)
        /\ pc' \in {"check", "err"} /\ typed' = typed
    BY <1>1 DEF Parse, KeyInv, ProgressInv, BytesInOrder
  <2>2. ParseAll(typed) \in Seq(Byte)
    <3>1. PICK f \in [0..Len(typed) -> Seq(Byte)] : ParseAll(typed) = f[Len(typed)]
      BY <1>0, ParsePrefixes
    <3>2. Len(typed) \in 0..Len(typed)
      BY <1>0
    <3> QED
      BY <3>1, <3>2
  <2>3. data' \in Seq(Byte) /\ Len(data') \in Nat
    BY <1>0, <2>1, <2>2
  <2>4. received' = <<>> /\ SubSeq(data', 1, 1 - 1) = <<>>
    BY <2>1, SubSeqEmpty
  <2>5. KeyType' /\ ProgressInv' /\ BytesInOrder'
    BY <1>0, <2>1, <2>3, <2>4 DEF KeyType, ProgressInv, BytesInOrder
  <2>6. WholeKeystrokes' /\ JunctionInv'
    BY <2>1 DEF WholeKeystrokes, JunctionInv
  <2> QED
    BY <2>5, <2>6 DEF KeyInv
<1>2. CASE SessionEnds \/ UNCHANGED vars
  <2>1. UNCHANGED <<typed, data, paced, pc, i, writes, received>>
    BY <1>2 DEF SessionEnds
  <2>2. KeyType' /\ ProgressInv' /\ BytesInOrder'
    BY <2>1 DEF KeyInv, KeyType, ProgressInv, BytesInOrder
  <2>3. WholeKeystrokes' /\ JunctionInv'
    BY <2>1 DEF KeyInv, WholeKeystrokes, JunctionInv, pacing
  <2> QED
    BY <2>2, <2>3 DEF KeyInv
<1>3. CASE Check
  BY <1>3 DEF Check, KeyInv, KeyType, ProgressInv, BytesInOrder, WholeKeystrokes,
     JunctionInv, pacing
<1>4. CASE SendAll
  <2>1. UNCHANGED <<typed, data, paced>> /\ ~pacing /\ ~pacing' /\ pc = "write"
    BY <1>4 DEF SendAll, pacing
  <2>2. WholeKeystrokes' /\ JunctionInv'
    BY <2>1 DEF WholeKeystrokes, JunctionInv
  <2>3. CASE exit = "closed"
    BY <1>4, <2>1, <2>2, <2>3 DEF SendAll, Put, KeyInv, KeyType, ProgressInv, BytesInOrder
  <2>4. CASE exit # "closed"
    <3> DEFINE e == Len(data) + 1
               w == SubSeq(data, i, e - 1)
    <3>1. writes' = Append(writes, w) /\ received' = received \o w /\ i' = e /\ pc' = "ok"
      BY <1>4, <2>4 DEF SendAll, Put
    <3>2. SubSeq(data, 1, e - 1) = data
      <4>1. e - 1 = Len(data)
        BY <1>0
      <4> QED
        BY <1>0, <4>1, SubSeqFull
    <3>3. w \in Seq(Byte) /\ received \o w = data
      <4>1. CASE i <= Len(data)
        <5>1. e \in i + 1..Len(data) + 1
          BY <1>0, <4>1
        <5> HIDE DEF e
        <5> QED
          BY <3>2, <5>1, PutReceives
      <4>2. CASE i = Len(data) + 1
        <5>1. w = <<>>
          BY <1>0, <4>2, SubSeqEmpty
        <5>2. received = data
          BY <3>2, <4>2 DEF KeyInv, BytesInOrder
        <5>3. data \o <<>> = data /\ <<>> \in Seq(Byte)
          BY <1>0, ConcatEmptySeq
        <5> HIDE DEF w
        <5> QED
          BY <5>1, <5>2, <5>3
      <4> QED
        BY <1>0, <4>1, <4>2
    <3>4. writes' \in Seq(Seq(Byte)) /\ e \in 1..Len(data) + 1
      BY <1>0, <3>1, <3>3 DEF KeyInv, KeyType
    <3> HIDE DEF w
    <3>5. KeyType' /\ ProgressInv' /\ BytesInOrder'
      BY <1>0, <2>1, <3>1, <3>2, <3>3, <3>4 DEF KeyType, ProgressInv, BytesInOrder
    <3> QED
      BY <2>2, <3>5 DEF KeyInv
  <2> QED
    BY <2>3, <2>4
<1>5. CASE SendKey
  BY <1>5, SendKeyStep
<1>6. CASE Finish
  <2>1. UNCHANGED <<typed, data, paced, i, writes, received>> /\ pc' = "ok"
        /\ i = Len(data) + 1
    BY <1>0, <1>6 DEF Finish
  <2>2. SubSeq(data, 1, i - 1) = data
    <3>1. i - 1 = Len(data)
      BY <1>0, <2>1
    <3> QED
      BY <1>0, <3>1, SubSeqFull
  <2> QED
    BY <1>0, <2>1, <2>2 DEF KeyInv, KeyType, ProgressInv, BytesInOrder, WholeKeystrokes,
       JunctionInv, pacing
<1> QED
  BY <1>1, <1>2, <1>3, <1>4, <1>5, <1>6 DEF Next

-----------------------------------------------------------------------------
(* The theorems.                                                           *)

(* The invariant holds in every state, for data and keys of every length.   *)
THEOREM KeyInductive == Spec => []KeyInv
BY KeyInit, KeyStep, PTL DEF Spec

(* SendPaced loses, repeats and reorders no byte, whenever the session ends. *)
THEOREM BytesArriveInOrder == Spec => []BytesInOrder
<1>1. KeyInv => BytesInOrder
  BY DEF KeyInv
<1> QED
  BY <1>1, KeyInductive, PTL

(* SendPaced cuts the data between keystrokes of the grammar only.           *)
THEOREM WritesAreKeystrokes == Spec => []WholeKeystrokes
<1>1. KeyInv => WholeKeystrokes
  BY DEF KeyInv
<1> QED
  BY <1>1, KeyInductive, PTL

-----------------------------------------------------------------------------
(* One write per key, for keys that are not ambiguous.                      *)

(* The bytes of a plain key. *)
Unit(p) ==
    \/ IsCSI(p) \/ IsSS3(p) \/ IsAlt(p) \/ p = <<"lead", "cont">>
    \/ Len(p) = 1 /\ p[1] \notin {"ESC", "lead"}

(* What the notation yields for a plain key is such a unit. *)
LEMMA PlainUnits ==
    ASSUME NEW k \in PlainKeys, parseSpecial(k) # <<>>
    PROVE  Unit(parseSpecial(k))
<1> DEFINE base == resolveBase(k.base, k.shift)
           key == IF ~k.ctrl THEN base
                  ELSE IF base # <<>> /\ k.base \in Letters THEN <<"par">> ELSE <<>>
<1>0. k.base \in Bases /\ k.shift \in BOOLEAN /\ k.ctrl \in BOOLEAN /\ k.meta \in BOOLEAN
      /\ ~Ambiguous(k)
  BY DEF PlainKeys, Key
<1>1. \/ base \in {<<>>, <<"fin">>, <<"par">>, <<"\\">>, <<"lead", "cont">>}
      \/ k.base \in {"[", "O", "]"} /\ base = <<k.base>>
      \/ base \in {<<"ESC", "[", "fin">>, <<"ESC", "[", "par", "fin">>, <<"ESC", "O", "fin">>}
  <2>1. /\ named["tab"] = <<"par">> /\ named["arrow"] = <<"ESC", "[", "fin">>
        /\ named["page"] = <<"ESC", "[", "par", "fin">> /\ named["F1"] = <<"ESC", "O", "fin">>
    BY DEF named
  <2>2. k.base # "esc"
    BY <1>0 DEF Ambiguous
  <2>3. CASE k.base \in {"tab", "arrow", "page", "F1"}
    BY <1>0, <2>1, <2>3 DEF resolveBase, literal, Letters, Named
  <2>4. CASE k.base \in {"letter", "O", "[", "]", "\\", "sign", "rune", "bogus"}
    BY <1>0, <2>4 DEF resolveBase, literal, Letters, Named
  <2> QED
    BY <1>0, <2>2, <2>3, <2>4 DEF Bases, Letters, Named
<1>2. parseSpecial(k) = IF k.meta /\ key # <<>> THEN <<"ESC">> \o key ELSE key
  BY DEF parseSpecial
<1>3. k.meta => Len(base) <= 1 /\ (~k.ctrl => k.base \notin {"[", "O", "]"})
  <2>1. k.meta => ~(Len(base) > 1) /\ (~k.ctrl => k.base \notin {"[", "O", "]"})
    BY <1>0 DEF Ambiguous
  <2>2. Len(base) \in Nat
    <3> HIDE DEF base
    <3> QED
      BY <1>1
  <2> HIDE DEF base
  <2> QED
    BY <2>1, <2>2
<1> HIDE DEF base
<1>4. CASE k.meta
  <2>1. base \in {<<>>, <<"fin">>, <<"par">>, <<"\\">>}
        \/ (k.base \in {"[", "O", "]"} /\ base = <<k.base>>)
    <3>1. Len(<<"lead", "cont">>) = 2 /\ Len(<<"ESC", "[", "fin">>) = 3
          /\ Len(<<"ESC", "[", "par", "fin">>) = 4 /\ Len(<<"ESC", "O", "fin">>) = 3
      OBVIOUS
    <3>2. Len(base) <= 1
      BY <1>3, <1>4
    <3>3. base # <<"lead", "cont">> /\ base # <<"ESC", "[", "fin">>
          /\ base # <<"ESC", "[", "par", "fin">> /\ base # <<"ESC", "O", "fin">>
      BY <3>1, <3>2
    <3> QED
      BY <1>1, <3>3
  <2>2. key \in {<<>>, <<"fin">>, <<"par">>, <<"\\">>}
    BY <1>3, <1>4, <2>1
  <2> HIDE DEF key
  <2>3. parseSpecial(k) = <<"ESC">> \o key /\ key # <<>>
    BY <1>2, <1>4
  <2>4. key \in Seq(Byte) /\ Len(key) = 1 /\ key[1] \in {"fin", "par", "\\"}
    <3>1. key = <<"fin">> \/ key = <<"par">> \/ key = <<"\\">>
      BY <2>2, <2>3
    <3>2. "fin" \in Byte /\ "par" \in Byte /\ "\\" \in Byte
      BY DEF Byte
    <3> QED
      BY <3>1, <3>2
  <2>5. /\ Len(<<"ESC">> \o key) = 2 /\ (<<"ESC">> \o key)[1] = "ESC"
        /\ (<<"ESC">> \o key)[2] = key[1]
    <3>1. <<"ESC">> \in Seq(Byte) /\ Len(<<"ESC">>) = 1 /\ <<"ESC">>[1] = "ESC"
      BY DEF Byte
    <3> DEFINE one == <<"ESC">>
    <3> HIDE DEF one
    <3>2. one \in Seq(Byte) /\ Len(one) = 1 /\ one[1] = "ESC"
      BY <3>1 DEF one
    <3>3. Len(one \o key) = 2 /\ (one \o key)[1] = one[1] /\ (one \o key)[2] = key[1]
      BY <2>4, <3>2, ConcatProperties
    <3> QED
      BY <3>2, <3>3 DEF one
  <2>6. IsAlt(parseSpecial(k))
    BY <2>3, <2>4, <2>5 DEF IsAlt
  <2> QED
    BY <2>6 DEF Unit
<1>5. CASE ~k.meta
  <2>1. parseSpecial(k) = key
    BY <1>2, <1>5
  <2>2. key \in {base, <<"par">>, <<>>}
    BY DEF key
  <2> HIDE DEF key
  <2>3. CASE Len(parseSpecial(k)) = 1 /\ parseSpecial(k)[1] \notin {"ESC", "lead"}
    BY <2>3 DEF Unit
  <2>4. CASE parseSpecial(k) = <<"lead", "cont">>
    BY <2>4 DEF Unit
  <2>5. CASE parseSpecial(k) = <<"ESC", "O", "fin">>
    BY <2>5 DEF Unit, IsSS3
  <2>6. CASE parseSpecial(k) \in {<<"ESC", "[", "fin">>, <<"ESC", "[", "par", "fin">>}
    <3> DEFINE p == parseSpecial(k)
    <3>1. CASE p = <<"ESC", "[", "fin">>
      <4>1. Len(p) = 3 /\ p[1] = "ESC" /\ p[2] = "[" /\ p[3] = "fin"
        BY <3>1
      <4> HIDE DEF p
      <4>2. IsCSI(p)
        BY <4>1 DEF IsCSI, Final
      <4>3. Unit(p)
        BY <4>2 DEF Unit
      <4> QED
        BY <4>3 DEF p
    <3>2. CASE p = <<"ESC", "[", "par", "fin">>
      <4>1. Len(p) = 4 /\ p[1] = "ESC" /\ p[2] = "[" /\ p[3] = "par" /\ p[4] = "fin"
        BY <3>2
      <4> HIDE DEF p
      <4>2. IsCSI(p)
        BY <4>1 DEF IsCSI, Final
      <4>3. Unit(p)
        BY <4>2 DEF Unit
      <4> QED
        BY <4>3 DEF p
    <3> QED
      BY <2>6, <3>1, <3>2
  <2> QED
    BY <1>1, <2>1, <2>2, <2>3, <2>4, <2>5, <2>6
<1> QED
  BY <1>4, <1>5

(* Wherever a unit stands in the data, keystrokeEnd finds its end, whatever  *)
(* comes after it.                                                         *)
LEMMA UnitEnd ==
    ASSUME NEW b \in Seq(Byte), NEW s \in 1..Len(b), NEW p \in Seq(Byte), Unit(p),
           s + Len(p) - 1 <= Len(b), \A j \in 1..Len(p) : b[s + j - 1] = p[j]
    PROVE  keystrokeEnd(b, s) = s + Len(p)
<1>0. Len(b) \in Nat /\ Len(p) \in Nat
  OBVIOUS
<1>1. CASE IsCSI(p)
  <2>1. Len(p) >= 3 /\ p[1] = "ESC" /\ p[2] = "[" /\ p[Len(p)] \in Final
        /\ \A j \in 3..Len(p) - 1 : p[j] \notin Final
    BY <1>1 DEF IsCSI
  <2>2. /\ 1 \in 1..Len(p) /\ 2 \in 1..Len(p) /\ Len(p) \in 1..Len(p)
        /\ s + 1 - 1 = s /\ s + 2 - 1 = s + 1 /\ s # Len(b)
        /\ s + Len(p) - 1 \in s + 2..Len(b)
    BY <1>0, <2>1
  <2>3. b[s] = "ESC" /\ b[s + 1] = "[" /\ b[s + Len(p) - 1] \in Final
    BY <2>1, <2>2
  <2>4. ASSUME NEW k \in s + 2..Len(b), k < s + Len(p) - 1 PROVE b[k] \notin Final
    <3>1. k - s + 1 \in 3..Len(p) - 1 /\ k - s + 1 \in 1..Len(p) /\ s + (k - s + 1) - 1 = k
      BY <1>0, <2>4
    <3>2. b[s + (k - s + 1) - 1] = p[k - s + 1]
      BY <3>1
    <3> QED
      BY <2>1, <3>1, <3>2
  <2> DEFINE C == {k \in s + 2..Len(b) : b[k] \in Final}
  <2>5. C \in SUBSET Nat /\ s + Len(p) - 1 \in C
    BY <1>0, <2>2, <2>3
  <2>6. Least(C) \in C /\ Least(C) <= s + Len(p) - 1
    <3> HIDE DEF C
    <3> QED
      BY <2>5, LeastIs
  <2>7. Least(C) = s + Len(p) - 1
    <3> DEFINE l == Least(C)
    <3>1. l \in s + 2..Len(b) /\ b[l] \in Final /\ l <= s + Len(p) - 1
      BY <2>6
    <3> HIDE DEF l, C
    <3> DEFINE q == s + Len(p) - 1
    <3>0. q \in Nat /\ l \in Nat /\ l <= q
      BY <1>0, <3>1
    <3>2. ~(l < q)
      BY <2>4, <3>1
    <3> HIDE DEF q
    <3>3. l = q
      BY <3>0, <3>2
    <3> QED
      BY <3>3 DEF l, q
  <2>8. keystrokeEnd(b, s) = Least(C) + 1
    <3>1. C # {}
      BY <2>5
    <3> QED
      BY <2>2, <2>3, <3>1 DEF keystrokeEnd, escapeSeqEnd
  <2> QED
    BY <1>0, <2>7, <2>8
<1>2. CASE IsSS3(p)
  <2>1. Len(p) = 3 /\ p[1] = "ESC" /\ p[2] = "O" /\ 1 \in 1..3 /\ 2 \in 1..3
        /\ s + 1 - 1 = s /\ s + 2 - 1 = s + 1
    BY <1>2 DEF IsSS3
  <2>2. b[s] = "ESC" /\ b[s + 1] = "O" /\ s # Len(b) /\ s + 2 <= Len(b)
    BY <1>0, <2>1
  <2> QED
    BY <2>1, <2>2 DEF keystrokeEnd, escapeSeqEnd
<1>3. CASE IsAlt(p)
  <2>1. Len(p) = 2 /\ p[1] = "ESC" /\ p[2] \notin {"[", "O", "]"} /\ 1 \in 1..2 /\ 2 \in 1..2
        /\ s + 1 - 1 = s /\ s + 2 - 1 = s + 1
    BY <1>3 DEF IsAlt
  <2>2. b[s] = "ESC" /\ b[s + 1] \notin {"[", "O", "]"} /\ s # Len(b)
    BY <1>0, <2>1
  <2> QED
    BY <2>1, <2>2 DEF keystrokeEnd, escapeSeqEnd
<1>4. CASE p = <<"lead", "cont">>
  <2>1. Len(p) = 2 /\ p[1] = "lead" /\ p[2] = "cont" /\ 1 \in 1..2 /\ 2 \in 1..2
        /\ s + 1 - 1 = s /\ s + 2 - 1 = s + 1
    BY <1>4
  <2>2. b[s] = "lead" /\ b[s + 1] = "cont" /\ s < Len(b)
    BY <1>0, <2>1
  <2> QED
    BY <2>1, <2>2 DEF keystrokeEnd
<1>5. CASE Len(p) = 1 /\ p[1] \notin {"ESC", "lead"}
  <2>1. 1 \in 1..1 /\ s + 1 - 1 = s
    OBVIOUS
  <2>2. b[s] \notin {"ESC", "lead"}
    BY <1>5, <2>1
  <2> QED
    BY <1>5, <2>2 DEF keystrokeEnd
<1> QED
  BY <1>1, <1>2, <1>3, <1>4, <1>5 DEF Unit

(* The bytes of the keys, key by key. *)
KeyByKey(f, keys) ==
    /\ f \in [0..Len(keys) -> Seq(Byte)] /\ f[0] = <<>>
    /\ \A n \in 1..Len(keys) : f[n] = f[n - 1] \o parseSpecial(keys[n])

(* The bytes of the first m keys begin those of all. *)
LEMMA KeyByKeyPrefix ==
    ASSUME NEW keys \in Seq(Key), NEW f, KeyByKey(f, keys), NEW m \in 0..Len(keys)
    PROVE  /\ Len(f[m]) <= Len(f[Len(keys)])
           /\ \A j \in 1..Len(f[m]) : f[Len(keys)][j] = f[m][j]
<1> DEFINE L == Len(keys)
           P(n) == Len(f[m]) <= Len(f[n]) /\ \A j \in 1..Len(f[m]) : f[n][j] = f[m][j]
           S == {d \in Nat : m + d <= L => P(m + d)}
<1>0. /\ L \in Nat /\ f \in [0..L -> Seq(Byte)]
      /\ \A n \in 1..L : f[n] = f[n - 1] \o parseSpecial(keys[n])
      /\ \A n \in 1..L : parseSpecial(keys[n]) \in Seq(Byte)
  <2>1. \A n \in 1..L : keys[n] \in Key
    OBVIOUS
  <2>2. L \in Nat /\ \A n \in 1..L : parseSpecial(keys[n]) \in Seq(Byte)
    BY <2>1, SpecialType
  <2> QED
    BY <2>2 DEF KeyByKey
<1> HIDE DEF L
<1>1. 0 \in S
  BY <1>0 DEF L
<1>2. ASSUME NEW d \in Nat, d \in S PROVE d + 1 \in S
  <2> SUFFICES ASSUME m + (d + 1) <= L PROVE P(m + (d + 1))
    OBVIOUS
  <2> DEFINE n == m + d
             w == parseSpecial(keys[n + 1])
  <2>1. /\ n \in 0..L /\ n + 1 \in 1..L /\ (n + 1) - 1 = n /\ P(n) /\ m \in 0..L
        /\ m + (d + 1) = n + 1
    BY <1>0, <1>2 DEF L
  <2> HIDE DEF n
  <2>2. f[n + 1] = f[n] \o w /\ w \in Seq(Byte) /\ f[n] \in Seq(Byte) /\ f[m] \in Seq(Byte)
    BY <1>0, <2>1
  <2> HIDE DEF w
  <2>3. Len(f[n + 1]) = Len(f[n]) + Len(w) /\ Len(w) \in Nat /\ Len(f[n]) \in Nat
        /\ Len(f[m]) \in Nat /\ \A j \in 1..Len(f[n]) : f[n + 1][j] = f[n][j]
    BY <2>2, ConcatProperties
  <2>4. P(n + 1)
    BY <2>1, <2>3
  <2> QED
    BY <2>1, <2>4
<1>3. Nat \subseteq S
  <2> HIDE DEF S
  <2> QED
    BY <1>1, <1>2, Climb
<1>4. L - m \in Nat /\ m + (L - m) = L
  BY <1>0 DEF L
<1>5. P(L)
  <2>1. L - m \in S
    BY <1>3, <1>4
  <2> QED
    BY <1>0, <1>4, <2>1
<1> QED
  BY <1>5 DEF L

(* The keys that are being sent are plain. *)
AllPlain == \A n \in 1..Len(typed) : typed[n] \in PlainKeys

(* The paced writes so far are the first keys, and the next byte is where    *)
(* the next key begins.                                                    *)
AtKey(f) ==
    /\ Len(writes) <= Len(typed) /\ i = Len(f[Len(writes)]) + 1
    /\ \A k \in 1..Len(writes) : writes[k] = parseSpecial(typed[k])

Parsed(f) ==
    /\ KeyByKey(f, typed) /\ data = f[Len(typed)]
    /\ \A n \in 1..Len(typed) : parseSpecial(typed[n]) # <<>>
    /\ pacing => AtKey(f)

KeyByKeyInv ==
    (typed # <<>> /\ AllPlain) =>
        /\ pc = "parse" => data = <<>>
        /\ data = <<>> \/ \E f : Parsed(f)

(* A paced write of plain keys is the next key. *)
LEMMA NextKey ==
    ASSUME KeyInv, AllPlain, SendKey, NEW f, Parsed(f), AtKey(f), exit # "closed"
    PROVE  AtKey(f)'
<1> DEFINE m == Len(writes)
           p == parseSpecial(typed[m + 1])
           L == Len(typed)
<1>0. /\ data \in Seq(Byte) /\ typed \in Seq(Key) /\ L \in Nat /\ Len(data) \in Nat
      /\ i \in 1..Len(data) /\ writes \in Seq(Seq(Byte)) /\ m \in Nat
      /\ UNCHANGED <<typed, data>> /\ KeyByKey(f, typed) /\ data = f[L]
  BY DEF KeyInv, KeyType, SendKey, Parsed
<1>1. m <= L /\ i = Len(f[m]) + 1
  BY DEF AtKey
<1>2. m \in 0..L /\ m + 1 \in 1..L /\ m + 1 \in 0..L /\ (m + 1) - 1 = m
  <2>1. m # L
    BY <1>0, <1>1
  <2> QED
    BY <1>0, <1>1, <2>1
<1>3. /\ f[m + 1] = f[m] \o p /\ f[m] \in Seq(Byte) /\ p \in Seq(Byte) /\ p # <<>>
      /\ f[m + 1] \in Seq(Byte)
  <2>1. typed[m + 1] \in Key /\ p # <<>>
    BY <1>0, <1>2 DEF Parsed
  <2>2. p \in Seq(Byte)
    BY <2>1, SpecialType
  <2>3. f \in [0..L -> Seq(Byte)] /\ f[m + 1] = f[(m + 1) - 1] \o p
    BY <1>0, <1>2 DEF KeyByKey
  <2> QED
    BY <1>2, <2>1, <2>2, <2>3
<1>4. Unit(p)
  <2>1. typed[m + 1] \in PlainKeys
    BY <1>2 DEF AllPlain
  <2> QED
    BY <1>3, <2>1, PlainUnits
<1>5. Len(f[m + 1]) <= Len(data) /\ \A j \in 1..Len(f[m + 1]) : data[j] = f[m + 1][j]
  BY <1>0, <1>2, KeyByKeyPrefix
<1> HIDE DEF m, p, L
<1>6. /\ Len(p) \in Nat /\ Len(p) >= 1 /\ Len(f[m]) \in Nat
      /\ Len(f[m + 1]) = Len(f[m]) + Len(p)
      /\ \A j \in 1..Len(p) : f[m + 1][Len(f[m]) + j] = p[j]
  <2>1. Len(f[m] \o p) = Len(f[m]) + Len(p) /\ Len(p) \in Nat /\ Len(f[m]) \in Nat /\ Len(p) # 0
    BY <1>3, ConcatProperties, EmptySeq
  <2>2. ASSUME NEW j \in 1..Len(p) PROVE (f[m] \o p)[Len(f[m]) + j] = p[j]
    <3>1. Len(f[m]) + j \in 1..Len(f[m]) + Len(p) /\ ~(Len(f[m]) + j <= Len(f[m]))
          /\ (Len(f[m]) + j) - Len(f[m]) = j
      BY <2>1
    <3> QED
      BY <1>3, <3>1, ConcatProperties
  <2> QED
    BY <1>3, <2>1, <2>2
<1>7. \A j \in 1..Len(p) : data[i + j - 1] = p[j]
  <2> SUFFICES ASSUME NEW j \in 1..Len(p) PROVE data[i + j - 1] = p[j]
    OBVIOUS
  <2>1. i + j - 1 = Len(f[m]) + j /\ Len(f[m]) + j \in 1..Len(f[m + 1])
    BY <1>1, <1>6
  <2> QED
    BY <1>5, <1>6, <2>1
<1>8. i + Len(p) - 1 <= Len(data) /\ i + Len(p) \in i + 1..Len(data) + 1
      /\ i + Len(p) = Len(f[m + 1]) + 1 /\ (i + Len(p)) - i = Len(p)
  BY <1>0, <1>1, <1>5, <1>6
<1>9. keystrokeEnd(data, i) = i + Len(p)
  BY <1>0, <1>3, <1>4, <1>7, <1>8, UnitEnd
<1> DEFINE e == i + Len(p)
           w == SubSeq(data, i, e - 1)
<1>10. w = p
  <2> HIDE DEF e
  <2>0. e \in i + 1..Len(data) + 1 /\ e - i = Len(p)
    BY <1>8 DEF e
  <2>1. w \in Seq(Byte) /\ Len(w) = Len(p) /\ \A k \in 1..Len(p) : w[k] = data[i + k - 1]
    BY <1>0, <2>0, Slice
  <2> HIDE DEF w
  <2>2. \A k \in 1..Len(p) : w[k] = p[k]
    BY <1>7, <2>1
  <2> QED
    BY <1>3, <2>1, <2>2, SeqEqual
<1>11. writes' = Append(writes, p) /\ i' = Len(f[m + 1]) + 1
  <2>1. writes' = Append(writes, SubSeq(data, i, keystrokeEnd(data, i) - 1))
        /\ i' = keystrokeEnd(data, i)
    BY DEF SendKey, Put
  <2> QED
    BY <1>8, <1>9, <1>10, <2>1
<1>12. /\ Len(writes') = m + 1 /\ writes'[m + 1] = p
       /\ \A k \in 1..m : writes'[k] = writes[k]
  BY <1>0, <1>3, <1>11 DEF m
<1>13. ASSUME NEW k \in 1..Len(writes') PROVE writes'[k] = parseSpecial(typed[k])
  <2>1. CASE k = m + 1
    BY <1>12, <2>1 DEF p
  <2>2. CASE k \in 1..m
    BY <1>12, <2>2 DEF AtKey, m
  <2> QED
    BY <1>0, <1>12, <2>1, <2>2
<1> QED
  BY <1>0, <1>2, <1>11, <1>12, <1>13 DEF AtKey, L

(* Every step keeps the writes and the keys together. *)
LEMMA KeyByKeyStep == ASSUME KeyInv, KeyInv', KeyByKeyInv, [Next]_vars PROVE KeyByKeyInv'
<1> SUFFICES ASSUME typed' # <<>>, AllPlain'
             PROVE  (pc' = "parse" => data' = <<>>) /\ (data' = <<>> \/ (\E f : Parsed(f))')
  BY DEF KeyByKeyInv
<1>0. /\ typed' = typed /\ typed # <<>> /\ AllPlain /\ typed \in Seq(Key)
      /\ pc = "parse" => data = <<>>
      /\ data = <<>> \/ \E f : Parsed(f)
  BY DEF Next, Parse, SessionEnds, Check, SendAll, SendKey, Finish, AllPlain, KeyByKeyInv,
     KeyInv, KeyType
<1>1. CASE Parse
  <2>1. CASE pc' = "err"
    BY <1>0, <1>1, <2>1 DEF Parse
  <2>2. CASE pc' # "err"
    <3>1. /\ data' = ParseAll(typed) /\ pc' = "check" /\ i' = i /\ writes' = writes
          /\ i = 1 /\ writes = <<>> /\ \A n \in 1..Len(typed) : parseSpecial(typed[n]) # <<>>
      BY <1>1, <2>2 DEF Parse, KeyInv, ProgressInv
    <3>2. PICK f : KeyByKey(f, typed) /\ ParseAll(typed) = f[Len(typed)]
      BY <1>0, ParsePrefixes DEF KeyByKey
    <3>3. Len(writes') = 0 /\ f[0] = <<>> /\ Len(f[0]) = 0 /\ Len(typed) \in Nat
      BY <1>0, <3>1, <3>2 DEF KeyByKey
    <3>4. AtKey(f)'
      BY <1>0, <3>1, <3>3 DEF AtKey
    <3>5. Parsed(f)'
      BY <1>0, <3>1, <3>2, <3>4 DEF Parsed
    <3> QED
      BY <3>1, <3>5
  <2> QED
    BY <2>1, <2>2
<1>2. ASSUME UNCHANGED <<typed, data, paced, i, writes>>, pc' = "parse" => pc = "parse"
      PROVE  (pc' = "parse" => data' = <<>>) /\ (data' = <<>> \/ (\E f : Parsed(f))')
  <2>1. ASSUME NEW f, Parsed(f) PROVE Parsed(f)'
    BY <1>2, <2>1 DEF Parsed, AtKey, pacing
  <2> QED
    BY <1>0, <1>2, <2>1
<1>3. CASE SessionEnds \/ Check \/ Finish \/ UNCHANGED vars
  <2>1. UNCHANGED <<typed, data, paced, i, writes>> /\ (pc' = "parse" => pc = "parse")
    BY <1>3 DEF SessionEnds, Check, Finish
  <2> QED
    BY <1>2, <2>1
<1>4. CASE SendAll
  <2>1. UNCHANGED <<typed, data, paced>> /\ ~pacing /\ ~pacing' /\ pc' \in {"ok", "err"}
    BY <1>4 DEF SendAll, Put, pacing
  <2>2. ASSUME NEW f, Parsed(f) PROVE Parsed(f)'
    BY <2>1, <2>2 DEF Parsed
  <2> QED
    BY <1>0, <2>1, <2>2
<1>5. CASE SendKey
  <2>1. UNCHANGED <<typed, data, paced>> /\ pacing /\ pc' \in {"write", "err"}
    BY <1>5 DEF SendKey, Put
  <2>2. CASE exit = "closed"
    <3>1. UNCHANGED <<typed, data, paced, i, writes>>
      BY <1>5, <2>2 DEF SendKey, Put
    <3> QED
      BY <1>2, <2>1, <3>1
  <2>3. ASSUME exit # "closed", NEW f, Parsed(f) PROVE Parsed(f)'
    <3>1. AtKey(f)
      BY <2>1, <2>3 DEF Parsed
    <3>2. AtKey(f)'
      BY <1>0, <1>5, <2>3, <3>1, NextKey
    <3> QED
      BY <2>1, <2>3, <3>2 DEF Parsed
  <2> QED
    BY <1>0, <2>1, <2>2, <2>3
<1> QED
  BY <1>1, <1>3, <1>4, <1>5 DEF Next

(* What the user typed as one key, if all keys are plain, is one write: for   *)
(* every number of keys, "ht send" neither splits a key nor joins two.      *)
THEOREM KeysWrittenWhole == Spec => [](AllPlain => OneWritePerKey)
<1>1. Init => KeyByKeyInv
  BY DEF Init, KeyByKeyInv
<1>2. KeyInv /\ KeyByKeyInv => (AllPlain => OneWritePerKey)
  <2> SUFFICES ASSUME KeyInv, KeyByKeyInv, AllPlain, pacing, typed # <<>>
               PROVE  /\ Len(writes) <= Len(typed)
                      /\ \A k \in 1..Len(writes) : writes[k] = parseSpecial(typed[k])
    BY DEF OneWritePerKey
  <2>1. data # <<>>
    BY DEF pacing
  <2>2. PICK f : Parsed(f)
    BY <2>1 DEF KeyByKeyInv
  <2> QED
    BY <2>2 DEF Parsed, AtKey
<1>3. KeyInv /\ KeyInv' /\ KeyByKeyInv /\ [Next]_vars => KeyByKeyInv'
  BY KeyByKeyStep
<1> QED
  BY <1>1, <1>2, <1>3, KeyInductive, PTL DEF Spec

(* So the property holds outright where users type plain keys only. *)
COROLLARY PlainKeysWrittenWhole ==
    ASSUME \A keys \in Typed : \A n \in 1..Len(keys) : keys[n] \in PlainKeys
    PROVE  Spec => []OneWritePerKey
<1>1. Init => AllPlain
  BY DEF Init, AllPlain
<1>2. AllPlain /\ [Next]_vars => AllPlain'
  BY DEF AllPlain, Next, Parse, SessionEnds, Check, SendAll, SendKey, Finish
<1> QED
  BY <1>1, <1>2, KeysWrittenWhole, PTL DEF Spec

=============================================================================
