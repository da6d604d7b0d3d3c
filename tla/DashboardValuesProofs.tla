------------------------ MODULE DashboardValuesProofs ------------------------
(***************************************************************************)
(* What is saved of an unedited form, for any names, streets, words and    *)
(* shares: a name loses at most the spaces after its first word, the block *)
(* of an address is read back as it was written, and a second save settles *)
(* what the first changed.                                                 *)
(***************************************************************************)
EXTENDS DashboardValues, SequenceTheorems, WellFoundedInduction, TLAPS

-----------------------------------------------------------------------------
(* Texts and names.                                                        *)

Characters == STRING \cup {Space, "a"}
Texts == Seq(Characters)
Trimmed == {t \in Texts : t # <<>> /\ t[1] # Space /\ t[Len(t)] # Space}

LEMMA LeastPosition ==
    ASSUME NEW n \in Nat, NEW S, S \subseteq 0..n, S # {}
    PROVE  \E i \in S : \A j \in S : i <= j
<1> DEFINE R == {p \in Nat \X Nat : p[1] < p[2]}
<1>1. OpToRel(<, Nat) = R
  BY Zenon DEF OpToRel
<1>2. IsWellFoundedOn(R, Nat)
  BY <1>1, NatLessThanWellFounded, Zenon
<1>3. PICK i \in S : \A j \in S : <<j, i>> \notin R
  <2>1. S \subseteq Nat
    OBVIOUS
  <2> HIDE DEF R
  <2> QED
    BY <1>2, <2>1, WFMin
<1>4. ASSUME NEW j \in S PROVE i <= j
  <2>1. j \in Nat /\ i \in Nat
    OBVIOUS
  <2>2. ~ (j < i)
    BY <1>3, <2>1
  <2> QED
    BY <2>1, <2>2
<1> QED
  BY <1>4

LEMMA MinPosition ==
    ASSUME NEW n \in Nat, NEW S, S \subseteq 0..n, S # {}
    PROVE  Min(S) \in S /\ \A j \in S : Min(S) <= j
BY LeastPosition DEF Min

LEMMA MaxPosition ==
    ASSUME NEW n \in Nat, NEW S, S \subseteq 0..n, S # {}
    PROVE  Max(S) \in S /\ \A j \in S : Max(S) >= j
<1> DEFINE T == {n - j : j \in S}
<1>1. T \subseteq 0..n /\ T # {}
  OBVIOUS
<1>2. PICK t \in T : \A u \in T : t <= u
  <2> HIDE DEF T
  <2> QED
    BY <1>1, LeastPosition
<1>3. PICK i \in S : t = n - i
  BY <1>2
<1>4. ASSUME NEW j \in S PROVE i >= j
  <2>1. t <= n - j
    BY <1>2
  <2> QED
    BY <1>3, <2>1
<1> QED
  BY <1>3, <1>4 DEF Max

LEMMA MinIs ==
    ASSUME NEW S, S \subseteq Int, NEW i \in S, \A j \in S : i <= j
    PROVE  Min(S) = i
<1>1. \A k \in S : (\A j \in S : k <= j) => k = i
  <2>1. \A k, l \in Int : k <= l /\ l <= k => k = l
    OBVIOUS
  <2> QED
    BY <2>1
<1> QED
  BY <1>1 DEF Min

LEMMA MaxIs ==
    ASSUME NEW S, S \subseteq Int, NEW i \in S, \A j \in S : i >= j
    PROVE  Max(S) = i
<1>1. \A k \in S : (\A j \in S : k >= j) => k = i
  <2>1. \A k, l \in Int : k >= l /\ l >= k => k = l
    OBVIOUS
  <2> QED
    BY <2>1
<1> QED
  BY <1>1 DEF Max

LEMMA SpaceIs == Space \in Characters
BY DEF Characters

LEMMA TextIs ==
    ASSUME NEW t \in Texts
    PROVE  Len(t) \in Nat /\ DOMAIN t = 1..Len(t) /\ \A k \in 1..Len(t) : t[k] \in Characters
BY LenProperties, ElementOfSeq DEF Texts

\* To trim keeps what lies between the first and the last letter.
LEMMA TrimIs ==
    ASSUME NEW t \in Texts, NEW i \in 1..Len(t), NEW j \in 1..Len(t), t[i] # Space, t[j] # Space,
           \A k \in 1..Len(t) : k < i \/ k > j => t[k] = Space
    PROVE  trim(t) = SubSeq(t, i, j)
<1> DEFINE letters == {k \in DOMAIN t : t[k] # Space}
<1>1. Len(t) \in Nat /\ DOMAIN t = 1..Len(t)
  BY TextIs
<1>2. letters \subseteq Int /\ i \in letters /\ j \in letters
  BY <1>1
<1>3. \A k \in letters : i <= k /\ j >= k
  BY <1>1
<1>4. Min(letters) = i /\ Max(letters) = j
  <2> HIDE DEF letters
  <2> QED
    BY <1>2, <1>3, MinIs, MaxIs
<1>5. letters # {}
  BY <1>2
<1> QED
  BY <1>4, <1>5 DEF trim

\* To trim a text that begins and ends with a letter leaves it as it is.
LEMMA TrimKeeps == ASSUME NEW t \in Trimmed PROVE trim(t) = t
<1>1. t \in Texts /\ t # <<>> /\ t[1] # Space /\ t[Len(t)] # Space
  BY DEF Trimmed
<1>2. Len(t) \in Nat \ {0}
  BY <1>1, EmptySeq DEF Texts
<1>3. trim(t) = SubSeq(t, 1, Len(t))
  BY <1>1, <1>2, TrimIs
<1> QED
  BY <1>1, <1>3, SubSeqFull DEF Texts

\* A part of a text that begins and ends with a letter.
LEMMA PartTrimmed ==
    ASSUME NEW t \in Texts, NEW i \in 1..Len(t), NEW j \in 1..Len(t), i <= j,
           t[i] # Space, t[j] # Space
    PROVE  SubSeq(t, i, j) \in Trimmed
<1>1. Len(t) \in Nat /\ i \in Int /\ j \in Int /\ \A k \in i..j : t[k] \in Characters
  BY TextIs
<1>2. /\ SubSeq(t, i, j) \in Seq(Characters) /\ Len(SubSeq(t, i, j)) = j - i + 1
      /\ \A k \in 1..(j - i + 1) : SubSeq(t, i, j)[k] = t[i + k - 1]
  BY <1>1, SubSeqProperties
<1>3. j - i + 1 \in Nat \ {0} /\ 1 \in 1..(j - i + 1) /\ j - i + 1 \in 1..(j - i + 1)
  BY <1>1
<1>4. i + 1 - 1 = i /\ i + (j - i + 1) - 1 = j
  BY <1>1
<1>5. SubSeq(t, i, j)[1] = t[i] /\ SubSeq(t, i, j)[j - i + 1] = t[j]
  BY <1>2, <1>3, <1>4
<1>6. SubSeq(t, i, j) # <<>>
  BY <1>2, <1>3, EmptySeq
<1> QED
  BY <1>2, <1>5, <1>6 DEF Trimmed, Texts

\* A text with a letter in it, and any text.
LEMMA TrimSome ==
    ASSUME NEW t \in Texts, NEW e \in 1..Len(t), t[e] # Space
    PROVE  trim(t) \in Trimmed
<1> DEFINE letters == {i \in DOMAIN t : t[i] # Space}
<1>1. Len(t) \in Nat /\ DOMAIN t = 1..Len(t)
  BY TextIs
<1>2. letters # {} /\ letters \subseteq 0..Len(t)
  BY <1>1
<1>3. /\ Min(letters) \in letters /\ Max(letters) \in letters
      /\ \A k \in letters : Min(letters) <= k
  <2> HIDE DEF letters
  <2> QED
    BY <1>1, <1>2, MinPosition, MaxPosition
<1>4. Min(letters) <= Max(letters)
  BY <1>3
<1>5. trim(t) = SubSeq(t, Min(letters), Max(letters))
  BY <1>2 DEF trim
<1>6. /\ Min(letters) \in 1..Len(t) /\ t[Min(letters)] # Space
      /\ Max(letters) \in 1..Len(t) /\ t[Max(letters)] # Space
  BY <1>1, <1>3
<1> HIDE DEF letters
<1> QED
  BY <1>4, <1>5, <1>6, PartTrimmed

LEMMA TrimTrims == ASSUME NEW t \in Texts PROVE trim(t) \in Trimmed \cup {<<>>}
<1>1. DOMAIN t = 1..Len(t)
  BY TextIs
<1>2. CASE {i \in DOMAIN t : t[i] # Space} = {}
  BY <1>2 DEF trim
<1>3. CASE {i \in DOMAIN t : t[i] # Space} # {}
  <2>1. PICK e \in 1..Len(t) : t[e] # Space
    BY <1>1, <1>3
  <2> QED
    BY <2>1, TrimSome
<1> QED
  BY <1>2, <1>3

Spaceless == {t \in Trimmed : \A i \in DOMAIN t : t[i] # Space}
Spaced(first, last) == first \o <<Space>> \o last

LEMMA TrimmedLen ==
    ASSUME NEW t \in Trimmed
    PROVE  /\ t \in Seq(Characters) /\ Len(t) \in Nat \ {0} /\ DOMAIN t = 1..Len(t)
           /\ t[1] # Space /\ t[Len(t)] # Space
<1>1. t \in Seq(Characters) /\ t # <<>>
  BY DEF Trimmed, Texts
<1> QED
  BY <1>1, EmptySeq, LenProperties DEF Trimmed

\* Two words with a space between them.
LEMMA SpacedText ==
    ASSUME NEW a \in Trimmed, NEW b \in Trimmed
    PROVE  /\ Spaced(a, b) \in Trimmed /\ Len(Spaced(a, b)) = Len(a) + 1 + Len(b)
           /\ \A i \in 1..(Len(a) + 1 + Len(b)) :
                 Spaced(a, b)[i] = IF i <= Len(a) THEN a[i]
                                   ELSE IF i = Len(a) + 1 THEN Space ELSE b[i - Len(a) - 1]
<1>1. /\ a \in Seq(Characters) /\ Len(a) \in Nat \ {0} /\ b \in Seq(Characters) /\ Len(b) \in Nat \ {0}
      /\ a[1] # Space /\ b[Len(b)] # Space
  BY TrimmedLen
<1>2. <<Space>> \in Seq(Characters) /\ Len(<<Space>>) = 1 /\ <<Space>>[1] = Space
  BY SpaceIs
<1> DEFINE c == a \o <<Space>>
<1>3. /\ c \in Seq(Characters) /\ Len(c) = Len(a) + 1
      /\ \A i \in 1..(Len(a) + 1) : c[i] = IF i <= Len(a) THEN a[i] ELSE <<Space>>[i - Len(a)]
  BY <1>1, <1>2, ConcatProperties
<1>4. c[Len(a) + 1] = Space /\ \A i \in 1..Len(a) : c[i] = a[i]
  BY <1>1, <1>2, <1>3
<1> HIDE DEF c
<1>5. /\ c \o b \in Seq(Characters) /\ Len(c \o b) = Len(c) + Len(b)
      /\ \A i \in 1..(Len(c) + Len(b)) : (c \o b)[i] = IF i <= Len(c) THEN c[i] ELSE b[i - Len(c)]
  BY <1>1, <1>3, ConcatProperties
<1>6. Spaced(a, b) = c \o b
  BY DEF Spaced, c
<1>7. ASSUME NEW i \in 1..(Len(a) + 1 + Len(b))
      PROVE  (c \o b)[i] = IF i <= Len(a) THEN a[i]
                           ELSE IF i = Len(a) + 1 THEN Space ELSE b[i - Len(a) - 1]
  BY <1>1, <1>3, <1>4, <1>5
<1>8. Len(c \o b) = Len(a) + 1 + Len(b) /\ c \o b # <<>>
  BY <1>1, <1>3, <1>5
<1>9. (c \o b)[1] = a[1] /\ (c \o b)[Len(a) + 1 + Len(b)] = b[Len(b)]
  <2>1. 1 \in 1..(Len(a) + 1 + Len(b)) /\ 1 <= Len(a)
    BY <1>1
  <2>2. (c \o b)[1] = a[1]
    BY <1>7, <2>1
  <2> DEFINE m == Len(a) + 1 + Len(b)
  <2>3. m \in 1..m /\ ~ (m <= Len(a)) /\ m # Len(a) + 1 /\ m - Len(a) - 1 = Len(b)
    BY <1>1
  <2>4. (c \o b)[m] = b[m - Len(a) - 1]
    <3> HIDE DEF m
    <3>1. \A i \in 1..(Len(a) + 1 + Len(b)) :
            (c \o b)[i] = IF i <= Len(a) THEN a[i]
                           ELSE IF i = Len(a) + 1 THEN Space ELSE b[i - Len(a) - 1]
      BY <1>7
    <3>2. m \in 1..(Len(a) + 1 + Len(b))
      BY <2>3 DEF m
    <3> QED
      BY <2>3, <3>1, <3>2
  <2> QED
    BY <2>2, <2>3, <2>4
<1> QED
  BY <1>1, <1>5, <1>6, <1>7, <1>8, <1>9 DEF Trimmed, Texts

\* What a form makes of a name, and what is saved of it.
Renamed(t) == buildFullName(splitFullName(t).first, splitFullName(t).last)

LEMMA OneWordKept == ASSUME NEW t \in Spaceless PROVE Renamed(t) = t
<1>1. t \in Trimmed /\ t \in Seq(Characters) /\ Len(t) \in Nat \ {0} /\ DOMAIN t = 1..Len(t)
  BY TrimmedLen DEF Spaceless
<1>2. splitFullName(t) = [first |-> t, last |-> <<>>]
  BY DEF splitFullName, Spaceless
<1>3. trim(t) = t
  BY <1>1, TrimKeeps
<1>4. trim(<<>>) = <<>>
  BY DEF trim
<1> DEFINE u == t \o <<Space>>
<1>5. u \o <<>> = u
  BY <1>1, ConcatEmptySeq
<1>6. /\ Len(u) = Len(t) + 1 /\ DOMAIN u = 1..(Len(t) + 1) /\ u[Len(t) + 1] = Space
      /\ \A i \in 1..Len(t) : u[i] = t[i]
  BY <1>1
<1>7. trim(u) = SubSeq(u, 1, Len(t))
  <2>1. u \in Texts
    BY <1>1, SpaceIs DEF Texts
  <2>2. /\ 1 \in 1..Len(u) /\ Len(t) \in 1..Len(u) /\ u[1] # Space /\ u[Len(t)] # Space
        /\ \A k \in 1..Len(u) : k < 1 \/ k > Len(t) => u[k] = Space
    BY <1>1, <1>6 DEF Spaceless
  <2> HIDE DEF u
  <2> QED
    BY <2>1, <2>2, TrimIs
<1>8. SubSeq(u, 1, Len(t)) = SubSeq(t, 1, Len(t))
  BY <1>1, SubSeqOfConcat1
<1>9. SubSeq(t, 1, Len(t)) = t
  BY <1>1, SubSeqFull
<1>10. Renamed(t) = trim(trim(t) \o <<Space>> \o trim(<<>>))
  BY <1>2 DEF Renamed, buildFullName
<1>11. trim(t) \o <<Space>> \o trim(<<>>) = u
  BY <1>3, <1>4, <1>5
<1> QED
  BY <1>7, <1>8, <1>9, <1>10, <1>11

\* A name of two words is split at its space.
LEMMA TwoWordsKept ==
    ASSUME NEW a \in Spaceless, NEW b \in Trimmed
    PROVE  Renamed(Spaced(a, b)) = Spaced(a, b)
<1> DEFINE t == Spaced(a, b)
           spaces == {i \in DOMAIN t : t[i] = Space}
<1>1. /\ a \in Trimmed /\ a \in Seq(Characters) /\ Len(a) \in Nat \ {0} /\ DOMAIN a = 1..Len(a)
      /\ b \in Seq(Characters) /\ Len(b) \in Nat \ {0}
  BY TrimmedLen DEF Spaceless
<1>2. /\ t \in Trimmed /\ Len(t) = Len(a) + 1 + Len(b)
      /\ \A i \in 1..(Len(a) + 1 + Len(b)) :
            t[i] = IF i <= Len(a) THEN a[i] ELSE IF i = Len(a) + 1 THEN Space ELSE b[i - Len(a) - 1]
  BY <1>1, SpacedText
<1>3. DOMAIN t = 1..(Len(a) + 1 + Len(b)) /\ t \in Seq(Characters)
  BY <1>2, TrimmedLen
<1> HIDE DEF t
<1>4. Len(a) + 1 \in spaces /\ \A i \in spaces : i >= Len(a) + 1
  BY <1>1, <1>2, <1>3 DEF Spaceless
<1>5. Min(spaces) = Len(a) + 1
  <2>1. spaces \subseteq Int
    BY <1>3
  <2>2. \A i \in spaces : Len(a) + 1 <= i
    BY <1>1, <1>3, <1>4
  <2> HIDE DEF spaces
  <2> QED
    BY <1>4, <2>1, <2>2, MinIs
<1>6. SubSeq(t, 1, Len(a)) = a
  <2>1. \A i \in 1..Len(a) : t[i] \in Characters /\ t[i] = a[i]
    BY <1>1, <1>2
  <2>2. /\ SubSeq(t, 1, Len(a)) \in Seq(Characters) /\ Len(SubSeq(t, 1, Len(a))) = Len(a)
        /\ \A i \in 1..Len(a) : SubSeq(t, 1, Len(a))[i] = a[i]
    BY <1>1, <2>1, SubSeqProperties
  <2> QED
    BY <1>1, <2>2, SeqEqual
<1>7. SubSeq(t, Len(a) + 2, Len(t)) = b
  <2>1. \A i \in (Len(a) + 2)..Len(t) : t[i] \in Characters /\ t[i] = b[i - Len(a) - 1]
    BY <1>1, <1>2
  <2>2. /\ SubSeq(t, Len(a) + 2, Len(t)) \in Seq(Characters)
        /\ Len(SubSeq(t, Len(a) + 2, Len(t))) = Len(b)
        /\ \A i \in 1..Len(b) : SubSeq(t, Len(a) + 2, Len(t))[i] = t[Len(a) + 2 + i - 1]
    BY <1>1, <1>2, <2>1, SubSeqProperties
  <2>3. \A i \in 1..Len(b) : SubSeq(t, Len(a) + 2, Len(t))[i] = b[i]
    BY <1>1, <1>2, <2>1, <2>2
  <2> QED
    BY <1>1, <2>2, <2>3, SeqEqual
<1>8. trim(a) = a /\ trim(b) = b /\ trim(t) = t
  BY <1>1, <1>2, TrimKeeps
<1>9. splitFullName(t) = [first |-> a, last |-> b]
  <2>1. spaces # {} /\ Min(spaces) - 1 = Len(a) /\ Min(spaces) + 1 = Len(a) + 2
    BY <1>1, <1>4, <1>5
  <2>2. splitFullName(t) = [first |-> SubSeq(t, 1, Min(spaces) - 1),
                            last |-> trim(SubSeq(t, Min(spaces) + 1, Len(t)))]
    BY <2>1 DEF splitFullName
  <2> QED
    BY <1>6, <1>7, <1>8, <2>1, <2>2
<1> QED
  BY <1>8, <1>9 DEF Renamed, buildFullName, Spaced, t

\* Where a name has two spaces after its first word.
TwoSpaces(t) ==
    \E i \in DOMAIN t :
        /\ t[i] = Space /\ t[i + 1] = Space
        /\ \A j \in 1..(i - 1) : t[j] # Space

\* Any other name is split at its first space, and only what is around it is lost.
LEMMA SplitAtSpace ==
    ASSUME NEW t \in Trimmed, t \notin Spaceless
    PROVE  \E a \in Spaceless, b \in Trimmed :
              /\ splitFullName(t) = [first |-> a, last |-> b]
              /\ t = Spaced(a, b) \/ TwoSpaces(t)
<1> DEFINE spaces == {i \in DOMAIN t : t[i] = Space}
           p == Min(spaces)
           a == SubSeq(t, 1, p - 1)
           rest == SubSeq(t, p + 1, Len(t))
<1>1. /\ t \in Texts /\ t \in Seq(Characters) /\ Len(t) \in Nat \ {0} /\ DOMAIN t = 1..Len(t)
      /\ t[1] # Space /\ t[Len(t)] # Space /\ \A k \in 1..Len(t) : t[k] \in Characters
  BY TrimmedLen, TextIs DEF Trimmed
<1>2. spaces # {} /\ spaces \subseteq 0..Len(t)
  BY <1>1 DEF Spaceless
<1>3. p \in spaces /\ \A k \in spaces : p <= k
  <2> HIDE DEF spaces
  <2> QED
    BY <1>1, <1>2, MinPosition
<1>4. splitFullName(t) = [first |-> a, last |-> trim(rest)]
  BY <1>2 DEF splitFullName
<1>5. p \in 2..(Len(t) - 1) /\ t[p] = Space /\ \A k \in 1..(p - 1) : t[k] # Space
  <2>1. p \in 1..Len(t) /\ t[p] = Space
    BY <1>1, <1>3
  <2>2. p # 1 /\ p # Len(t)
    BY <1>1, <2>1
  <2>3. ASSUME NEW k \in 1..(p - 1) PROVE t[k] # Space
    <3>1. k \in DOMAIN t /\ ~ (p <= k)
      BY <1>1, <2>1
    <3> QED
      BY <1>3, <3>1
  <2>4. p \in 2..(Len(t) - 1)
    <3>1. \A n \in Nat : \A q \in 1..n : q # 1 /\ q # n => q \in 2..(n - 1)
      OBVIOUS
    <3>2. Len(t) \in Nat
      BY <1>1
    <3> QED
      BY <2>1, <2>2, <3>1, <3>2, Zenon
  <2> QED
    BY <2>1, <2>3, <2>4, Zenon
<1> HIDE DEF p
<1>6. a \in Trimmed /\ Len(a) = p - 1 /\ DOMAIN a = 1..(p - 1) /\ \A k \in 1..(p - 1) : a[k] = t[k]
  <2>1. /\ p - 1 \in 1..Len(t) /\ 1 \in 1..Len(t) /\ 1 <= p - 1
        /\ p - 1 \in 1..(p - 1) /\ 1..(p - 1) \subseteq 1..Len(t)
    BY <1>1, <1>5
  <2>2. a \in Trimmed
    BY <1>1, <1>5, <2>1, PartTrimmed
  <2>3. /\ a \in Seq(Characters) /\ Len(a) = p - 1
        /\ \A k \in 1..(p - 1) : a[k] = t[k]
    BY <1>1, <1>5, <2>1, SubSeqProperties
  <2> QED
    BY <2>2, <2>3, TrimmedLen
<1>7. a \in Spaceless
  BY <1>5, <1>6 DEF Spaceless
<1>8. /\ rest \in Seq(Characters) /\ Len(rest) = Len(t) - p
      /\ \A k \in 1..(Len(t) - p) : rest[k] = t[p + k]
  <2>1. /\ p + 1 \in Int /\ Len(t) \in Int /\ \A k \in (p + 1)..Len(t) : t[k] \in Characters
        /\ p + 1 <= Len(t) + 1 /\ Len(t) - (p + 1) + 1 = Len(t) - p
    BY <1>1, <1>5
  <2>2. \A k \in 1..(Len(t) - p) : p + 1 + k - 1 = p + k
    BY <1>1, <1>5
  <2>3. /\ rest \in Seq(Characters) /\ Len(rest) = Len(t) - (p + 1) + 1
        /\ \A k \in 1..(Len(t) - (p + 1) + 1) : rest[k] = t[p + 1 + k - 1]
    BY <2>1, SubSeqProperties
  <2> QED
    BY <2>1, <2>2, <2>3
<1> HIDE DEF a, rest
<1>9. trim(rest) \in Trimmed
  <2>1. rest \in Texts
    BY <1>8 DEF Texts
  <2>2. Len(t) - p \in 1..Len(rest) /\ p + (Len(t) - p) = Len(t)
    BY <1>1, <1>5, <1>8
  <2>3. rest[Len(t) - p] # Space
    BY <1>1, <1>8, <2>2
  <2> QED
    BY <2>1, <2>2, <2>3, TrimSome
<1>10. CASE t[p + 1] = Space
  <2>1. p \in DOMAIN t
    BY <1>1, <1>5
  <2>2. TwoSpaces(t)
    BY <1>5, <1>10, <2>1 DEF TwoSpaces
  <2> QED
    BY <1>4, <1>7, <1>9, <2>2
<1>11. CASE t[p + 1] # Space
  <2>1. /\ p + 1 \in 1..Len(t) /\ Len(t) \in 1..Len(t) /\ p + 1 <= Len(t)
    BY <1>1, <1>5
  <2>2. rest \in Trimmed
    BY <1>1, <1>11, <2>1, PartTrimmed DEF rest
  <2>3. trim(rest) = rest
    BY <2>2, TrimKeeps
  <2>4. /\ Spaced(a, rest) \in Trimmed /\ Len(Spaced(a, rest)) = Len(t)
        /\ \A i \in 1..Len(t) :
              Spaced(a, rest)[i] = IF i <= p - 1 THEN a[i]
                                   ELSE IF i = p THEN Space ELSE rest[i - p]
    <3>1. /\ Spaced(a, rest) \in Trimmed /\ Len(Spaced(a, rest)) = Len(a) + 1 + Len(rest)
          /\ \A i \in 1..(Len(a) + 1 + Len(rest)) :
                Spaced(a, rest)[i] = IF i <= Len(a) THEN a[i]
                                     ELSE IF i = Len(a) + 1 THEN Space ELSE rest[i - Len(a) - 1]
      BY <1>6, <2>2, SpacedText
    <3>2. Len(a) + 1 + Len(rest) = Len(t) /\ Len(a) + 1 = p
      BY <1>1, <1>5, <1>6, <1>8
    <3>3. \A i \in 1..Len(t) : i - Len(a) - 1 = i - p
      BY <1>1, <1>5, <1>6
    <3> QED
      BY <1>6, <3>1, <3>2, <3>3
  <2>5. ASSUME NEW i \in 1..Len(t) PROVE Spaced(a, rest)[i] = t[i]
    <3>1. CASE i <= p - 1
      BY <1>1, <1>5, <1>6, <2>4, <3>1
    <3>2. CASE i = p
      BY <1>1, <1>5, <2>4, <3>2
    <3>3. CASE i > p
      <4>1. i - p \in 1..(Len(t) - p) /\ p + (i - p) = i /\ ~ (i <= p - 1) /\ i # p
        BY <1>1, <1>5, <3>3
      <4> QED
        BY <1>8, <2>4, <4>1
    <3> QED
      BY <1>1, <1>5, <3>1, <3>2, <3>3
  <2>6. t = Spaced(a, rest)
    <3>1. Spaced(a, rest) \in Seq(Characters)
      BY <2>4, TrimmedLen
    <3> QED
      BY <1>1, <2>4, <2>5, <3>1, SeqEqual
  <2> QED
    BY <1>4, <1>7, <2>2, <2>3, <2>6
<1> QED
  BY <1>10, <1>11

\* A name that is saved unedited changes only where it has two spaces after its
\* first word, and only once.
LEMMA NameSettles ==
    ASSUME NEW t \in Trimmed
    PROVE  /\ Renamed(t) \in Trimmed /\ Renamed(Renamed(t)) = Renamed(t)
           /\ Renamed(t) # t => TwoSpaces(t)
<1>1. CASE t \in Spaceless
  <2>1. Renamed(t) = t
    BY <1>1, OneWordKept
  <2> QED
    BY <2>1
<1>2. CASE t \notin Spaceless
  <2>1. PICK a \in Spaceless, b \in Trimmed :
           /\ splitFullName(t) = [first |-> a, last |-> b]
           /\ t = Spaced(a, b) \/ TwoSpaces(t)
    BY <1>2, SplitAtSpace
  <2>2. a \in Trimmed
    BY DEF Spaceless
  <2>3. Spaced(a, b) \in Trimmed
    BY <2>2, SpacedText
  <2>4. trim(a) = a /\ trim(b) = b /\ trim(Spaced(a, b)) = Spaced(a, b)
    BY <2>2, <2>3, TrimKeeps
  <2>5. Renamed(t) = Spaced(a, b)
    BY <2>1, <2>4 DEF Renamed, buildFullName, Spaced
  <2>6. Renamed(Spaced(a, b)) = Spaced(a, b)
    BY TwoWordsKept
  <2> QED
    BY <2>1, <2>3, <2>5, <2>6
<1> QED
  BY <1>1, <1>2

\* What is saved of two names typed.
LEMMA BuiltName ==
    ASSUME NEW a \in Trimmed \cup {<<>>}, NEW b \in Trimmed \cup {<<>>}
    PROVE  buildFullName(a, b) \in Trimmed \cup {<<>>}
<1>1. Trimmed \cup {<<>>} \subseteq Texts
  <2>1. <<>> \in Seq(Characters)
    BY EmptySeq
  <2> QED
    BY <2>1 DEF Trimmed, Texts
<1>2. trim(a) \in Texts /\ trim(b) \in Texts
  BY <1>1, TrimTrims
<1>3. trim(a) \o <<Space>> \o trim(b) \in Texts
  <2>1. <<Space>> \in Seq(Characters)
    BY SpaceIs
  <2> QED
    BY <1>2, <2>1, ConcatProperties DEF Texts
<1> QED
  BY <1>3, TrimTrims DEF buildFullName

-----------------------------------------------------------------------------
(* The block of an address.                                                *)

Zones == Words \cup {"Africa/Addis_Ababa"}
FilledMetas == {meta \in [metaKeys -> {""} \cup Zones] : meta["timezone"] # ""}
StreetLines == [key : {"street"}, value : STRING]
MetaLines == [key : metaKeys, value : Zones]
Lines == {META_START, META_END} \cup MetaLines \cup StreetLines
MetaLine(meta, k) == [key |-> k, value |-> meta[k]]

\* The lines of a block show each field of a set that is not empty, and nothing else.
Show(lines, meta, keys) ==
    /\ lines \in Seq(MetaLines)
    /\ \A i \in 1..Len(lines) : \E k \in keys : meta[k] # "" /\ lines[i] = MetaLine(meta, k)
    /\ \A k \in keys : meta[k] # "" => \E i \in 1..Len(lines) : lines[i] = MetaLine(meta, k)

LEMMA FilledFields ==
    ASSUME NEW meta \in FilledMetas
    PROVE  /\ meta["timezone"] # "" /\ "timezone" \in metaKeys
           /\ \A k \in metaKeys : meta[k] # "" => meta[k] \in Zones
           /\ meta = [k \in metaKeys |-> meta[k]]
BY DEF FilledMetas, metaKeys

LEMMA ShowOne ==
    ASSUME NEW meta \in FilledMetas, NEW k \in metaKeys
    PROVE  Show(IF meta[k] = "" THEN <<>> ELSE <<[key |-> k, value |-> meta[k]]>>, meta, {k})
<1>1. CASE meta[k] = ""
  <2>1. <<>> \in Seq(MetaLines) /\ Len(<<>>) = 0
    BY EmptySeq
  <2>2. \A i \in 1..Len(<<>>) : FALSE
    BY <2>1
  <2>3. Show(<<>>, meta, {k})
    BY <1>1, <2>1, <2>2, Zenon DEF Show
  <2> QED
    BY <1>1, <2>3
<1>2. CASE meta[k] # ""
  <2> DEFINE line == MetaLine(meta, k)
  <2>1. line \in MetaLines
    BY <1>2, FilledFields DEF MetaLine, MetaLines
  <2> HIDE DEF line
  <2>2. <<line>> \in Seq(MetaLines) /\ Len(<<line>>) = 1 /\ <<line>>[1] = line
    BY <2>1
  <2>3. \A i \in 1..Len(<<line>>) : <<line>>[i] = MetaLine(meta, k)
    BY <2>2 DEF line
  <2>4. 1 \in 1..Len(<<line>>)
    BY <2>2
  <2>5. Show(<<line>>, meta, {k})
    BY <1>2, <2>2, <2>3, <2>4, Zenon DEF Show
  <2> QED
    BY <1>2, <2>5 DEF line, MetaLine
<1> QED
  BY <1>1, <1>2

LEMMA ShowBoth ==
    ASSUME NEW meta, NEW a, NEW b, NEW K, NEW J, Show(a, meta, K), Show(b, meta, J)
    PROVE  Show(a \o b, meta, K \cup J)
<1>1. a \in Seq(MetaLines) /\ b \in Seq(MetaLines) /\ Len(a) \in Nat /\ Len(b) \in Nat
  BY LenProperties DEF Show
<1>2. /\ a \o b \in Seq(MetaLines) /\ Len(a \o b) = Len(a) + Len(b)
      /\ \A i \in 1..(Len(a) + Len(b)) : (a \o b)[i] = IF i <= Len(a) THEN a[i] ELSE b[i - Len(a)]
  BY <1>1, ConcatProperties
<1>3. ASSUME NEW i \in 1..Len(a \o b)
      PROVE  \E k \in K \cup J : meta[k] # "" /\ (a \o b)[i] = MetaLine(meta, k)
  <2>1. CASE i <= Len(a)
    <3>1. i \in 1..Len(a) /\ (a \o b)[i] = a[i]
      BY <1>1, <1>2, <2>1
    <3>2. PICK k \in K : meta[k] # "" /\ a[i] = MetaLine(meta, k)
      BY <3>1 DEF Show
    <3> QED
      BY <3>1, <3>2
  <2>2. CASE ~ (i <= Len(a))
    <3>1. i - Len(a) \in 1..Len(b) /\ (a \o b)[i] = b[i - Len(a)]
      BY <1>1, <1>2, <2>2
    <3>2. PICK k \in J : meta[k] # "" /\ b[i - Len(a)] = MetaLine(meta, k)
      BY <3>1 DEF Show
    <3> QED
      BY <3>1, <3>2
  <2> QED
    BY <2>1, <2>2
<1>4. ASSUME NEW k \in K \cup J, meta[k] # ""
      PROVE  \E i \in 1..Len(a \o b) : (a \o b)[i] = MetaLine(meta, k)
  <2>1. CASE k \in K
    <3>1. PICK i \in 1..Len(a) : a[i] = MetaLine(meta, k)
      BY <1>4, <2>1 DEF Show
    <3>2. i \in 1..Len(a \o b) /\ (a \o b)[i] = a[i]
      BY <1>1, <1>2
    <3> QED
      BY <3>1, <3>2
  <2>2. CASE k \in J
    <3>1. PICK i \in 1..Len(b) : b[i] = MetaLine(meta, k)
      BY <1>4, <2>2 DEF Show
    <3>2. Len(a) + i \in 1..Len(a \o b) /\ (a \o b)[Len(a) + i] = b[i]
      BY <1>1, <1>2
    <3> QED
      BY <3>1, <3>2
  <2> QED
    BY <2>1, <2>2
<1> QED
  BY <1>2, <1>3, <1>4 DEF Show

\* A block, and an address that begins with it.
Block(lines) == <<META_START>> \o lines \o <<META_END>>

LEMMA EncodeIs ==
    ASSUME NEW meta \in FilledMetas, NEW street
    PROVE  \E lines : /\ Show(lines, meta, metaKeys)
                      /\ encodeSchoolAddress(meta, street) = Block(lines) \o street
<1> DEFINE Line(k) == IF meta[k] = "" THEN <<>> ELSE <<[key |-> k, value |-> meta[k]]>>
           two == Line("timezone") \o Line("city")
           three == two \o Line("contact_name")
           four == three \o Line("contact_email")
           lines == four \o Line("notes")
<1>1. \A k \in metaKeys : Show(Line(k), meta, {k})
  BY ShowOne
<1> HIDE DEF Line
<1>2. Show(two, meta, {"timezone"} \cup {"city"})
  BY <1>1, ShowBoth DEF metaKeys
<1> HIDE DEF two
<1>3. Show(three, meta, {"timezone"} \cup {"city"} \cup {"contact_name"})
  BY <1>1, <1>2, ShowBoth DEF metaKeys
<1> HIDE DEF three
<1>4. Show(four, meta, {"timezone"} \cup {"city"} \cup {"contact_name"} \cup {"contact_email"})
  BY <1>1, <1>3, ShowBoth DEF metaKeys
<1> HIDE DEF four
<1>5. Show(lines, meta, {"timezone"} \cup {"city"} \cup {"contact_name"} \cup {"contact_email"}
                        \cup {"notes"})
  BY <1>1, <1>4, ShowBoth DEF metaKeys
<1> HIDE DEF lines
<1>6. Show(lines, meta, metaKeys)
  <2>1. {"timezone"} \cup {"city"} \cup {"contact_name"} \cup {"contact_email"} \cup {"notes"}
        = metaKeys
    BY DEF metaKeys
  <2> QED
    BY <1>5, <2>1
<1>7. lines # <<>>
  <2>1. PICK i \in 1..Len(lines) : TRUE
    BY <1>6, FilledFields DEF Show, metaKeys
  <2> QED
    BY <2>1, EmptySeq
<1>8. encodeSchoolAddress(meta, street) = Block(lines) \o street
  BY <1>7 DEF encodeSchoolAddress, Block, lines, four, three, two, Line
<1> QED
  BY <1>6, <1>8

LEMMA BlockLines ==
    ASSUME NEW meta \in FilledMetas, NEW lines, Show(lines, meta, metaKeys)
    PROVE  /\ Len(lines) \in Nat \ {0} /\ Block(lines) \in Seq(Lines)
           /\ Len(Block(lines)) = Len(lines) + 2
           /\ Block(lines)[1] = META_START /\ Block(lines)[Len(lines) + 2] = META_END
           /\ \A i \in 1..Len(lines) : Block(lines)[i + 1] = lines[i]
<1>1. lines \in Seq(MetaLines) /\ Len(lines) \in Nat
  BY LenProperties DEF Show
<1>2. Len(lines) # 0
  <2>1. PICK i \in 1..Len(lines) : TRUE
    BY FilledFields DEF Show, metaKeys
  <2> QED
    BY <1>1, <2>1
<1>3. lines \in Seq(Lines)
  BY <1>1, SeqMonotonic DEF Lines
<1> DEFINE head == <<META_START>>
           end == <<META_END>>
<1>4. /\ head \in Seq(Lines) /\ Len(head) = 1 /\ head[1] = META_START
      /\ end \in Seq(Lines) /\ Len(end) = 1 /\ end[1] = META_END
  BY DEF Lines
<1>5. Block(lines) = (head \o lines) \o end
  BY DEF Block
<1> HIDE DEF head, end
<1> DEFINE upper == head \o lines
<1>6. /\ upper \in Seq(Lines) /\ Len(upper) = Len(head) + Len(lines)
      /\ \A i \in 1..(Len(head) + Len(lines)) :
            upper[i] = IF i <= Len(head) THEN head[i] ELSE lines[i - Len(head)]
  BY <1>3, <1>4, ConcatProperties
<1>7. upper[1] = META_START /\ \A i \in 1..Len(lines) : upper[i + 1] = lines[i]
  <2>1. upper[1] = META_START
    <3>1. 1 \in 1..(Len(head) + Len(lines)) /\ 1 <= Len(head)
      BY <1>1, <1>4
    <3> QED
      BY <1>4, <1>6, <3>1
  <2>2. ASSUME NEW i \in 1..Len(lines) PROVE upper[i + 1] = lines[i]
    <3>1. i + 1 \in 1..(Len(head) + Len(lines)) /\ ~ (i + 1 <= Len(head)) /\ i + 1 - Len(head) = i
      BY <1>1, <1>4
    <3> QED
      BY <1>6, <3>1
  <2> QED
    BY <2>1, <2>2
<1>8. Len(upper) = Len(lines) + 1 /\ upper \in Seq(Lines)
  BY <1>1, <1>4, <1>6
<1> HIDE DEF upper
<1>9. /\ upper \o end \in Seq(Lines) /\ Len(upper \o end) = Len(upper) + Len(end)
      /\ \A i \in 1..(Len(upper) + Len(end)) :
            (upper \o end)[i] = IF i <= Len(upper) THEN upper[i] ELSE end[i - Len(upper)]
  <2>1. upper \in Seq(Lines) /\ end \in Seq(Lines)
    BY <1>4, <1>8
  <2> QED
    BY <2>1, ConcatProperties
<1>10. (upper \o end)[1] = META_START /\ (upper \o end)[Len(lines) + 2] = META_END
  <2>1. /\ 1 \in 1..(Len(upper) + Len(end)) /\ 1 <= Len(upper)
        /\ Len(lines) + 2 \in 1..(Len(upper) + Len(end)) /\ ~ (Len(lines) + 2 <= Len(upper))
        /\ Len(lines) + 2 - Len(upper) = 1
    BY <1>1, <1>4, <1>8
  <2> QED
    BY <1>4, <1>7, <1>9, <2>1
<1>11. ASSUME NEW i \in 1..Len(lines) PROVE (upper \o end)[i + 1] = lines[i]
  <2>1. i + 1 \in 1..(Len(upper) + Len(end)) /\ i + 1 <= Len(upper)
    BY <1>1, <1>4, <1>8
  <2> QED
    BY <1>7, <1>9, <2>1
<1>12. Len(upper) + Len(end) = Len(lines) + 2
  BY <1>1, <1>4, <1>8
<1> QED
  BY <1>1, <1>2, <1>5, <1>9, <1>10, <1>11, <1>12 DEF upper

\* Every line is that of a field, and none ends the block.
FieldLines(lines, meta) ==
    \A i \in 1..Len(lines) :
        /\ lines[i] # META_END
        /\ \E k \in metaKeys : meta[k] # "" /\ lines[i].key = k /\ lines[i].value = meta[k]

LEMMA ShownLines ==
    ASSUME NEW meta \in FilledMetas, NEW lines, Show(lines, meta, metaKeys)
    PROVE  FieldLines(lines, meta)
<1> SUFFICES ASSUME NEW i \in 1..Len(lines)
             PROVE  /\ lines[i] # META_END
                    /\ \E k \in metaKeys :
                          meta[k] # "" /\ lines[i].key = k /\ lines[i].value = meta[k]
  BY DEF FieldLines
<1>1. PICK k \in metaKeys : meta[k] # "" /\ lines[i] = MetaLine(meta, k)
  BY DEF Show
<1>2. lines[i].key = k /\ lines[i].value = meta[k]
  <2>1. MetaLine(meta, k).key = k /\ MetaLine(meta, k).value = meta[k]
    BY DEF MetaLine
  <2> QED
    BY <1>1, <2>1
<1>3. META_END.key = "end" /\ "end" \notin metaKeys
  BY DEF META_END, metaKeys
<1> QED
  BY <1>1, <1>2, <1>3

\* What is read of an address that begins with a block is what was written, whatever
\* follows the block, another one included.
LEMMA DecodeBlock ==
    ASSUME NEW meta \in FilledMetas, NEW lines, Show(lines, meta, metaKeys),
           NEW street \in Seq(Lines)
    PROVE  decodeSchoolAddress(Block(lines) \o street) = [meta |-> meta, street |-> street]
<1>0. FieldLines(lines, meta)
  BY ShownLines
<1> DEFINE address == Block(lines) \o street
           n == Len(lines)
           starts == {i \in DOMAIN address : address[i] = META_START}
           ends == {i \in DOMAIN address : i > 1 /\ address[i] = META_END}
                   \cup {Len(address) + 1}
           At(k) == {i \in 1..(n + 1) : address[i].key = k}
<1>1. /\ n \in Nat \ {0} /\ Block(lines) \in Seq(Lines) /\ Len(Block(lines)) = n + 2
      /\ Block(lines)[1] = META_START /\ Block(lines)[n + 2] = META_END
      /\ \A i \in 1..n : Block(lines)[i + 1] = lines[i]
  BY BlockLines
<1>2. Len(street) \in Nat
  BY LenProperties
<1>3. /\ address \in Seq(Lines) /\ Len(address) = Len(Block(lines)) + Len(street)
      /\ \A i \in 1..(Len(Block(lines)) + Len(street)) :
            address[i] = IF i <= Len(Block(lines)) THEN Block(lines)[i]
                         ELSE street[i - Len(Block(lines))]
  <2>1. Block(lines) \in Seq(Lines)
    BY <1>1
  <2> QED
    BY <2>1, ConcatProperties
<1> HIDE DEF n, address
<1>4. /\ Len(address) = n + 2 + Len(street) /\ DOMAIN address = 1..Len(address)
      /\ \A i \in 1..(n + 2) : address[i] = Block(lines)[i]
      /\ \A i \in 1..Len(street) : address[n + 2 + i] = street[i]
  <2>1. Len(address) = n + 2 + Len(street)
    BY <1>1, <1>3
  <2>2. DOMAIN address = 1..Len(address)
    BY <1>3, LenProperties
  <2>3. ASSUME NEW i \in 1..(n + 2) PROVE address[i] = Block(lines)[i]
    <3>1. i \in 1..(Len(Block(lines)) + Len(street)) /\ i <= Len(Block(lines))
      BY <1>1, <1>2
    <3> QED
      BY <1>3, <3>1
  <2>4. ASSUME NEW i \in 1..Len(street) PROVE address[n + 2 + i] = street[i]
    <3> DEFINE j == n + 2 + i
    <3>1. /\ j \in 1..(Len(Block(lines)) + Len(street))
          /\ ~ (j <= Len(Block(lines))) /\ j - Len(Block(lines)) = i
      BY <1>1, <1>2
    <3> HIDE DEF j
    <3>2. address[j] = street[i]
      BY <1>3, <3>1
    <3> QED
      BY <3>2 DEF j
  <2> QED
    BY <2>1, <2>2, <2>3, <2>4
<1>5. address[1] = META_START /\ address[n + 2] = META_END
  <2>1. 1 \in 1..(n + 2) /\ n + 2 \in 1..(n + 2)
    BY <1>1
  <2> QED
    BY <1>1, <1>4, <2>1
<1>6. ASSUME NEW i \in 2..(n + 1)
      PROVE  i - 1 \in 1..n /\ address[i] = lines[i - 1]
  <2>1. i - 1 \in 1..n /\ i - 1 + 1 = i /\ i \in 1..(n + 2)
    BY <1>1
  <2> QED
    BY <1>1, <1>4, <2>1
<1>7. starts # {} /\ Min(starts) = 1
  <2>1. 1 \in starts
    BY <1>1, <1>2, <1>4, <1>5
  <2>2. starts \subseteq Int /\ \A i \in starts : 1 <= i
    BY <1>4
  <2> HIDE DEF starts
  <2> QED
    BY <2>1, <2>2, MinIs
<1>8. Min(ends) = n + 2
  <2>1. n + 2 \in ends
    BY <1>1, <1>2, <1>4, <1>5
  <2>2. ends \subseteq Int
    BY <1>1, <1>2, <1>4
  <2>3. ASSUME NEW i \in ends PROVE n + 2 <= i
    <3>1. CASE i = Len(address) + 1
      BY <1>1, <1>2, <1>4, <3>1
    <3>2. CASE i # Len(address) + 1
      <4>1. i \in 1..Len(address) /\ i > 1 /\ address[i] = META_END
        BY <1>4, <3>2
      <4>2. i \notin 2..(n + 1)
        BY <1>0, <1>6, <4>1 DEF FieldLines, n
      <4> QED
        BY <1>1, <4>1, <4>2
    <3> QED
      BY <3>1, <3>2
  <2> HIDE DEF ends
  <2> QED
    BY <2>1, <2>2, <2>3, MinIs
<1>9. ASSUME NEW k \in metaKeys, NEW i \in At(k)
      PROVE  meta[k] # "" /\ address[i].value = meta[k]
  <2>1. i # 1
    <3>1. META_START.key = "start" /\ "start" \notin metaKeys
      BY DEF META_START, metaKeys
    <3> QED
      BY <1>5, <1>9, <3>1
  <2>2. i \in 2..(n + 1)
    BY <1>1, <2>1
  <2>3. i - 1 \in 1..n /\ address[i] = lines[i - 1]
    BY <1>6, <2>2
  <2>4. PICK j \in metaKeys :
           meta[j] # "" /\ lines[i - 1].key = j /\ lines[i - 1].value = meta[j]
    BY <1>0, <2>3 DEF FieldLines, n
  <2> QED
    BY <2>3, <2>4
<1>10. ASSUME NEW k \in metaKeys
       PROVE  meta[k] = IF At(k) = {} THEN "" ELSE address[Max(At(k))].value
  <2>1. CASE At(k) = {}
    <3>1. SUFFICES ASSUME meta[k] # "" PROVE FALSE
      BY <2>1
    <3>2. PICK i \in 1..n : lines[i] = MetaLine(meta, k)
      BY <3>1 DEF Show, n
    <3>3. i + 1 \in 2..(n + 1) /\ i + 1 \in 1..(n + 1) /\ i + 1 - 1 = i
      BY <1>1
    <3>4. address[i + 1].key = k
      BY <1>6, <3>2, <3>3 DEF MetaLine
    <3> QED
      BY <2>1, <3>3, <3>4
  <2>2. CASE At(k) # {}
    <3>1. At(k) \subseteq 0..(n + 1) /\ n + 1 \in Nat
      BY <1>1
    <3>2. Max(At(k)) \in At(k)
      <4> HIDE DEF At
      <4> QED
        BY <2>2, <3>1, MaxPosition
    <3> HIDE DEF At
    <3> QED
      BY <1>9, <2>2, <3>2
  <2> QED
    BY <2>1, <2>2
<1>11. SubSeq(address, n + 3, Len(address)) = street
  <2> DEFINE rest == SubSeq(address, n + 3, Len(address))
  <2>1. /\ n + 3 \in Int /\ Len(address) \in Int /\ n + 3 <= Len(address) + 1
        /\ Len(address) - (n + 3) + 1 = Len(street)
        /\ \A i \in (n + 3)..Len(address) : address[i] \in Lines
    <3>1. \A i \in 1..Len(address) : address[i] \in Lines
      BY <1>3, ElementOfSeq
    <3>2. (n + 3)..Len(address) \subseteq 1..Len(address)
      BY <1>1, <1>2, <1>4
    <3> QED
      BY <1>1, <1>2, <1>4, <3>1, <3>2
  <2>2. /\ rest \in Seq(Lines) /\ Len(rest) = Len(address) - (n + 3) + 1
        /\ \A i \in 1..(Len(address) - (n + 3) + 1) : rest[i] = address[n + 3 + i - 1]
    BY <2>1, SubSeqProperties
  <2>3. \A i \in 1..Len(street) : n + 3 + i - 1 = n + 2 + i
    BY <1>1, <1>2
  <2> HIDE DEF rest
  <2>4. Len(rest) = Len(street) /\ \A i \in 1..Len(street) : rest[i] = street[i]
    BY <1>4, <2>1, <2>2, <2>3
  <2>5. rest \in Seq(Lines)
    BY <2>2
  <2>6. rest = street
    BY <2>4, <2>5, SeqEqual
  <2> QED
    BY <2>6 DEF rest
<1>12. decodeSchoolAddress(address)
       = [meta |-> [k \in metaKeys |-> IF At(k) = {} THEN "" ELSE address[Max(At(k))].value],
          street |-> SubSeq(address, n + 3, Len(address))]
  <2>1. n + 2 - 1 = n + 1 /\ n + 2 + 1 = n + 3
    BY <1>1
  <2> DEFINE end == Min({i \in DOMAIN address : i > Min(starts) /\ address[i] = META_END}
                        \union {Len(address) + 1})
             From(k) == {i \in Min(starts)..(end - 1) : address[i].key = k}
  <2>2. end = n + 2
    BY <1>7, <1>8
  <2>3. decodeSchoolAddress(address)
        = [meta |-> [k \in metaKeys |-> IF From(k) = {} THEN "" ELSE address[Max(From(k))].value],
           street |-> SubSeq(address, end + 1, Len(address))]
    BY <1>7 DEF decodeSchoolAddress
  <2> HIDE DEF end, starts, ends
  <2>4. Min(starts)..(end - 1) = 1..(n + 1)
    <3>1. Min(starts) = 1
      BY <1>7
    <3>2. end - 1 = n + 1
      BY <1>1, <2>2
    <3> QED
      BY <3>1, <3>2
  <2>7. \A k : From(k) = At(k)
    BY <2>4
  <2> HIDE DEF From, At
  <2>5. [k \in metaKeys |-> IF From(k) = {} THEN "" ELSE address[Max(From(k))].value]
        = [k \in metaKeys |-> IF At(k) = {} THEN "" ELSE address[Max(At(k))].value]
    BY <2>7
  <2>6. SubSeq(address, end + 1, Len(address)) = SubSeq(address, n + 3, Len(address))
    BY <2>1, <2>2
  <2> QED
    BY <2>3, <2>5, <2>6
<1>13. meta = [k \in metaKeys |-> meta[k]]
  BY FilledFields
<1>14. [k \in metaKeys |-> IF At(k) = {} THEN "" ELSE address[Max(At(k))].value]
       = [k \in metaKeys |-> meta[k]]
  <2> HIDE DEF At
  <2> QED
    BY <1>10
<1> QED
  BY <1>11, <1>12, <1>13, <1>14 DEF address

\* So what is written into an address is read back from it.
LEMMA Decoded ==
    ASSUME NEW meta \in FilledMetas, NEW street \in Seq(Lines)
    PROVE  /\ decodeSchoolAddress(encodeSchoolAddress(meta, street)) = [meta |-> meta, street |-> street]
           /\ encodeSchoolAddress(meta, street) \in Seq(Lines)
           /\ encodeSchoolAddress(meta, street) # <<>>
<1>1. PICK lines : /\ Show(lines, meta, metaKeys)
                   /\ encodeSchoolAddress(meta, street) = Block(lines) \o street
  BY EncodeIs
<1>2. Len(lines) \in Nat \ {0} /\ Block(lines) \in Seq(Lines) /\ Len(Block(lines)) = Len(lines) + 2
  BY <1>1, BlockLines
<1>3. /\ Block(lines) \o street \in Seq(Lines)
      /\ Len(Block(lines) \o street) = Len(Block(lines)) + Len(street) /\ Len(street) \in Nat
  BY <1>2, ConcatProperties, LenProperties
<1>4. Block(lines) \o street # <<>>
  <2>1. Len(Block(lines) \o street) # 0
    BY <1>2, <1>3
  <2> QED
    BY <2>1, EmptySeq
<1> QED
  BY <1>1, <1>3, <1>4, DecodeBlock

\* An address without a block is all street.
LEMMA DecodedPlain ==
    ASSUME NEW street \in Seq(StreetLines)
    PROVE  decodeSchoolAddress(street) = [meta |-> [k \in metaKeys |-> ""], street |-> street]
<1>1. ASSUME NEW i \in DOMAIN street PROVE street[i] # META_START
  <2>1. street[i] \in StreetLines
    BY LenProperties, ElementOfSeq
  <2>2. street[i].key = "street" /\ META_START.key = "start"
    BY <2>1 DEF StreetLines, META_START
  <2> QED
    BY <2>2
<1>2. {i \in DOMAIN street : street[i] = META_START} = {}
  BY <1>1
<1> QED
  BY <1>2 DEF decodeSchoolAddress

-----------------------------------------------------------------------------
(* The records there are.                                                  *)

Addressed(streets) == {encodeSchoolAddress(meta, street) : meta \in FilledMetas, street \in streets}
Bare == Streets \cup {<<>>}
Addresses == Bare \cup Addressed(Bare \cup Addressed({<<>>}))

KeptChild == [full_name : Trimmed, status : RecordStatuses]
KeptClassroom == [age_group : Trimmed \cup {<<>>}, status : RecordStatuses]
KeptSchool == [address : Addresses, phone : {<<>>, <<"a">>}, status : RecordStatuses]
KeptCamera == [rtsp_url : Trimmed, status : EntityStatuses \cup {"OFFLINE", "ERROR"}]
Share(p) == <<p>>
Percentages == {<<>>} \cup {Share(p) : p \in 0..Whole}
KeptShare == [percentage : [Days -> Percentages]]

\* A name is trimmed, an address is a street with at most two blocks before it, and
\* the percentage of each day is one.
ValuesInv ==
    \/ recordKind = "child" /\ record \in KeptChild
    \/ recordKind = "classroom" /\ record \in KeptClassroom
    \/ recordKind = "school" /\ record \in KeptSchool
    \/ recordKind = "camera" /\ record \in KeptCamera
    \/ recordKind = "revenueShare" /\ record \in KeptShare

\* A form offers two of the three states, and keeps those two.
LEMMA StatusShown ==
    ASSUME NEW s \in RecordStatuses
    PROVE  /\ formStatus(s) \in EntityStatuses /\ formStatus(s) \in RecordStatuses
           /\ formStatus(formStatus(s)) = formStatus(s)
           /\ s # "BLOCKED" => formStatus(s) = s
BY DEF formStatus, RecordStatuses, EntityStatuses

LEMMA StatusOffered == EntityStatuses \subseteq RecordStatuses
BY DEF RecordStatuses

LEMMA NamesTrimmed == Names \subseteq Trimmed
<1> SUFFICES ASSUME NEW name \in Names PROVE name \in Trimmed
  OBVIOUS
<1>1. name \in Seq(STRING) /\ name # <<>> /\ name[1] # Space /\ name[Len(name)] # Space
  BY ValuesAssumption DEF ValuesAssumption
<1>2. STRING \subseteq Characters
  BY DEF Characters
<1>3. name \in Seq(Characters)
  BY <1>1, <1>2, SeqMonotonic
<1> QED
  BY <1>1, <1>3 DEF Trimmed, Texts

LEMMA LettersTrimmed ==
    /\ <<"a">> \in Trimmed /\ <<"a", "a">> \in Trimmed /\ <<>> \in Texts /\ <<Space>> \in Texts
    /\ trim(<<>>) = <<>>
<1>1. "a" \in Characters /\ "a" # Space /\ Space \in Characters
  BY DEF Characters, Space
<1>2. <<"a">> \in Trimmed
  <2>1. <<"a">> \in Seq(Characters) /\ <<"a">> # <<>> /\ <<"a">>[1] = "a" /\ Len(<<"a">>) = 1
    BY <1>1
  <2> QED
    BY <1>1, <2>1 DEF Trimmed, Texts
<1>3. <<"a", "a">> \in Trimmed
  <2>1. /\ <<"a", "a">> \in Seq(Characters) /\ <<"a", "a">> # <<>> /\ <<"a", "a">>[1] = "a"
        /\ Len(<<"a", "a">>) = 2 /\ <<"a", "a">>[2] = "a"
    BY <1>1
  <2> QED
    BY <1>1, <2>1 DEF Trimmed, Texts
<1>4. <<>> \in Texts /\ <<Space>> \in Texts
  BY <1>1, EmptySeq DEF Texts
<1>5. trim(<<>>) = <<>>
  BY DEF trim
<1> QED
  BY <1>2, <1>3, <1>4, <1>5

LEMMA NothingTrimmed == \A t \in Trimmed : t # <<>> /\ t \in Texts /\ trim(t) = t
BY TrimKeeps DEF Trimmed

-----------------------------------------------------------------------------
(* Children, classrooms, cameras and revenue shares.                       *)

LEMMA ChildSaved ==
    ASSUME NEW r \in KeptChild
    PROVE  Saved("child", r, FormOf("child", r))
           = [full_name |-> Renamed(r.full_name), status |-> formStatus(r.status)]
<1>1. r.full_name \in Trimmed
  BY DEF KeptChild
<1>2. trim(r.full_name) = r.full_name /\ Renamed(r.full_name) # <<>>
  BY <1>1, NameSettles, NothingTrimmed
<1>3. FormOf("child", r) = [first |-> splitFullName(r.full_name).first,
                            last |-> splitFullName(r.full_name).last,
                            status |-> formStatus(r.status)]
  BY <1>2 DEF FormOf, childToFormValues
<1> QED
  BY <1>2, <1>3 DEF Saved, updateChild, Coalesce, Renamed

LEMMA ChildKept ==
    ASSUME NEW r \in KeptChild,
           NEW values \in {FormOf("child", r)} \cup Typed("child", FormOf("child", r))
    PROVE  Saved("child", r, values) \in KeptChild
<1>1. r.full_name \in Trimmed /\ r.status \in RecordStatuses
  BY DEF KeptChild
<1>2. CASE values = FormOf("child", r)
  BY <1>1, <1>2, ChildSaved, NameSettles, StatusShown DEF KeptChild
<1>3. CASE values \in Typed("child", FormOf("child", r))
  <2>1. /\ values.first \in Trimmed \cup {<<>>} /\ values.last \in Trimmed \cup {<<>>}
        /\ values.status \in EntityStatuses
    BY <1>3, NamesTrimmed DEF Typed
  <2>2. buildFullName(values.first, values.last) \in Trimmed \cup {<<>>}
    BY <2>1, BuiltName
  <2> QED
    BY <1>1, <2>1, <2>2, StatusOffered DEF Saved, updateChild, Coalesce, KeptChild
<1> QED
  BY <1>2, <1>3

LEMMA ClassroomSaved ==
    ASSUME NEW r \in KeptClassroom
    PROVE  Saved("classroom", r, FormOf("classroom", r))
           = [age_group |-> r.age_group, status |-> formStatus(r.status)]
<1>1. r.age_group \in Trimmed \cup {<<>>}
  BY DEF KeptClassroom
<1>2. trim(r.age_group) = r.age_group
  BY <1>1, NothingTrimmed, LettersTrimmed
<1> QED
  BY <1>1, <1>2 DEF FormOf, classroomToFormValues, Saved, updateClassroom, Coalesce

LEMMA ClassroomKept ==
    ASSUME NEW r \in KeptClassroom,
           NEW values \in {FormOf("classroom", r)} \cup Typed("classroom", FormOf("classroom", r))
    PROVE  Saved("classroom", r, values) \in KeptClassroom
<1>1. CASE values = FormOf("classroom", r)
  BY <1>1, ClassroomSaved, StatusShown DEF KeptClassroom
<1>2. CASE values \in Typed("classroom", FormOf("classroom", r))
  <2>1. values.notes \in Names \cup {<<>>, <<Space>>} /\ values.status \in EntityStatuses
    BY <1>2 DEF Typed
  <2>2. values.notes \in Texts
    BY <2>1, NamesTrimmed, NothingTrimmed, LettersTrimmed
  <2>3. trim(values.notes) \in Trimmed \cup {<<>>}
    BY <2>2, TrimTrims
  <2>4. r.age_group \in Trimmed \cup {<<>>}
    BY DEF KeptClassroom
  <2> QED
    BY <2>1, <2>3, <2>4, StatusOffered DEF Saved, updateClassroom, Coalesce, KeptClassroom
<1> QED
  BY <1>1, <1>2

LEMMA CameraSaved ==
    ASSUME NEW r \in KeptCamera
    PROVE  Saved("camera", r, FormOf("camera", r))
           = [rtsp_url |-> r.rtsp_url, status |-> formStatus(r.status)]
BY LettersTrimmed DEF FormOf, cameraToFormValues, Saved, toUpdateCameraInput, Coalesce

LEMMA CameraKept ==
    ASSUME NEW r \in KeptCamera,
           NEW values \in {FormOf("camera", r)} \cup Typed("camera", FormOf("camera", r))
    PROVE  Saved("camera", r, values) \in KeptCamera
<1>1. r.rtsp_url \in Trimmed
  BY DEF KeptCamera
<1>2. CASE values = FormOf("camera", r)
  BY <1>1, <1>2, CameraSaved DEF KeptCamera, formStatus, EntityStatuses
<1>3. CASE values \in Typed("camera", FormOf("camera", r))
  <2>1. values.rtsp_url \in {<<>>, <<"a">>, <<"a", "a">>} /\ values.status \in EntityStatuses
    BY <1>3 DEF Typed
  <2>2. trim(values.rtsp_url) \in Trimmed \cup {<<>>}
    BY <2>1, NothingTrimmed, LettersTrimmed
  <2> QED
    BY <1>1, <2>1, <2>2 DEF Saved, toUpdateCameraInput, Coalesce, KeptCamera
<1> QED
  BY <1>2, <1>3

LEMMA WholeIs == Whole \in Nat /\ DefaultShare \in 0..Whole
<1>1. Whole \in Nat /\ DefaultShare \in Nat /\ DefaultShare <= Whole
  BY DEF Whole, DefaultShare
<1> QED
  BY <1>1

LEMMA HorizonIs == Horizon \in Nat
BY ValuesAssumption, Zenon DEF ValuesAssumption

LEMMA DaysAre == Days \subseteq Int /\ 0 \in Days /\ \A day \in Days : day >= 0
BY HorizonIs DEF Days

\* The form's share from today on.
Always(p) == [percentage |-> [day \in Days |-> Share(p)]]

LEMMA ShareSaved ==
    ASSUME NEW r \in KeptShare
    PROVE  \E p \in 0..Whole :
              /\ Saved("revenueShare", r, FormOf("revenueShare", r)) = Always(p)
              /\ r.percentage[0] # <<>> => r.percentage[0] = Share(p)
<1>1. r.percentage[0] \in Percentages
  BY DaysAre DEF KeptShare
<1>2. PICK p \in 0..Whole :
         /\ FormOf("revenueShare", r) = [school |-> p, platform |-> Whole - p, active_from |-> 0]
         /\ r.percentage[0] # <<>> => r.percentage[0] = Share(p)
  <2>1. CASE r.percentage[0] = <<>>
    BY <2>1, WholeIs DEF FormOf, revenueShareToFormValues
  <2>2. CASE r.percentage[0] # <<>>
    <3>1. PICK p \in 0..Whole : r.percentage[0] = Share(p)
      BY <1>1, <2>2 DEF Percentages
    <3>2. Share(p)[1] = p
      BY DEF Share
    <3> QED
      BY <2>2, <3>1, <3>2 DEF FormOf, revenueShareToFormValues
  <2> QED
    BY <2>1, <2>2
<1> DEFINE form == FormOf("revenueShare", r)
<1>3. form.school = p /\ form.platform = Whole - p /\ form.active_from = 0
  BY <1>2
<1> HIDE DEF form
<1>4. revenueShareFormSchema(form)
  <2>1. Whole - p \in 0..Whole /\ p + (Whole - p) = Whole
    BY WholeIs
  <2> QED
    BY <1>3, <2>1 DEF revenueShareFormSchema
<1>5. Saved("revenueShare", r, form) = Always(p)
  <2>1. setSchoolRevenueShare(r, form)
        = [percentage |-> [day \in Days |-> IF day >= form.active_from THEN <<form.school>>
                                            ELSE r.percentage[day]]]
    BY <1>4 DEF setSchoolRevenueShare
  <2>2. [day \in Days |-> IF day >= form.active_from THEN <<form.school>> ELSE r.percentage[day]]
        = [day \in Days |-> Share(p)]
    BY <1>3, DaysAre DEF Share
  <2>3. Saved("revenueShare", r, form) = setSchoolRevenueShare(r, form)
    BY DEF Saved
  <2> QED
    BY <2>1, <2>2, <2>3 DEF Always
<1> QED
  BY <1>2, <1>5 DEF form

LEMMA ShareKept ==
    ASSUME NEW r \in KeptShare, NEW values
    PROVE  Saved("revenueShare", r, values) \in KeptShare
<1>1. CASE revenueShareFormSchema(values)
  <2>1. <<values.school>> \in Percentages
    BY <1>1 DEF revenueShareFormSchema, Percentages, Share
  <2>2. \A day \in Days : r.percentage[day] \in Percentages
    BY DEF KeptShare
  <2>3. [day \in Days |-> IF day >= values.active_from THEN <<values.school>>
                          ELSE r.percentage[day]] \in [Days -> Percentages]
    BY <2>1, <2>2
  <2>4. Saved("revenueShare", r, values)
        = [percentage |-> [day \in Days |-> IF day >= values.active_from THEN <<values.school>>
                                            ELSE r.percentage[day]]]
    BY <1>1 DEF Saved, setSchoolRevenueShare
  <2> QED
    BY <2>3, <2>4 DEF KeptShare
<1>2. CASE ~ revenueShareFormSchema(values)
  <2>1. Saved("revenueShare", r, values) = r
    BY <1>2 DEF Saved, setSchoolRevenueShare
  <2> QED
    BY <2>1
<1> QED
  BY <1>1, <1>2

-----------------------------------------------------------------------------
(* Schools.                                                                *)

LEMMA StreetsAre ==
    /\ Bare \subseteq Seq(StreetLines) /\ Bare \subseteq Seq(Lines)
    /\ Addressed({<<>>}) \subseteq Seq(Lines)
<1>1. \A street \in Streets : street \in Seq(StreetLines)
  BY ValuesAssumption DEF ValuesAssumption, StreetLines
<1>2. <<>> \in Seq(StreetLines) /\ <<>> \in Seq(Lines)
  BY EmptySeq
<1>3. Bare \subseteq Seq(StreetLines)
  BY <1>1, <1>2 DEF Bare
<1>4. Bare \subseteq Seq(Lines)
  <2>1. StreetLines \subseteq Lines
    BY DEF Lines
  <2> QED
    BY <1>3, <2>1, SeqMonotonic
<1>5. Addressed({<<>>}) \subseteq Seq(Lines)
  <2> SUFFICES ASSUME NEW address \in Addressed({<<>>}) PROVE address \in Seq(Lines)
    OBVIOUS
  <2>1. PICK meta \in FilledMetas : address = encodeSchoolAddress(meta, <<>>)
    BY DEF Addressed
  <2> QED
    BY <1>2, <2>1, Decoded
<1> QED
  BY <1>3, <1>4, <1>5

LEMMA FormStatus == ASSUME NEW r PROVE FormOf("school", r).status = formStatus(r.status)
BY DEF FormOf, schoolDetailToFormValues, normalizeSchool

\* The form shows the street, or the address as a whole where there is none.
LEMMA FormBare ==
    ASSUME NEW r \in KeptSchool, r.address \in Bare
    PROVE  /\ FormOf("school", r).meta \in FilledMetas /\ FormOf("school", r).address = r.address
           /\ FormOf("school", r).phone = r.phone /\ FormOf("school", r).status = formStatus(r.status)
           /\ decodeSchoolAddress(r.address).meta["timezone"] = ""
<1> DEFINE blank == [k \in metaKeys |-> ""]
           zoned == [k \in metaKeys |-> IF k = "timezone" /\ blank[k] = "" THEN "Africa/Addis_Ababa"
                                       ELSE blank[k]]
<1>1. decodeSchoolAddress(r.address) = [meta |-> blank, street |-> r.address]
  BY StreetsAre, DecodedPlain
<1>2. blank["timezone"] = ""
  BY DEF metaKeys
<1>3. zoned \in FilledMetas
  <2>1. "Africa/Addis_Ababa" # "" /\ "timezone" \in metaKeys
    BY DEF metaKeys
  <2> QED
    BY <2>1 DEF FilledMetas, Zones
<1> HIDE DEF blank
<1>4. normalizeSchool(r) = [meta |-> blank, phone |-> r.phone, status |-> r.status,
                            address |-> r.address]
  BY <1>1 DEF normalizeSchool
<1>5. FormOf("school", r) = [meta |-> zoned, phone |-> r.phone,
                             status |-> formStatus(r.status), address |-> r.address]
  <2>1. FormOf("school", r) = schoolDetailToFormValues(r)
    BY DEF FormOf
  <2>2. /\ normalizeSchool(r).meta = blank /\ normalizeSchool(r).phone = r.phone
        /\ normalizeSchool(r).status = r.status /\ normalizeSchool(r).address = r.address
    BY <1>4
  <2> QED
    BY <2>1, <2>2 DEF schoolDetailToFormValues
<1> HIDE DEF zoned
<1>6. decodeSchoolAddress(r.address).meta["timezone"] = ""
  <2>1. decodeSchoolAddress(r.address).meta = blank
    BY <1>1
  <2> QED
    BY <1>2, <2>1
<1>7. /\ FormOf("school", r).meta = zoned /\ FormOf("school", r).address = r.address
      /\ FormOf("school", r).phone = r.phone /\ FormOf("school", r).status = formStatus(r.status)
  BY <1>5
<1> QED
  BY <1>3, <1>6, <1>7, Zenon

LEMMA FormAddressed ==
    ASSUME NEW r, NEW meta \in FilledMetas, NEW street \in Seq(Lines),
           r.address = encodeSchoolAddress(meta, street)
    PROVE  /\ FormOf("school", r).meta = meta
           /\ FormOf("school", r).address = IF street = <<>> THEN r.address ELSE street
           /\ FormOf("school", r).phone = r.phone
           /\ decodeSchoolAddress(r.address).street = street
<1> DEFINE shown == IF street = <<>> THEN r.address ELSE street
           zoned == [k \in metaKeys |-> IF k = "timezone" /\ meta[k] = "" THEN "Africa/Addis_Ababa"
                                       ELSE meta[k]]
<1>1. decodeSchoolAddress(r.address) = [meta |-> meta, street |-> street]
  BY Decoded
<1>2. normalizeSchool(r) = [meta |-> meta, phone |-> r.phone, status |-> r.status,
                            address |-> shown]
  BY <1>1 DEF normalizeSchool
<1>3. zoned = meta
  BY FilledFields
<1> HIDE DEF shown
<1>4. FormOf("school", r) = [meta |-> zoned, phone |-> r.phone,
                             status |-> formStatus(r.status), address |-> shown]
  <2>1. FormOf("school", r) = schoolDetailToFormValues(r)
    BY DEF FormOf
  <2>2. /\ normalizeSchool(r).meta = meta /\ normalizeSchool(r).phone = r.phone
        /\ normalizeSchool(r).status = r.status /\ normalizeSchool(r).address = shown
    BY <1>2
  <2> QED
    BY <2>1, <2>2 DEF schoolDetailToFormValues
<1> HIDE DEF zoned
<1> QED
  BY <1>1, <1>3, <1>4 DEF shown

LEMMA SchoolSaved ==
    ASSUME NEW r \in KeptSchool, NEW values,
           values.meta \in FilledMetas, values.address \in Seq(Lines)
    PROVE  Saved("school", r, values)
           = [address |-> encodeSchoolAddress(values.meta, values.address),
              phone |-> Coalesce(values.phone, r.phone), status |-> values.status]
<1>1. encodeSchoolAddress(values.meta, values.address) # <<>>
  BY Decoded
<1> QED
  BY <1>1 DEF Saved, updateSchool, Coalesce

\* What a form of a school holds: of the address, no more than one block.
LEMMA SchoolForms ==
    ASSUME NEW r \in KeptSchool
    PROVE  /\ FormOf("school", r).meta \in FilledMetas
           /\ FormOf("school", r).address \in Bare \cup Addressed({<<>>})
           /\ FormOf("school", r).phone = r.phone /\ FormOf("school", r).status = formStatus(r.status)
<1>1. CASE r.address \in Bare
  BY <1>1, FormBare
<1>2. CASE r.address \notin Bare
  <2>1. PICK meta \in FilledMetas, street \in Bare \cup Addressed({<<>>}) :
           r.address = encodeSchoolAddress(meta, street)
    BY <1>2 DEF KeptSchool, Addresses, Addressed
  <2>2. street \in Seq(Lines)
    BY StreetsAre
  <2>3. street = <<>> => r.address \in Addressed({<<>>})
    BY <2>1 DEF Addressed
  <2> HIDE DEF Addressed
  <2> QED
    BY <2>1, <2>2, <2>3, FormAddressed, FormStatus
<1> QED
  BY <1>1, <1>2

LEMMA SchoolKept ==
    ASSUME NEW r \in KeptSchool,
           NEW values \in {FormOf("school", r)} \cup Typed("school", FormOf("school", r))
    PROVE  Saved("school", r, values) \in KeptSchool /\ updateSchoolLimited(r, values) \in KeptSchool
<1>1. /\ values.meta \in FilledMetas /\ values.address \in Bare \cup Addressed({<<>>})
      /\ values.phone \in {<<>>, <<"a">>} /\ values.status \in EntityStatuses
  <2>1. CASE values = FormOf("school", r)
    BY <2>1, SchoolForms, StatusShown DEF KeptSchool
  <2>2. CASE values \in Typed("school", FormOf("school", r))
    <3>1. values.meta \in Metas
      BY <2>2 DEF Typed
    <3>2. values.meta \in FilledMetas
      BY <3>1 DEF Metas, FilledMetas, Zones
    <3>3. values.address \in Streets \cup {<<>>, FormOf("school", r).address}
      BY <2>2 DEF Typed
    <3>4. values.phone \in {<<>>, <<"a">>} /\ values.status \in EntityStatuses
      BY <2>2 DEF Typed
    <3> QED
      BY <3>2, <3>3, <3>4, SchoolForms DEF Bare
  <2> QED
    BY <2>1, <2>2
<1>2. values.address \in Seq(Lines)
  BY <1>1, StreetsAre
<1>3. encodeSchoolAddress(values.meta, values.address) \in Addresses
  BY <1>1 DEF Addresses, Addressed
<1>4. r.phone \in {<<>>, <<"a">>} /\ r.status \in RecordStatuses
  BY DEF KeptSchool
<1>5. Coalesce(values.phone, r.phone) \in {<<>>, <<"a">>}
  BY <1>1, <1>4 DEF Coalesce
<1>6. Saved("school", r, values)
      = [address |-> encodeSchoolAddress(values.meta, values.address),
         phone |-> Coalesce(values.phone, r.phone), status |-> values.status]
  BY <1>1, <1>2, SchoolSaved
<1>7. Saved("school", r, values) \in KeptSchool
  BY <1>1, <1>3, <1>5, <1>6, StatusOffered DEF KeptSchool
<1>8. updateSchoolLimited(r, values)
      = [address |-> encodeSchoolAddress(values.meta, values.address),
         phone |-> Coalesce(values.phone, r.phone), status |-> r.status]
  BY <1>6 DEF updateSchoolLimited, Saved
<1>9. updateSchoolLimited(r, values) \in KeptSchool
  BY <1>3, <1>4, <1>5, <1>8 DEF KeptSchool
<1> QED
  BY <1>7, <1>9

Resaved(kind, r) == Saved(kind, r, FormOf(kind, r))

LEMMA SchoolResaved ==
    ASSUME NEW r \in KeptSchool
    PROVE  /\ Resaved("school", r) \in KeptSchool
           /\ Resaved("school", r)
              = [address |-> encodeSchoolAddress(FormOf("school", r).meta, FormOf("school", r).address),
                 phone |-> r.phone, status |-> formStatus(r.status)]
<1>1. /\ FormOf("school", r).meta \in FilledMetas /\ FormOf("school", r).address \in Seq(Lines)
      /\ FormOf("school", r).phone = r.phone /\ FormOf("school", r).status = formStatus(r.status)
  BY SchoolForms, StreetsAre
<1>2. Coalesce(r.phone, r.phone) = r.phone
  BY DEF Coalesce
<1>3. Resaved("school", r) \in KeptSchool
  BY SchoolKept DEF Resaved
<1> QED
  BY <1>1, <1>2, <1>3, SchoolSaved DEF Resaved

\* A block with a street after it is written as it was read.
LEMMA StreetedSettled ==
    ASSUME NEW r \in KeptSchool, NEW meta \in FilledMetas, NEW street \in Seq(Lines),
           street # <<>>, r.address = encodeSchoolAddress(meta, street),
           formStatus(r.status) = r.status
    PROVE  Resaved("school", r) = r
<1>1. FormOf("school", r).meta = meta /\ FormOf("school", r).address = street
  BY FormAddressed
<1>2. r = [address |-> r.address, phone |-> r.phone, status |-> r.status]
  BY DEF KeptSchool
<1> QED
  BY <1>1, <1>2, SchoolResaved

\* Without a street, the block is saved in its place, and then stays there.
LEMMA SchoolSettles ==
    ASSUME NEW r \in KeptSchool
    PROVE  /\ Resaved("school", r) # r
              => \/ r.status = "BLOCKED"
                 \/ decodeSchoolAddress(r.address).meta["timezone"] = ""
                 \/ decodeSchoolAddress(r.address).street = <<>>
           /\ LET settled == Resaved("school", Resaved("school", r))
              IN Resaved("school", settled) = settled
<1> DEFINE again == Resaved("school", r)
           settled == Resaved("school", again)
           form == FormOf("school", r)
<1>1. /\ form.meta \in FilledMetas /\ form.address \in Seq(Lines)
      /\ again \in KeptSchool /\ again.address = encodeSchoolAddress(form.meta, form.address)
      /\ again.status = formStatus(r.status)
  <2>1. form.meta \in FilledMetas /\ form.address \in Seq(Lines)
    BY SchoolForms, StreetsAre
  <2> HIDE DEF form
  <2>2. /\ again \in KeptSchool /\ again.address = encodeSchoolAddress(form.meta, form.address)
        /\ again.status = formStatus(r.status)
    BY SchoolResaved DEF form
  <2> QED
    BY <2>1, <2>2
<1>2. again # r => \/ r.status = "BLOCKED"
                   \/ decodeSchoolAddress(r.address).meta["timezone"] = ""
                   \/ decodeSchoolAddress(r.address).street = <<>>
  <2>1. CASE r.address \in Bare
    BY <2>1, FormBare
  <2>2. CASE r.address \notin Bare
    <3>1. PICK meta \in FilledMetas, street \in Bare \cup Addressed({<<>>}) :
             r.address = encodeSchoolAddress(meta, street)
      BY <2>2 DEF KeptSchool, Addresses, Addressed
    <3>2. street \in Seq(Lines)
      BY StreetsAre
    <3>3. CASE street = <<>>
      BY <3>1, <3>2, <3>3, FormAddressed
    <3>4. CASE street # <<>> /\ r.status # "BLOCKED"
      <4>1. formStatus(r.status) = r.status
        BY <3>4, StatusShown DEF KeptSchool
      <4> QED
        BY <3>1, <3>2, <3>4, <4>1, StreetedSettled
    <3> QED
      BY <3>3, <3>4
  <2> QED
    BY <2>1, <2>2
<1> HIDE DEF again, form
<1>3. formStatus(again.status) = again.status
  <2>1. r.status \in RecordStatuses
    BY DEF KeptSchool
  <2> QED
    BY <1>1, <2>1, StatusShown
<1>4. Resaved("school", settled) = settled
  <2>1. CASE form.address # <<>>
    <3>1. settled = again
      BY <1>1, <1>3, <2>1, StreetedSettled
    <3> QED
      BY <3>1
  <2>2. CASE form.address = <<>>
    <3>1. FormOf("school", again).meta = form.meta /\ FormOf("school", again).address = again.address
      <4> DEFINE street == form.address
                 meta == form.meta
      <4>1. /\ meta \in FilledMetas /\ street \in Seq(Lines) /\ street = <<>>
            /\ again.address = encodeSchoolAddress(meta, street)
        BY <1>1, <2>2
      <4> HIDE DEF street, meta
      <4>2. /\ FormOf("school", again).meta = meta
            /\ FormOf("school", again).address = IF street = <<>> THEN again.address ELSE street
        BY <4>1, FormAddressed
      <4> QED
        BY <4>1, <4>2 DEF meta
    <3>2. again.address \in Seq(Lines) /\ again.address # <<>>
      BY <1>1, Decoded
    <3>3. /\ settled \in KeptSchool /\ settled.address = encodeSchoolAddress(form.meta, again.address)
          /\ settled.status = again.status
      BY <1>1, <1>3, <3>1, SchoolResaved
    <3> HIDE DEF settled
    <3> QED
      BY <1>1, <1>3, <3>2, <3>3, StreetedSettled
  <2> QED
    BY <2>1, <2>2
<1> QED
  BY <1>2, <1>4 DEF again

-----------------------------------------------------------------------------
(* The invariant, and what a second save changes.                          *)

LEMMA ValuesInitInv == ValuesInit => ValuesInv
<1> SUFFICES ASSUME ValuesInit PROVE ValuesInv
  OBVIOUS
<1> USE DEF ValuesInit, ValuesInv, Records
<1>1. CASE recordKind = "child"
  BY <1>1, NamesTrimmed DEF KeptChild
<1>2. CASE recordKind = "classroom"
  BY <1>2, LettersTrimmed DEF KeptClassroom
<1>3. CASE recordKind = "school"
  BY <1>3 DEF KeptSchool, Addresses, Bare
<1>4. CASE recordKind = "camera"
  BY <1>4, LettersTrimmed DEF KeptCamera
<1>5. CASE recordKind = "revenueShare"
  <2>1. [day \in Days |-> <<>>] \in [Days -> Percentages]
    BY DEF Percentages
  <2> QED
    BY <1>5, <2>1 DEF KeptShare
<1> QED
  BY <1>1, <1>2, <1>3, <1>4, <1>5

LEMMA ValuesStepInv == ValuesInv /\ [ValuesNext]_valuesVars => ValuesInv'
<1> SUFFICES ASSUME ValuesInv, [ValuesNext]_valuesVars
             PROVE  ValuesInv'
  OBVIOUS
<1>1. CASE SaveForm
  <2>1. recordKind' = recordKind
    BY <1>1 DEF SaveForm
  <2>2. PICK values \in {FormOf(recordKind, record)} \cup Typed(recordKind, FormOf(recordKind, record)) :
           \/ record' = Saved(recordKind, record, values)
           \/ recordKind = "school" /\ record' = updateSchoolLimited(record, values)
    BY <1>1 DEF SaveForm
  <2>3. CASE recordKind = "child" /\ record \in KeptChild
    BY <2>1, <2>2, <2>3, ChildKept DEF ValuesInv
  <2>4. CASE recordKind = "classroom" /\ record \in KeptClassroom
    BY <2>1, <2>2, <2>4, ClassroomKept DEF ValuesInv
  <2>5. CASE recordKind = "school" /\ record \in KeptSchool
    BY <2>1, <2>2, <2>5, SchoolKept DEF ValuesInv
  <2>6. CASE recordKind = "camera" /\ record \in KeptCamera
    BY <2>1, <2>2, <2>6, CameraKept DEF ValuesInv
  <2>7. CASE recordKind = "revenueShare" /\ record \in KeptShare
    BY <2>1, <2>2, <2>7, ShareKept DEF ValuesInv
  <2> QED
    BY <2>3, <2>4, <2>5, <2>6, <2>7 DEF ValuesInv
<1>2. CASE CameraStatusMoves
  <2>1. recordKind = "camera" /\ recordKind' = "camera" /\ record \in KeptCamera
    BY <1>2 DEF CameraStatusMoves, ValuesInv
  <2>2. PICK status \in {"ACTIVE", "OFFLINE", "ERROR"} : record' = [record EXCEPT !.status = status]
    BY <1>2 DEF CameraStatusMoves
  <2>3. record' \in KeptCamera
    BY <2>1, <2>2 DEF KeptCamera, EntityStatuses
  <2> QED
    BY <2>1, <2>3 DEF ValuesInv
<1>3. CASE DayPasses
  <2> DEFINE Next(day) == IF day < Horizon THEN day + 1 ELSE Horizon
  <2>1. /\ recordKind = "revenueShare" /\ recordKind' = "revenueShare" /\ record \in KeptShare
        /\ record' = [percentage |-> [day \in Days |-> record.percentage[Next(day)]]]
    BY <1>3 DEF DayPasses, ValuesInv
  <2>2. \A day \in Days : Next(day) \in Days
    BY HorizonIs DEF Days
  <2>3. [day \in Days |-> record.percentage[Next(day)]] \in [Days -> Percentages]
    <3>1. \A day \in Days : record.percentage[day] \in Percentages
      BY <2>1 DEF KeptShare
    <3> HIDE DEF Next
    <3> QED
      BY <2>2, <3>1
  <2>4. record' \in KeptShare
    <3> HIDE DEF Next
    <3> QED
      BY <2>1, <2>3 DEF KeptShare
  <2> QED
    BY <2>1, <2>4 DEF ValuesInv
<1>4. CASE UNCHANGED valuesVars
  BY <1>4 DEF valuesVars, ValuesInv
<1> QED
  BY <1>1, <1>2, <1>3, <1>4 DEF ValuesNext

LEMMA ValuesTyped == ValuesInv => ValuesTypeOK
<1> SUFFICES ASSUME ValuesInv PROVE ValuesTypeOK
  OBVIOUS
<1> USE DEF ValuesTypeOK, Records
<1>1. CASE recordKind = "child" /\ record \in KeptChild
  BY <1>1 DEF KeptChild
<1>2. CASE recordKind = "classroom" /\ record \in KeptClassroom
  BY <1>2 DEF KeptClassroom
<1>3. CASE recordKind = "school" /\ record \in KeptSchool
  BY <1>3 DEF KeptSchool
<1>4. CASE recordKind = "camera" /\ record \in KeptCamera
  BY <1>4 DEF KeptCamera
<1>5. CASE recordKind = "revenueShare" /\ record \in KeptShare
  BY <1>5 DEF KeptShare
<1> QED
  BY <1>1, <1>2, <1>3, <1>4, <1>5 DEF ValuesInv

LEMMA Settled ==
    ASSUME ValuesInv
    PROVE  LET again == Resaved(recordKind, record)
               settled == Resaved(recordKind, again)
           IN /\ again # record => changedByItsForm
              /\ Resaved(recordKind, settled) = settled
<1> DEFINE again == Resaved(recordKind, record)
           settled == Resaved(recordKind, again)
           Goal == /\ again # record => changedByItsForm
                   /\ Resaved(recordKind, settled) = settled
<1> SUFFICES Goal
  OBVIOUS
<1>1. ASSUME settled = again, again # record => changedByItsForm PROVE Goal
  <2> HIDE DEF again
  <2> QED
    BY <1>1
<1>2. CASE recordKind = "child" /\ record \in KeptChild
  <2>1. /\ record.full_name \in Trimmed /\ record.status \in RecordStatuses
        /\ record = [full_name |-> record.full_name, status |-> record.status]
    BY <1>2 DEF KeptChild
  <2>2. again = [full_name |-> Renamed(record.full_name), status |-> formStatus(record.status)]
    BY <1>2, ChildSaved DEF Resaved
  <2>3. again \in KeptChild
    BY <1>2, ChildKept DEF Resaved
  <2>4. settled = [full_name |-> Renamed(again.full_name), status |-> formStatus(again.status)]
    BY <1>2, <2>3, ChildSaved DEF Resaved
  <2>5. settled = again
    BY <2>1, <2>2, <2>4, NameSettles, StatusShown
  <2>6. again # record => record.status = "BLOCKED" \/ TwoSpaces(record.full_name)
    BY <2>1, <2>2, NameSettles, StatusShown
  <2>7. record.status = "BLOCKED" \/ TwoSpaces(record.full_name) => changedByItsForm
    BY <1>2 DEF TwoSpaces, changedByItsForm
  <2> HIDE DEF again, settled, Goal
  <2> QED
    BY <1>1, <2>5, <2>6, <2>7
<1>3. CASE recordKind = "classroom" /\ record \in KeptClassroom
  <2>1. /\ record.status \in RecordStatuses
        /\ record = [age_group |-> record.age_group, status |-> record.status]
    BY <1>3 DEF KeptClassroom
  <2>2. again = [age_group |-> record.age_group, status |-> formStatus(record.status)]
    BY <1>3, ClassroomSaved DEF Resaved
  <2>3. again \in KeptClassroom
    BY <1>3, ClassroomKept DEF Resaved
  <2>4. settled = [age_group |-> again.age_group, status |-> formStatus(again.status)]
    BY <1>3, <2>3, ClassroomSaved DEF Resaved
  <2>5. settled = again
    BY <2>1, <2>2, <2>4, StatusShown
  <2>6. again # record => record.status = "BLOCKED"
    BY <2>1, <2>2, StatusShown
  <2>7. record.status = "BLOCKED" => changedByItsForm
    BY <1>3 DEF changedByItsForm
  <2> HIDE DEF again, settled, Goal
  <2> QED
    BY <1>1, <2>5, <2>6, <2>7
<1>4. CASE recordKind = "school" /\ record \in KeptSchool
  <2>1. /\ again # record => \/ record.status = "BLOCKED"
                             \/ decodeSchoolAddress(record.address).meta["timezone"] = ""
                             \/ decodeSchoolAddress(record.address).street = <<>>
        /\ Resaved(recordKind, settled) = settled
    BY <1>4, SchoolSettles
  <2>2. \/ record.status = "BLOCKED"
        \/ decodeSchoolAddress(record.address).meta["timezone"] = ""
        \/ decodeSchoolAddress(record.address).street = <<>>
        => changedByItsForm
    BY <1>4 DEF changedByItsForm
  <2> HIDE DEF again, settled
  <2> QED
    BY <2>1, <2>2
<1>5. CASE recordKind = "camera" /\ record \in KeptCamera
  <2>1. again = [rtsp_url |-> record.rtsp_url, status |-> formStatus(record.status)]
    BY <1>5, CameraSaved DEF Resaved
  <2>2. again \in KeptCamera
    BY <1>5, CameraKept DEF Resaved
  <2>3. settled = [rtsp_url |-> again.rtsp_url, status |-> formStatus(again.status)]
    BY <1>5, <2>2, CameraSaved DEF Resaved
  <2> HIDE DEF again, settled, Goal
  <2>4. settled = again
    BY <2>1, <2>3 DEF formStatus
  <2>5. again # record => record.status \in {"OFFLINE", "ERROR"}
    BY <1>5, <2>1 DEF KeptCamera, formStatus, EntityStatuses
  <2>6. record.status \in {"OFFLINE", "ERROR"} => changedByItsForm
    BY <1>5 DEF changedByItsForm
  <2> QED
    BY <1>1, <2>4, <2>5, <2>6
<1>6. CASE recordKind = "revenueShare" /\ record \in KeptShare
  <2>1. PICK p \in 0..Whole :
           again = Always(p) /\ (record.percentage[0] # <<>> => record.percentage[0] = Share(p))
    BY <1>6, ShareSaved DEF Resaved
  <2>2. again \in KeptShare
    BY <1>6, ShareKept DEF Resaved
  <2>3. PICK q \in 0..Whole :
           settled = Always(q) /\ (again.percentage[0] # <<>> => again.percentage[0] = Share(q))
    BY <1>6, <2>2, ShareSaved DEF Resaved
  <2> HIDE DEF again, settled, Goal
  <2>4. again.percentage[0] = Share(p)
    BY <2>1, DaysAre DEF Always
  <2>5. settled = again
    <3>1. Share(p) # <<>>
      BY DEF Share
    <3>2. Share(p) = Share(q)
      BY <2>3, <2>4, <3>1
    <3> QED
      BY <2>1, <2>3, <3>2 DEF Always
  <2>6. again # record => changedByItsForm
    <3> SUFFICES ASSUME ~ changedByItsForm PROVE again = record
      OBVIOUS
    <3>1. record.percentage[0] # <<>> /\ \A day \in Days : record.percentage[day] = record.percentage[0]
      BY <1>6 DEF changedByItsForm
    <3>2. \A day \in Days : record.percentage[day] = Share(p)
      BY <2>1, <3>1
    <3>3. record.percentage \in [Days -> Percentages] /\ record = [percentage |-> record.percentage]
      BY <1>6 DEF KeptShare
    <3>4. record.percentage = [day \in Days |-> Share(p)]
      BY <3>2, <3>3
    <3> QED
      BY <2>1, <3>3, <3>4 DEF Always
  <2> QED
    BY <1>1, <2>5, <2>6
<1> HIDE DEF Goal
<1> QED
  BY <1>2, <1>3, <1>4, <1>5, <1>6 DEF ValuesInv

LEMMA InvSettles == ValuesInv => UneditedSaveKeeps
BY Settled DEF UneditedSaveKeeps, Resaved

LEMMA ValuesInvariant == ValuesSpec => []ValuesInv
BY ValuesInitInv, ValuesStepInv, PTL DEF ValuesSpec

\* To save what a form shows changes nothing but what the form could not show.
THEOREM UneditedSavesKeep == ValuesSpec => []UneditedSaveKeeps
BY ValuesInvariant, InvSettles, PTL
=============================================================================
