----------------------------- MODULE BumpProofs -----------------------------
(***************************************************************************)
(* The properties of VersionBump and ProjectTool, for every start, every   *)
(* kind of native file and every bound: which versions there are and what  *)
(* comes after one, what a command knows at each of its writes, and what   *)
(* the tool that runs the commands may say.                                *)
(***************************************************************************)
EXTENDS ProjectTool, SequenceTheorems, TLAPS

(* Three numbers, four from 0.8.0 on, all but the first below ten.         *)
Version ==
  {v \in Seq(Nat) : /\ Len(v) = (IF FromFour(v) THEN 4 ELSE 3)
                    /\ \A i \in 2 .. Len(v) : v[i] <= 9}

(* A version is given by its numbers.                                      *)
LEMMA VersionParts ==
  ASSUME NEW v \in Version
  PROVE  \/ \E b \in 0 .. 7, c \in 0 .. 9 : v = <<0, b, c>>
         \/ \E a \in Nat, b \in 0 .. 9, c \in 0 .. 9, d \in 0 .. 9 :
               (a > 0 \/ b >= 8) /\ v = <<a, b, c, d>>
<1>1. /\ v \in Seq(Nat) /\ Len(v) = (IF FromFour(v) THEN 4 ELSE 3)
      /\ \A i \in 2 .. Len(v) : v[i] <= 9
  BY DEF Version
<1>2. \A i \in 1 .. Len(v) : v[i] \in Nat /\ (i > 1 => v[i] <= 9)
  BY <1>1, ElementOfSeq
<1>3. CASE Len(v) = 3
  <2>1. v[1] \in Nat /\ v[2] \in 0 .. 9 /\ v[3] \in 0 .. 9
    <3>1. \A i \in 1 .. 3 : v[i] \in Nat /\ (i > 1 => v[i] <= 9)
      BY <1>2, <1>3
    <3> QED
      BY <3>1
  <2>2. v = <<v[1], v[2], v[3]>>
    BY <1>1, <1>3, <2>1, SeqEqual
  <2>3. v[1] = 0 /\ v[2] \in 0 .. 7
    BY <1>1, <1>3, <2>1 DEF FromFour
  <2> QED
    BY <2>1, <2>2, <2>3
<1>4. CASE Len(v) = 4
  <2>1. v[1] \in Nat /\ v[2] \in 0 .. 9 /\ v[3] \in 0 .. 9 /\ v[4] \in 0 .. 9
    <3>1. \A i \in 1 .. 4 : v[i] \in Nat /\ (i > 1 => v[i] <= 9)
      BY <1>2, <1>4
    <3> QED
      BY <3>1
  <2>2. v = <<v[1], v[2], v[3], v[4]>>
    BY <1>1, <1>4, <2>1, SeqEqual
  <2>3. v[1] > 0 \/ v[2] >= 8
    BY <1>1, <1>4 DEF FromFour
  <2> QED
    BY <2>1, <2>2, <2>3
<1> QED
  BY <1>1, <1>3, <1>4

(* Every number of a version but the first is one digit.                   *)
LEMMA VersionNumbers ==
  ASSUME NEW v \in Version
  PROVE  \A i \in 2 .. Len(v) : v[i] \in 0 .. 9
<1>1. /\ v \in Seq(Nat) /\ Len(v) \in Nat
      /\ \A i \in 2 .. Len(v) : v[i] <= 9
  BY DEF Version
<1>2. \A i \in 1 .. Len(v) : v[i] \in Nat
  BY <1>1, ElementOfSeq
<1> TAKE i \in 2 .. Len(v)
<1>3. i \in 1 .. Len(v)
  BY <1>1
<1>4. v[i] \in Nat /\ v[i] <= 9
  BY <1>1, <1>2, <1>3
<1> QED
  BY <1>4

(* Numbers in their range make a version.                                  *)
LEMMA ThreeMake ==
  ASSUME NEW v, NEW b \in 0 .. 7, NEW c \in 0 .. 9, v = <<0, b, c>>
  PROVE  v \in Version
BY DEF Version, FromFour

(* A four-part version is a version when it begins at 0.8.0.0 or later.    *)
LEMMA FourMake ==
  ASSUME NEW v, NEW a \in Nat, NEW b \in 0 .. 9, NEW c \in 0 .. 9,
         NEW d \in 0 .. 9, a > 0 \/ b >= 8, v = <<a, b, c, d>>
  PROVE  v \in Version
BY DEF Version, FromFour

(* What Append makes of a literal version, as a literal version.           *)
LEMMA AppendZero ==
  ASSUME NEW v, NEW a \in Nat, NEW b \in Nat, NEW c \in Nat,
         v = Append(<<a, b, c>>, 0)
  PROVE  v = <<a, b, c, 0>>
<1> DEFINE w == <<a, b, c, 0>>
<1>1. <<a, b, c>> \in Seq(Nat) /\ Len(<<a, b, c>>) = 3
  OBVIOUS
<1>2. v \in Seq(Nat) /\ Len(v) = 4 /\ v[1] = a /\ v[2] = b /\ v[3] = c /\ v[4] = 0
  BY <1>1, AppendProperties
<1>3. w \in Seq(Nat) /\ Len(w) = 4
  OBVIOUS
<1>4. w[1] = a /\ w[2] = b /\ w[3] = c /\ w[4] = 0
  OBVIOUS
<1>5. \A i \in 1 .. 4 : v[i] = w[i]
  BY <1>2, <1>4
<1> HIDE DEF w
<1>6. v = w
  BY <1>2, <1>3, <1>5, SeqEqual
<1> QED
  BY <1>6 DEF w

(* The three numbers after these, by the carries.                          *)
Counted(a, b, c) ==
  LET n == a * 100 + b * 10 + c + 1
  IN <<n \div 100, (n \div 10) % 10, n % 10>>
Carried(a, b, c) ==
  IF c < 9 THEN <<a, b, c + 1>>
  ELSE IF b < 9 THEN <<a, b + 1, 0>> ELSE <<a + 1, 0, 0>>

(* Counting the parts as one number carries as adding digit by digit does. *)
LEMMA Carry ==
  ASSUME NEW a \in Nat, NEW b \in 0 .. 9, NEW c \in 0 .. 9
  PROVE  Counted(a, b, c) = Carried(a, b, c)
<1>1. ASSUME NEW n, n = a * 100 + b * 10 + c + 1
      PROVE  <<n \div 100, (n \div 10) % 10, n % 10>>
               = IF c < 9 THEN <<a, b, c + 1>>
                 ELSE IF b < 9 THEN <<a, b + 1, 0>> ELSE <<a + 1, 0, 0>>
  BY <1>1
<1> QED
  BY <1>1 DEF Counted, Carried

(* next_version by the carries.                                            *)
LEMMA NextCarries ==
  ASSUME NEW v, ~(Len(v) = 4 /\ v[4] < 9)
  PROVE  NextVersion(v)
           = IF Len(v) = 4 \/ FromFour(Counted(v[1], v[2], v[3]))
             THEN Append(Counted(v[1], v[2], v[3]), 0)
             ELSE Counted(v[1], v[2], v[3])
BY DEF NextVersion, Counted

(* What comes after a version is a version, one place further on, or ten   *)
(* where there is no fourth number.                                        *)
LEMMA NextIs ==
  ASSUME NEW v \in Version
  PROVE  /\ NextVersion(v) \in Version
         /\ Place(NextVersion(v)) = Place(v) + (IF Len(v) = 4 THEN 1 ELSE 10)
<1>1. ASSUME NEW b \in 0 .. 7, NEW c \in 0 .. 9, v = <<0, b, c>>
      PROVE  \/ NextVersion(v) = <<0, b, c + 1>> /\ c < 9
             \/ NextVersion(v) = <<0, b + 1, 0>> /\ c = 9 /\ b < 7
             \/ NextVersion(v) = <<0, 8, 0, 0>> /\ c = 9 /\ b = 7
  <2> DEFINE w == Carried(0, b, c)
  <2>a. v[1] = 0 /\ v[2] = b /\ v[3] = c /\ Len(v) = 3
    BY <1>1
  <2>b. Counted(0, b, c) = Carried(0, b, c)
    BY Carry
  <2>1. NextVersion(v) = IF FromFour(w) THEN Append(w, 0) ELSE w
    BY <2>a, <2>b, NextCarries
  <2>2. CASE c < 9
    BY <2>1, <2>2 DEF FromFour, Carried
  <2>3. CASE c = 9 /\ b < 7
    BY <2>1, <2>3 DEF FromFour, Carried
  <2>4. CASE c = 9 /\ b = 7
    <3>1. w = <<0, 8, 0>>
      BY <2>4 DEF Carried
    <3>2. FromFour(<<0, 8, 0>>)
      BY DEF FromFour
    <3>3. NextVersion(v) = Append(<<0, 8, 0>>, 0)
      BY <2>1, <3>1, <3>2
    <3>4. NextVersion(v) = <<0, 8, 0, 0>>
      BY <3>3, AppendZero
    <3> QED
      BY <2>4, <3>4
  <2> QED
    BY <2>2, <2>3, <2>4
<1>2. ASSUME NEW a \in Nat, NEW b \in 0 .. 9, NEW c \in 0 .. 9, NEW d \in 0 .. 9,
             a > 0 \/ b >= 8, v = <<a, b, c, d>>
      PROVE  \/ NextVersion(v) = <<a, b, c, d + 1>> /\ d < 9
             \/ NextVersion(v) = <<a, b, c + 1, 0>> /\ d = 9 /\ c < 9
             \/ NextVersion(v) = <<a, b + 1, 0, 0>> /\ d = 9 /\ c = 9 /\ b < 9
             \/ NextVersion(v) = <<a + 1, 0, 0, 0>> /\ d = 9 /\ c = 9 /\ b = 9
  <2>1. CASE d < 9
    BY <1>2, <2>1 DEF NextVersion
  <2> DEFINE w == Carried(a, b, c)
  <2>a. v[1] = a /\ v[2] = b /\ v[3] = c /\ v[4] = d /\ Len(v) = 4
    BY <1>2
  <2>2. d = 9 => NextVersion(v) = Append(w, 0)
    BY <2>a, Carry, NextCarries
  <2>3. CASE d = 9 /\ c < 9
    BY <2>2, <2>3 DEF Carried
  <2>4. CASE d = 9 /\ c = 9 /\ b < 9
    BY <2>2, <2>4 DEF Carried
  <2>5. CASE d = 9 /\ c = 9 /\ b = 9
    BY <2>2, <2>5 DEF Carried
  <2> QED
    BY <2>1, <2>3, <2>4, <2>5
<1>3. ASSUME NEW b \in 0 .. 7, NEW c \in 0 .. 9, v = <<0, b, c>>
      PROVE  /\ NextVersion(v) \in Version
             /\ Place(NextVersion(v)) = Place(v) + (IF Len(v) = 4 THEN 1 ELSE 10)
  <2>1. Len(v) = 3 /\ Place(v) = b * 100 + c * 10
    BY <1>3 DEF Place
  <2>2. CASE NextVersion(v) = <<0, b, c + 1>> /\ c < 9
    <3>1. NextVersion(v) \in Version
      BY <2>2 DEF Version, FromFour
    <3>2. Place(NextVersion(v)) = b * 100 + c * 10 + 10
      BY <2>2 DEF Place
    <3> QED
      BY <2>1, <3>1, <3>2
  <2>3. CASE NextVersion(v) = <<0, b + 1, 0>> /\ c = 9 /\ b < 7
    <3>1. \E e \in 0 .. 7, f \in 0 .. 9 : NextVersion(v) = <<0, e, f>>
      BY <2>3
    <3>2. NextVersion(v) \in Version
      BY <3>1, ThreeMake
    <3>3. Place(NextVersion(v)) = b * 100 + c * 10 + 10
      BY <2>3 DEF Place
    <3> QED
      BY <2>1, <3>2, <3>3
  <2>4. CASE NextVersion(v) = <<0, 8, 0, 0>> /\ c = 9 /\ b = 7
    <3>1. NextVersion(v) \in Version
      BY <2>4 DEF Version, FromFour
    <3>2. Place(NextVersion(v)) = b * 100 + c * 10 + 10
      BY <2>4 DEF Place
    <3> QED
      BY <2>1, <3>1, <3>2
  <2> QED
    BY <1>1, <1>3, <2>2, <2>3, <2>4
<1>4. ASSUME NEW a \in Nat, NEW b \in 0 .. 9, NEW c \in 0 .. 9, NEW d \in 0 .. 9,
             a > 0 \/ b >= 8, v = <<a, b, c, d>>
      PROVE  /\ NextVersion(v) \in Version
             /\ Place(NextVersion(v)) = Place(v) + (IF Len(v) = 4 THEN 1 ELSE 10)
  <2>1. Len(v) = 4 /\ Place(v) = a * 1000 + b * 100 + c * 10 + d
    BY <1>4 DEF Place
  <2>2. CASE NextVersion(v) = <<a, b, c, d + 1>> /\ d < 9
    <3>1. \E e \in Nat, f, g, h \in 0 .. 9 :
             NextVersion(v) = <<e, f, g, h>> /\ (e > 0 \/ f >= 8)
      BY <1>4, <2>2
    <3>2. NextVersion(v) \in Version
      BY <3>1, FourMake
    <3>3. Place(NextVersion(v)) = a * 1000 + b * 100 + c * 10 + d + 1
      BY <2>2 DEF Place
    <3> QED
      BY <2>1, <3>2, <3>3
  <2>3. CASE NextVersion(v) = <<a, b, c + 1, 0>> /\ d = 9 /\ c < 9
    <3>1. \E e \in Nat, f, g, h \in 0 .. 9 :
             NextVersion(v) = <<e, f, g, h>> /\ (e > 0 \/ f >= 8)
      BY <1>4, <2>3
    <3>2. NextVersion(v) \in Version
      BY <3>1, FourMake
    <3>3. Place(NextVersion(v)) = a * 1000 + b * 100 + c * 10 + d + 1
      BY <2>3 DEF Place
    <3> QED
      BY <2>1, <3>2, <3>3
  <2>4. CASE NextVersion(v) = <<a, b + 1, 0, 0>> /\ d = 9 /\ c = 9 /\ b < 9
    <3>1. \E e \in Nat, f, g, h \in 0 .. 9 :
             NextVersion(v) = <<e, f, g, h>> /\ (e > 0 \/ f >= 8)
      BY <1>4, <2>4
    <3>2. NextVersion(v) \in Version
      BY <3>1, FourMake
    <3>3. Place(NextVersion(v)) = a * 1000 + b * 100 + c * 10 + d + 1
      BY <2>4 DEF Place
    <3> QED
      BY <2>1, <3>2, <3>3
  <2>5. CASE NextVersion(v) = <<a + 1, 0, 0, 0>> /\ d = 9 /\ c = 9 /\ b = 9
    <3>1. \E e \in Nat, f, g, h \in 0 .. 9 :
             NextVersion(v) = <<e, f, g, h>> /\ (e > 0 \/ f >= 8)
      BY <1>4, <2>5
    <3>2. NextVersion(v) \in Version
      BY <3>1, FourMake
    <3>3. Place(NextVersion(v)) = a * 1000 + b * 100 + c * 10 + d + 1
      BY <2>5 DEF Place
    <3> QED
      BY <2>1, <3>2, <3>3
  <2> QED
    BY <1>2, <1>4, <2>2, <2>3, <2>4, <2>5
<1> QED
  BY <1>3, <1>4, VersionParts

(* The place of a version in their order is a number.                      *)
LEMMA PlaceIsNumber ==
  ASSUME NEW v \in Version
  PROVE  Place(v) \in Int
<1>1. ASSUME NEW b \in 0 .. 7, NEW c \in 0 .. 9, v = <<0, b, c>>
      PROVE  Place(v) \in Int
  BY <1>1 DEF Place
<1>2. ASSUME NEW a \in Nat, NEW b \in 0 .. 9, NEW c \in 0 .. 9, NEW d \in 0 .. 9,
             a > 0 \/ b >= 8, v = <<a, b, c, d>>
      PROVE  Place(v) \in Int
  BY <1>2 DEF Place
<1> QED
  BY <1>1, <1>2, VersionParts

(* No two versions have one place.                                         *)
LEMMA PlaceTells ==
  ASSUME NEW v \in Version, NEW w \in Version, Place(v) = Place(w)
  PROVE  v = w
<1>1. ASSUME NEW b \in 0 .. 7, NEW c \in 0 .. 9, v = <<0, b, c>>
      PROVE  v = w
  <2>1. Place(v) = b * 100 + c * 10
    BY <1>1 DEF Place
  <2>2. ASSUME NEW e \in 0 .. 7, NEW f \in 0 .. 9, w = <<0, e, f>>
        PROVE  v = w
    <3>1. Place(w) = e * 100 + f * 10
      BY <2>2 DEF Place
    <3>2. b * 100 + c * 10 = e * 100 + f * 10
      BY <2>1, <3>1
    <3>3. b = e /\ c = f
      BY <3>2
    <3> QED
      BY <1>1, <2>2, <3>3
  <2>3. ASSUME NEW d \in Nat, NEW e \in 0 .. 9, NEW f \in 0 .. 9, NEW g \in 0 .. 9,
               d > 0 \/ e >= 8, w = <<d, e, f, g>>
        PROVE  FALSE
    <3>1. Place(w) = d * 1000 + e * 100 + f * 10 + g
      BY <2>3 DEF Place
    <3>2. b * 100 + c * 10 = d * 1000 + e * 100 + f * 10 + g
      BY <2>1, <3>1
    <3> QED
      BY <2>3, <3>2
  <2> QED
    BY <2>2, <2>3, VersionParts
<1>2. ASSUME NEW a \in Nat, NEW b \in 0 .. 9, NEW c \in 0 .. 9, NEW x \in 0 .. 9,
             a > 0 \/ b >= 8, v = <<a, b, c, x>>
      PROVE  v = w
  <2>1. Place(v) = a * 1000 + b * 100 + c * 10 + x
    BY <1>2 DEF Place
  <2>2. ASSUME NEW e \in 0 .. 7, NEW f \in 0 .. 9, w = <<0, e, f>>
        PROVE  FALSE
    <3>1. Place(w) = e * 100 + f * 10
      BY <2>2 DEF Place
    <3>2. a * 1000 + b * 100 + c * 10 + x = e * 100 + f * 10
      BY <2>1, <3>1
    <3> QED
      BY <1>2, <3>2
  <2>3. ASSUME NEW d \in Nat, NEW e \in 0 .. 9, NEW f \in 0 .. 9, NEW g \in 0 .. 9,
               d > 0 \/ e >= 8, w = <<d, e, f, g>>
        PROVE  v = w
    <3>1. Place(v) = d * 1000 + e * 100 + f * 10 + g
      BY <2>3 DEF Place
    <3>2. a * 1000 + b * 100 + c * 10 + x = d * 1000 + e * 100 + f * 10 + g
      <4> HIDE DEF Place
      <4> QED
        BY ONLY <2>1, <3>1
    <3>3. a = d /\ b = e /\ c = f /\ x = g
      BY <3>2
    <3> QED
      BY <1>2, <2>3, <3>3
  <2> QED
    BY <2>2, <2>3, VersionParts
<1> QED
  BY <1>1, <1>2, VersionParts

-----------------------------------------------------------------------------
(* The native file *)

(* What a native file holds: three or four numbers.                        *)
Native == {s \in Seq(Nat) : Len(s) = 3 \/ Len(s) = 4}

(* The first three numbers, taken once or twice.                           *)
LEMMA ThreeOf ==
  ASSUME NEW s \in Native
  PROVE  /\ Three(s) \in Native /\ Len(Three(s)) = 3
         /\ Three(Three(s)) = Three(s)
         /\ Len(s) = 3 => Three(s) = s
         /\ Three(s)[1] = s[1] /\ Three(s)[2] = s[2]
<1>1. s \in Seq(Nat) /\ (Len(s) = 3 \/ Len(s) = 4)
  BY DEF Native
<1>2. /\ Three(s) \in Seq(Nat) /\ Len(Three(s)) = 3
      /\ \A i \in 1 .. 3 : Three(s)[i] = s[i]
  BY <1>1, SubSeqProperties DEF Three
<1>3. /\ Three(Three(s)) \in Seq(Nat) /\ Len(Three(Three(s))) = 3
      /\ \A i \in 1 .. 3 : Three(Three(s))[i] = Three(s)[i]
  BY <1>2, SubSeqProperties DEF Three
<1>4. Three(Three(s)) = Three(s)
  BY <1>2, <1>3, SeqEqual
<1>5. Len(s) = 3 => Three(s) = s
  BY <1>1, <1>2, SeqEqual
<1>6. Three(s) \in Native
  BY <1>2 DEF Native
<1> QED
  BY <1>2, <1>4, <1>5, <1>6

(* Three numbers with one more have the same first three.                  *)
LEMMA AppendThree ==
  ASSUME NEW s \in Native, Len(s) = 3, NEW n \in Nat, NEW w, w = Append(s, n)
  PROVE  /\ w \in Native /\ Len(w) = 4 /\ Three(w) = s
         /\ w[1] = s[1] /\ w[2] = s[2]
<1>1. s \in Seq(Nat)
  BY DEF Native
<1>2. /\ w \in Seq(Nat) /\ Len(w) = 4
      /\ \A i \in 1 .. 3 : w[i] = s[i]
  <2>1. w \in Seq(Nat) /\ \A i \in 1 .. 3 : w[i] = s[i]
    BY <1>1
  <2>2. Len(w) = Len(s) + 1
    BY <1>1, AppendProperties
  <2> QED
    BY <2>1, <2>2
<1>3. /\ Three(w) \in Seq(Nat) /\ Len(Three(w)) = 3
      /\ \A i \in 1 .. 3 : Three(w)[i] = w[i]
  BY <1>2, SubSeqProperties DEF Three
<1>4. Three(w) = s
  BY <1>1, <1>2, <1>3, SeqEqual
<1> QED
  BY <1>2, <1>4 DEF Native

(* A version is something the native file may hold.                        *)
LEMMA VersionIsNative ==
  ASSUME NEW v \in Version
  PROVE  v \in Native /\ (Len(v) = 4 <=> FromFour(v))
<1>1. v \in Seq(Nat) /\ Len(v) = (IF FromFour(v) THEN 4 ELSE 3)
  BY DEF Version
<1> QED
  BY <1>1 DEF Native

NativeTypeOK ==
  /\ style \in AllStyles
  /\ native \in Native
  /\ style = "fields+build" => Len(native) = 4

(* What is written is numbers of the length the kind of file needs.        *)
LEMMA ReplacedIsNative ==
  ASSUME NativeTypeOK, NEW v \in Native, native' = Replaced(v), style' = style
  PROVE  NativeTypeOK'
<1>1. CASE style = "fields+build" /\ Len(v) = 3
  <2>1. native[4] \in Nat
    <3>1. native \in Seq(Nat) /\ Len(native) = 4
      BY <1>1 DEF NativeTypeOK, Native
    <3>2. 4 \in 1 .. Len(native)
      BY <3>1
    <3> QED
      BY <3>1, <3>2, ElementOfSeq
  <2>2. PICK n \in Nat, w \in {native'} : w = Append(v, n)
    BY <1>1, <2>1 DEF Replaced
  <2>3. w \in Native /\ Len(w) = 4
    BY <1>1, <2>2, AppendThree
  <2> QED
    BY <1>1, <2>2, <2>3 DEF NativeTypeOK
<1>2. CASE ~(style = "fields+build" /\ Len(v) = 3)
  <2>1. native' = v \/ (native' = Three(v) /\ style # "fields+build")
    <3>1. native' = ToNative(v)
      BY <1>2 DEF Replaced
    <3> QED
      BY <3>1 DEF ToNative
  <2>2. Three(v) \in Native
    BY ThreeOf
  <2> QED
    BY <1>2, <2>1, <2>2 DEF NativeTypeOK, Native
<1> QED
  BY <1>1, <1>2

(* What is written reads back as the version it was written for, whatever  *)
(* the kind of the native file (replace_version, read_version).            *)
LEMMA ReadsBack ==
  ASSUME NativeTypeOK, NEW v \in Version, CanHold(v),
         native' = Replaced(v), style' = style
  PROVE  NativeTypeOK' /\ SameVersion(ReadVersion, v)'
<1>1. v \in Native /\ (Len(v) = 4 <=> FromFour(v)) /\ (Len(v) = 3 \/ Len(v) = 4)
  BY VersionIsNative DEF Native
<1>2. CASE style = "fields+build" /\ Len(v) = 3
  <2>1. native[4] \in Nat
    <3>1. native \in Seq(Nat) /\ Len(native) = 4
      BY <1>2 DEF NativeTypeOK, Native
    <3>2. 4 \in 1 .. Len(native)
      BY <3>1
    <3> QED
      BY <3>1, <3>2, ElementOfSeq
  <2>2. PICK n \in Nat, w \in {native'} : w = Append(v, n)
    BY <1>2, <2>1 DEF Replaced
  <2>w. w \in Native /\ Len(w) = 4 /\ Three(w) = v /\ w[1] = v[1] /\ w[2] = v[2]
    BY <1>1, <1>2, <2>2, AppendThree
  <2>3. /\ native' \in Native /\ Len(native') = 4 /\ Three(native') = v
        /\ native'[1] = v[1] /\ native'[2] = v[2]
    BY <2>2, <2>w
  <2>4. ~FromFour(native')
    BY <1>1, <1>2, <2>3 DEF FromFour
  <2> QED
    BY <1>2, <2>3, <2>4 DEF NativeTypeOK, SameVersion, ReadVersion
<1>3. CASE style = "fields+build" /\ Len(v) = 4
  <2>1. native' = v
    BY <1>3 DEF Replaced, ToNative
  <2> QED
    BY <1>1, <1>3, <2>1 DEF NativeTypeOK, SameVersion, ReadVersion
<1>4. CASE style \in {"pubspec", "npm"}
  <2>1. native' = Three(v)
    BY <1>4 DEF Replaced, ToNative
  <2>2. /\ Three(v) \in Native /\ Three(Three(v)) = Three(v)
    BY <1>1, ThreeOf
  <2> QED
    BY <1>4, <2>1, <2>2
       DEF NativeTypeOK, SameVersion, ReadVersion, ToNative
<1>5. CASE style \in {"plain", "cargo", "fields"}
  <2>1. native' = v
    BY <1>5 DEF Replaced, ToNative
  <2> QED
    BY <1>1, <1>5, <2>1 DEF NativeTypeOK, SameVersion, ReadVersion, ToNative
<1> QED
  BY <1>1, <1>2, <1>3, <1>4, <1>5 DEF NativeTypeOK, AllStyles

-----------------------------------------------------------------------------
(* The inductive invariant *)

CommandTypeOK ==
  /\ cmd \in [step : {"idle", "native", "mirrors", "manifest", "changelog",
                      "lock", "agent"},
              old : Seq(Nat), new : Version, code : {0, 1}, own : BOOLEAN,
              at : Nat]
  /\ manifest \in Version
  /\ edits \in Nat /\ cmd.at <= edits

(* Every entry is a version; none is later than the manifest, and all but  *)
(* the first are earlier than the first.                                   *)
LogInOrder ==
  /\ changelog \in Seq(Version) /\ changelog # <<>>
  /\ \A i \in 1 .. Len(changelog) :
       /\ Place(changelog[i]) <= Place(manifest)
       /\ i > 1 => Place(changelog[i]) < Place(changelog[1])

(* What a command knows at each of its writes.                             *)
Agrees(v) == SameVersion(ReadVersion, v)
After(steps) == cmd.step \in steps

Knows ==
  /\ ~At("idle") => cmd.code = 1 /\ cmd.at = edits
  /\ After({"native", "mirrors", "manifest"}) => cmd.new = NextVersion(manifest)
  /\ At("native") => CanHold(cmd.new)
  /\ After({"mirrors", "manifest", "changelog", "lock", "agent"}) => Agrees(cmd.new)
  /\ After({"changelog", "lock", "agent"}) => manifest = cmd.new
  /\ After({"lock", "agent"}) => changelog[1] = cmd.new
  /\ At("agent") => LockHas(cmd.new) /\ app = App(native, counter)

(* Where nobody else writes, the mirrors follow.                           *)
MirrorsFollow ==
  (style \notin {"npm", "pubspec"} /\ ~killed /\ edits = 0) =>
    /\ At("idle") => mirror = manifest /\ ReadVersion = manifest
    /\ After({"native", "mirrors"}) => mirror = cmd.old
    /\ At("manifest") => mirror = cmd.new
    /\ After({"changelog", "lock", "agent"}) => mirror = manifest

CanBeFinished == ~touched => Agrees(manifest) \/ Agrees(NextVersion(manifest))

IInv ==
  /\ NativeTypeOK /\ CommandTypeOK /\ LogInOrder /\ Knows
  /\ MirrorsFollow /\ CanBeFinished /\ SuccessMeansAgreement

(* What the tool wants while it runs is the next version.                  *)
ToolKnows ==
  /\ tool \in [step : {"idle", "between", "waits"},
               left : Seq({"own", "sync", "shared"}),
               before : Version, wanted : Version,
               says : {"nothing", "FAIL", "BUMPED"}]
  /\ ~ToolAt("idle") =>
       tool.wanted = NextVersion(tool.before) /\ tool.says = "nothing"

-----------------------------------------------------------------------------
(* The steps of a command *)

(* Each write leads to the next one of Order.                              *)
LEMMA Advances ==
  ASSUME Advance
  PROVE  \/ At("native") /\ cmd' = [cmd EXCEPT !.step = "mirrors"]
         \/ At("mirrors") /\ cmd' = [cmd EXCEPT !.step = "manifest"]
         \/ At("manifest") /\ cmd' = [cmd EXCEPT !.step = "changelog"]
         \/ At("changelog") /\ cmd' = [cmd EXCEPT !.step = "lock"]
         \/ At("lock") /\ cmd' = [cmd EXCEPT !.step = "agent"]
<1>1. /\ Len(Order) = 6 /\ Order[1] = "native" /\ Order[2] = "mirrors"
      /\ Order[3] = "manifest" /\ Order[4] = "changelog" /\ Order[5] = "lock"
      /\ Order[6] = "agent"
  BY DEF Order
<1>2. PICK i \in 1 .. Len(Order) - 1 :
        At(Order[i]) /\ cmd' = [cmd EXCEPT !.step = Order[i + 1]]
  BY DEF Advance
<1>3. i = 1 \/ i = 2 \/ i = 3 \/ i = 4 \/ i = 5
  BY <1>1, <1>2
<1> QED
  BY <1>1, <1>2, <1>3

(* What is read back does not change where the native file does not.       *)
LEMMA ReadStays ==
  ASSUME style' = style, native' = native
  PROVE  /\ ReadVersion' = ReadVersion
         /\ \A r, v : SameVersion(r, v)' <=> SameVersion(r, v)
BY DEF ReadVersion, SameVersion, ToNative

(* What is read from a native file is a sequence of numbers.               *)
LEMMA ReadIsNumbers ==
  ASSUME NativeTypeOK
  PROVE  ReadVersion \in Seq(Nat)
<1>1. native \in Native /\ native \in Seq(Nat)
  BY DEF NativeTypeOK, Native
<1>2. Three(native) \in Seq(Nat)
  BY <1>1, ThreeOf DEF Native
<1> QED
  BY <1>1, <1>2 DEF ReadVersion

(* What main does before its first write keeps the invariant, if it goes   *)
(* to the write that fits what the native file holds.                      *)
LEMMA GoKeeps ==
  ASSUME IInv, Start, NEW step, NEW v \in Version, NEW own \in BOOLEAN,
         Go(step, v, own),
         \/ step = "native" /\ v = NextVersion(manifest) /\ CanHold(v)
         \/ step = "manifest" /\ v = NextVersion(manifest) /\ Agrees(v)
            /\ ~Agrees(manifest)
         \/ step = "changelog" /\ v = manifest /\ Agrees(v)
  PROVE  IInv'
<1> USE DEF Start, Go, files, history
<1>1. NativeTypeOK'
  BY DEF IInv, NativeTypeOK
<1>2. CommandTypeOK'
  BY ReadIsNumbers DEF IInv, CommandTypeOK
<1>3. LogInOrder'
  BY DEF IInv, LogInOrder
<1>4. Knows'
  BY DEF IInv, Knows, CommandTypeOK, After, At, Agrees, SameVersion, ReadVersion,
         ToNative, CanHold
<1>5. MirrorsFollow'
  BY DEF IInv, MirrorsFollow, CommandTypeOK, After, At, Agrees, SameVersion,
         ReadVersion, ToNative
<1>6. CanBeFinished'
  BY DEF IInv, CanBeFinished, Agrees, SameVersion, ReadVersion, ToNative
<1>7. SuccessMeansAgreement'
  BY DEF SuccessMeansAgreement, At
<1> QED
  BY <1>1, <1>2, <1>3, <1>4, <1>5, <1>6, <1>7 DEF IInv

(* A command that refuses writes nothing.                                  *)
LEMMA RefuseKeeps ==
  ASSUME IInv, Start, NEW own \in BOOLEAN, Refuse(own)
  PROVE  IInv'
<1> USE DEF Start, Refuse, files, history
<1>1. NativeTypeOK'
  BY DEF IInv, NativeTypeOK
<1>2. CommandTypeOK'
  <2>1. cmd' = [step |-> cmd.step, old |-> cmd.old, new |-> cmd.new, code |-> 1,
                own |-> own, at |-> edits]
    BY DEF IInv, CommandTypeOK
  <2> QED
    BY <2>1 DEF IInv, CommandTypeOK
<1>3. LogInOrder'
  BY DEF IInv, LogInOrder
<1>4. Knows'
  BY DEF IInv, Knows, CommandTypeOK, After, At
<1>5. MirrorsFollow'
  BY DEF IInv, MirrorsFollow, CommandTypeOK, After, At, ReadVersion
<1>6. CanBeFinished'
  BY DEF IInv, CanBeFinished, Agrees, SameVersion, ReadVersion, ToNative
<1>7. SuccessMeansAgreement'
  BY DEF IInv, CommandTypeOK, SuccessMeansAgreement, At
<1> QED
  BY <1>1, <1>2, <1>3, <1>4, <1>5, <1>6, <1>7 DEF IInv

(* The bump goes to its first write, or refuses.                           *)
LEMMA BumpKeeps ==
  ASSUME IInv, NEW own \in BOOLEAN, Bump(own)
  PROVE  IInv'
<1>1. NextVersion(manifest) \in Version
  BY NextIs DEF IInv, CommandTypeOK
<1>2. Start
  BY DEF Bump
<1>3. CASE SameVersion(ReadVersion, manifest) /\ CanHold(NextVersion(manifest))
  <2>1. Go("native", NextVersion(manifest), own)
    BY <1>3 DEF Bump, Order
  <2>2. PICK v \in Version : v = NextVersion(manifest)
    BY <1>1
  <2> QED
    BY <1>2, <1>3, <2>1, <2>2, GoKeeps
<1>4. CASE ~(SameVersion(ReadVersion, manifest) /\ CanHold(NextVersion(manifest)))
  BY <1>2, <1>4, RefuseKeeps DEF Bump
<1> QED
  BY <1>3, <1>4

(* --sync goes to the write that is missing, or refuses.                   *)
LEMMA SyncKeeps ==
  ASSUME IInv, NEW own \in BOOLEAN, Sync(own)
  PROVE  IInv'
<1>1. NextVersion(manifest) \in Version /\ manifest \in Version
  BY NextIs DEF IInv, CommandTypeOK
<1>2. Start
  BY DEF Sync
<1>3. \/ Go("changelog", manifest, own) /\ Agrees(manifest)
      \/ /\ Go("manifest", NextVersion(manifest), own)
         /\ Agrees(NextVersion(manifest)) /\ ~Agrees(manifest)
      \/ Go("native", NextVersion(manifest), own) /\ CanHold(NextVersion(manifest))
      \/ Refuse(own)
  BY DEF Sync, Agrees
<1>4. PICK v \in Version, w \in Version : v = manifest /\ w = NextVersion(manifest)
  BY <1>1
<1> QED
  BY <1>2, <1>3, <1>4, GoKeeps, RefuseKeeps

(* The native file gets the new version.                                   *)
LEMMA WriteNativeKeeps ==
  ASSUME IInv, WriteNative
  PROVE  IInv'
<1> USE DEF WriteNative, history, counters
<1>1. At("native") /\ cmd' = [cmd EXCEPT !.step = "mirrors"]
  BY Advances DEF At
<1>2. PICK v \in Version : v = cmd.new
  BY DEF IInv, CommandTypeOK
<1>3. /\ cmd'.step = "mirrors" /\ cmd'.new = v /\ cmd'.old = cmd.old
      /\ cmd'.code = cmd.code /\ cmd'.own = cmd.own /\ cmd'.at = cmd.at
  BY <1>1, <1>2 DEF IInv, CommandTypeOK
<1>4. NativeTypeOK' /\ SameVersion(ReadVersion, v)'
  BY <1>1, <1>2, ReadsBack DEF IInv, Knows
<1>5. CommandTypeOK'
  BY <1>1 DEF IInv, CommandTypeOK
<1>6. LogInOrder'
  BY DEF IInv, LogInOrder
<1>7. v = NextVersion(manifest)
  BY <1>1, <1>2 DEF IInv, Knows, After, At
<1>8. Agrees(cmd.new)'
  BY <1>3, <1>4 DEF Agrees, SameVersion, ReadVersion, ToNative
<1>9. Knows'
  BY <1>1, <1>3, <1>7, <1>8 DEF IInv, Knows, After, At
<1>10. MirrorsFollow'
  BY <1>1, <1>3 DEF IInv, MirrorsFollow, After, At
<1>11. CanBeFinished'
  BY <1>4, <1>7 DEF CanBeFinished, Agrees, SameVersion, ReadVersion, ToNative
<1>12. SuccessMeansAgreement'
  BY <1>3 DEF SuccessMeansAgreement, At
<1> QED
  BY <1>4, <1>5, <1>6, <1>9, <1>10, <1>11, <1>12 DEF IInv

(* The mirrors get the version of the native file.                         *)
LEMMA WriteMirrorsKeeps ==
  ASSUME IInv, WriteMirrors
  PROVE  IInv'
<1> USE DEF WriteMirrors, history, counters
<1>1. At("mirrors") /\ cmd' = [cmd EXCEPT !.step = "manifest"]
  BY Advances DEF At
<1>2. /\ cmd'.step = "manifest" /\ cmd'.new = cmd.new /\ cmd'.old = cmd.old
      /\ cmd'.code = cmd.code /\ cmd'.own = cmd.own /\ cmd'.at = cmd.at
  BY <1>1 DEF IInv, CommandTypeOK
<1>3. NativeTypeOK' /\ LogInOrder'
  BY DEF IInv, NativeTypeOK, LogInOrder
<1>4. CommandTypeOK'
  BY <1>1 DEF IInv, CommandTypeOK
<1>5. Knows'
  BY <1>1, <1>2 DEF IInv, Knows, After, At, Agrees, SameVersion, ReadVersion,
                    ToNative
<1>6. MirrorsFollow'
  BY <1>1, <1>2 DEF IInv, MirrorsFollow, After, At
<1>7. CanBeFinished'
  BY DEF IInv, CanBeFinished, Agrees, SameVersion, ReadVersion, ToNative
<1>8. SuccessMeansAgreement'
  BY <1>2 DEF SuccessMeansAgreement, At
<1> QED
  BY <1>3, <1>4, <1>5, <1>6, <1>7, <1>8 DEF IInv

(* The manifest gets the version the native file has.                      *)
LEMMA WriteManifestKeeps ==
  ASSUME IInv, WriteManifest
  PROVE  IInv'
<1> USE DEF WriteManifest, history, counters
<1>1. At("manifest") /\ cmd' = [cmd EXCEPT !.step = "changelog"]
  BY Advances DEF At
<1>2. /\ cmd'.step = "changelog" /\ cmd'.new = cmd.new /\ cmd'.old = cmd.old
      /\ cmd'.code = cmd.code /\ cmd'.own = cmd.own /\ cmd'.at = cmd.at
  BY <1>1 DEF IInv, CommandTypeOK
<1>3. NativeTypeOK'
  BY DEF IInv, NativeTypeOK
<1>4. CommandTypeOK'
  BY <1>1 DEF IInv, CommandTypeOK
<1>5. manifest' = NextVersion(manifest) /\ Agrees(cmd.new)
  BY <1>1 DEF IInv, Knows, After, At
<1>6. Agrees(manifest)' /\ Agrees(cmd.new)'
  BY <1>2, <1>5 DEF Agrees, SameVersion, ReadVersion, ToNative
<1>7. LogInOrder'
  <2>1. Place(manifest') >= Place(manifest)
        /\ Place(manifest') \in Int /\ Place(manifest) \in Int
    <3>1. manifest \in Version
      BY DEF IInv, CommandTypeOK
    <3>2. NextVersion(manifest) \in Version
          /\ Place(NextVersion(manifest))
               = Place(manifest) + (IF Len(manifest) = 4 THEN 1 ELSE 10)
      BY <3>1, NextIs
    <3>3. Place(manifest) \in Int /\ Place(NextVersion(manifest)) \in Int
      BY <3>1, <3>2, PlaceIsNumber
    <3> QED
      BY <1>5, <3>2, <3>3
  <2>2. \A i \in 1 .. Len(changelog) : Place(changelog[i]) \in Int
    BY PlaceIsNumber, ElementOfSeq DEF IInv, LogInOrder
  <2> QED
    BY <2>1, <2>2 DEF IInv, LogInOrder
<1>8. Knows'
  BY <1>1, <1>2, <1>6 DEF IInv, Knows, After, At
<1>9. MirrorsFollow'
  BY <1>1, <1>2 DEF IInv, MirrorsFollow, After, At
<1>10. CanBeFinished'
  BY <1>6 DEF CanBeFinished, Agrees
<1>11. SuccessMeansAgreement'
  BY <1>2 DEF SuccessMeansAgreement, At
<1> QED
  BY <1>3, <1>4, <1>7, <1>8, <1>9, <1>10, <1>11 DEF IInv

(* A version the log has already is the first of it.                       *)
LEMMA WriteChangelogKeeps ==
  ASSUME IInv, WriteChangelog
  PROVE  IInv'
<1> USE DEF WriteChangelog, history, counters
<1>1. At("changelog") /\ cmd' = [cmd EXCEPT !.step = "lock"]
  BY Advances DEF At
<1>2. /\ cmd'.step = "lock" /\ cmd'.new = cmd.new /\ cmd'.old = cmd.old
      /\ cmd'.code = cmd.code /\ cmd'.own = cmd.own /\ cmd'.at = cmd.at
  BY <1>1 DEF IInv, CommandTypeOK
<1>3. NativeTypeOK'
  BY DEF IInv, NativeTypeOK
<1>4. CommandTypeOK'
  BY <1>1 DEF IInv, CommandTypeOK
<1>5. manifest = cmd.new /\ manifest \in Version
  BY <1>1 DEF IInv, CommandTypeOK, Knows, After, At
<1>6. /\ changelog \in Seq(Version) /\ Len(changelog) >= 1
      /\ \A i \in 1 .. Len(changelog) :
           /\ changelog[i] \in Version
           /\ Place(changelog[i]) \in Int
           /\ Place(changelog[i]) <= Place(manifest)
           /\ i > 1 => Place(changelog[i]) < Place(changelog[1])
  BY PlaceIsNumber, ElementOfSeq, EmptySeq, LenProperties DEF IInv, LogInOrder
<1>7. LogInOrder' /\ changelog'[1] = cmd.new
  <2>1. CASE cmd.new \in Range(changelog)
    <3>1. PICK i \in 1 .. Len(changelog) : changelog[i] = manifest
      BY <1>5, <1>6, <2>1, LenProperties DEF Range
    <3>2. i = 1
      BY <1>6, <3>1
    <3>3. UNCHANGED <<changelog, manifest>>
      BY <2>1
    <3> QED
      BY <1>5, <3>1, <3>2, <3>3 DEF IInv, LogInOrder
  <2>2. CASE cmd.new \notin Range(changelog)
    <3>1. \A i \in 1 .. Len(changelog) : Place(changelog[i]) < Place(manifest)
      <4> SUFFICES ASSUME NEW i \in 1 .. Len(changelog)
                   PROVE  Place(changelog[i]) < Place(manifest)
        OBVIOUS
      <4>1. changelog[i] # manifest
        BY <1>5, <1>6, <2>2, LenProperties DEF Range
      <4>2. Place(changelog[i]) # Place(manifest)
        BY <1>5, <1>6, <4>1, PlaceTells
      <4> QED
        BY <1>5, <1>6, <4>2, PlaceIsNumber
    <3>2. changelog' = <<manifest>> \o changelog /\ manifest' = manifest
      BY <1>5, <2>2
    <3>3. /\ changelog' \in Seq(Version) /\ Len(changelog') = Len(changelog) + 1
          /\ changelog'[1] = manifest
          /\ \A i \in 2 .. Len(changelog') :
               i - 1 \in 1 .. Len(changelog) /\ changelog'[i] = changelog[i - 1]
      <4>1. <<manifest>> \in Seq(Version) /\ Len(<<manifest>>) = 1
            /\ <<manifest>>[1] = manifest
        BY <1>5
      <4> QED
        BY <1>6, <3>2, <4>1, ConcatProperties
    <3>4. \A i \in 1 .. Len(changelog') :
            /\ Place(changelog'[i]) <= Place(manifest')
            /\ i > 1 => Place(changelog'[i]) < Place(changelog'[1])
      <4> SUFFICES ASSUME NEW i \in 1 .. Len(changelog')
                   PROVE  /\ Place(changelog'[i]) <= Place(manifest')
                          /\ i > 1 => Place(changelog'[i]) < Place(changelog'[1])
        OBVIOUS
      <4>1. CASE i = 1
        BY <1>5, <3>2, <3>3, <4>1, PlaceIsNumber
      <4>2. CASE i # 1
        <5>1. i - 1 \in 1 .. Len(changelog) /\ changelog'[i] = changelog[i - 1]
          BY <1>6, <3>3, <4>2
        <5> QED
          BY <1>5, <1>6, <3>1, <3>2, <3>3, <5>1, PlaceIsNumber
      <4> QED
        BY <4>1, <4>2
    <3>5. changelog' # <<>>
      BY <1>6, <3>3
    <3> QED
      BY <1>5, <3>3, <3>4, <3>5 DEF LogInOrder
  <2> QED
    BY <2>1, <2>2
<1>8. Knows'
  BY <1>1, <1>2, <1>5, <1>7
     DEF IInv, Knows, After, At, Agrees, SameVersion, ReadVersion, ToNative
<1>9. MirrorsFollow'
  BY <1>1, <1>2 DEF IInv, MirrorsFollow, After, At
<1>10. CanBeFinished'
  BY DEF IInv, CanBeFinished, Agrees, SameVersion, ReadVersion, ToNative
<1>11. SuccessMeansAgreement'
  BY <1>2 DEF SuccessMeansAgreement, At
<1> QED
  BY <1>3, <1>4, <1>7, <1>8, <1>9, <1>10, <1>11 DEF IInv

(* The lock file gets the version of the manifest.                         *)
LEMMA WriteLockKeeps ==
  ASSUME IInv, WriteLock
  PROVE  IInv'
<1> USE DEF WriteLock, history, counters
<1>1. At("lock") /\ cmd' = [cmd EXCEPT !.step = "agent"]
  BY Advances DEF At
<1>2. /\ cmd'.step = "agent" /\ cmd'.new = cmd.new /\ cmd'.old = cmd.old
      /\ cmd'.code = cmd.code /\ cmd'.own = cmd.own /\ cmd'.at = cmd.at
  BY <1>1 DEF IInv, CommandTypeOK
<1>3. NativeTypeOK' /\ LogInOrder'
  BY DEF IInv, NativeTypeOK, LogInOrder
<1>4. CommandTypeOK'
  BY <1>1 DEF IInv, CommandTypeOK
<1>5. LockHas(cmd.new)' /\ app' = App(native, counter)'
  BY <1>2 DEF LockHas, Locked, Lock, App, ToNative
<1>6. Knows'
  BY <1>1, <1>2, <1>5
     DEF IInv, Knows, After, At, Agrees, SameVersion, ReadVersion, ToNative
<1>7. MirrorsFollow'
  BY <1>1, <1>2 DEF IInv, MirrorsFollow, After, At
<1>8. CanBeFinished'
  BY DEF IInv, CanBeFinished, Agrees, SameVersion, ReadVersion, ToNative
<1>9. SuccessMeansAgreement'
  BY <1>2 DEF SuccessMeansAgreement, At
<1> QED
  BY <1>3, <1>4, <1>6, <1>7, <1>8, <1>9 DEF IInv

(* The last write: what the command knows is what success means.           *)
LEMMA WriteAgentKeeps ==
  ASSUME IInv, WriteAgent
  PROVE  IInv'
<1> USE DEF WriteAgent, history, counters
<1>1. /\ cmd'.step = "idle" /\ cmd'.new = cmd.new /\ cmd'.old = cmd.old
      /\ cmd'.code = 0 /\ cmd'.own = cmd.own /\ cmd'.at = cmd.at
  BY DEF IInv, CommandTypeOK
<1>2. NativeTypeOK' /\ LogInOrder'
  BY DEF IInv, NativeTypeOK, LogInOrder
<1>3. CommandTypeOK'
  BY DEF IInv, CommandTypeOK
<1>4. /\ Agrees(cmd.new) /\ manifest = cmd.new /\ changelog[1] = cmd.new
      /\ LockHas(cmd.new) /\ app = App(native, counter)
  BY DEF IInv, Knows, After, At
<1>5. Knows'
  BY <1>1 DEF Knows, After, At
<1>6. MirrorsFollow'
  BY <1>1, <1>4 DEF IInv, MirrorsFollow, After, At, Agrees, SameVersion,
                    ReadVersion, ToNative
<1>7. CanBeFinished'
  BY DEF IInv, CanBeFinished, Agrees, SameVersion, ReadVersion, ToNative
<1>8. SuccessMeansAgreement'
  <2>1. SameVersion(ReadVersion, manifest)'
    BY <1>4 DEF Agrees, SameVersion, ReadVersion, ToNative
  <2>2. changelog'[1] = manifest' /\ (cmd'.own => agent' = manifest')
    BY <1>1, <1>4
  <2>3. LockHas(manifest)' /\ app' = App(native, counter)'
    BY <1>4 DEF LockHas, Lock, App, ToNative
  <2> QED
    BY <1>1, <1>6, <2>1, <2>2, <2>3 DEF SuccessMeansAgreement, MirrorsFollow, At
<1> QED
  BY <1>2, <1>3, <1>5, <1>6, <1>7, <1>8 DEF IInv

(* A command killed between two writes leaves files another one can        *)
(* finish.                                                                 *)
LEMMA KillKeeps ==
  ASSUME IInv, Kill
  PROVE  IInv'
<1> USE DEF Kill, files
<1>1. cmd'.step = "idle" /\ cmd'.code = 1
  BY DEF IInv, CommandTypeOK
<1>2. NativeTypeOK' /\ LogInOrder'
  BY DEF IInv, NativeTypeOK, LogInOrder
<1>3. CommandTypeOK'
  <2>1. cmd' = [step |-> "idle", old |-> cmd.old, new |-> cmd.new, code |-> 1,
                own |-> cmd.own, at |-> cmd.at]
    BY DEF IInv, CommandTypeOK
  <2> QED
    BY <2>1 DEF IInv, CommandTypeOK
<1>4. Knows'
  BY <1>1 DEF Knows, After, At
<1>5. MirrorsFollow'
  BY DEF MirrorsFollow
<1>6. CanBeFinished'
  BY DEF IInv, CanBeFinished, Agrees, SameVersion, ReadVersion, ToNative
<1>7. SuccessMeansAgreement'
  BY <1>1 DEF SuccessMeansAgreement
<1> QED
  BY <1>2, <1>3, <1>4, <1>5, <1>6, <1>7 DEF IInv

(* Other hands at the lock file end what was said of it, and no more.      *)
LEMMA EditLockKeeps ==
  ASSUME IInv, EditLock
  PROVE  IInv'
<1> USE DEF EditLock, history
<1>1. NativeTypeOK' /\ LogInOrder'
  BY DEF IInv, NativeTypeOK, LogInOrder
<1>2. CommandTypeOK' /\ edits' # 0 /\ cmd'.at # edits'
  BY DEF IInv, CommandTypeOK
<1>3. Knows'
  BY DEF Knows, After, At
<1>4. MirrorsFollow'
  BY <1>2 DEF MirrorsFollow
<1>5. CanBeFinished'
  BY DEF IInv, CanBeFinished, Agrees, SameVersion, ReadVersion, ToNative
<1>6. SuccessMeansAgreement'
  BY <1>2 DEF SuccessMeansAgreement
<1> QED
  BY <1>1, <1>2, <1>3, <1>4, <1>5, <1>6 DEF IInv

(* Whatever other hands write is numbers of the length the file needs, and *)
(* one increment is what --sync accepts.                                   *)
LEMMA EditKeeps ==
  ASSUME IInv, Edit
  PROVE  IInv'
<1> USE DEF Edit, counters
<1> DEFINE next == NextVersion(manifest)
<1>1. PICK v \in {next, Three(next), NextVersion(next)} :
        CanHold(v) /\ native' = Replaced(v) /\ touched' = (touched \/ v # next)
  OBVIOUS
<1>2. next \in Version /\ NextVersion(next) \in Version
  BY NextIs DEF IInv, CommandTypeOK
<1>3. v \in Native
  BY <1>1, <1>2, VersionIsNative, ThreeOf
<1>4. NativeTypeOK'
  BY <1>1, <1>3, ReplacedIsNative DEF IInv
<1>5. LogInOrder'
  BY DEF IInv, LogInOrder
<1>6. CommandTypeOK' /\ edits' # 0 /\ cmd'.at # edits'
  BY DEF IInv, CommandTypeOK
<1>7. Knows'
  BY DEF Knows, After, At
<1>8. MirrorsFollow'
  BY <1>6 DEF MirrorsFollow
<1>9. CanBeFinished'
  <2>1. CASE touched'
    BY <2>1 DEF CanBeFinished
  <2>2. CASE ~touched'
    <3>1. v = next
      BY <1>1, <2>2
    <3>2. SameVersion(ReadVersion, v)'
      BY <1>1, <1>2, <3>1, ReadsBack DEF IInv
    <3> QED
      BY <3>1, <3>2 DEF CanBeFinished, Agrees, SameVersion, ReadVersion, ToNative
  <2> QED
    BY <2>1, <2>2
<1>10. SuccessMeansAgreement'
  BY <1>6 DEF SuccessMeansAgreement
<1> QED
  BY <1>4, <1>5, <1>6, <1>7, <1>8, <1>9, <1>10 DEF IInv

-----------------------------------------------------------------------------
(* VersionBump *)

(* The invariant reads the files, the command, the history and the edits.  *)
LEMMA StayKeeps ==
  ASSUME IInv, UNCHANGED <<style, files, cmd, history, edits>>
  PROVE  IInv'
<1> USE DEF files, history
<1>1. NativeTypeOK' /\ CommandTypeOK' /\ LogInOrder'
  BY DEF IInv, NativeTypeOK, CommandTypeOK, LogInOrder
<1>2. Knows'
  BY DEF IInv, Knows, After, At, Agrees, SameVersion, ReadVersion, ToNative,
         CanHold, LockHas, Lock, App
<1>3. MirrorsFollow'
  BY DEF IInv, MirrorsFollow, After, At, ReadVersion
<1>4. CanBeFinished'
  BY DEF IInv, CanBeFinished, Agrees, SameVersion, ReadVersion, ToNative
<1>5. SuccessMeansAgreement'
  BY DEF IInv, SuccessMeansAgreement, At, SameVersion, ReadVersion, ToNative,
         LockHas, Lock, App
<1> QED
  BY <1>1, <1>2, <1>3, <1>4, <1>5 DEF IInv

(* Every step keeps the invariant.                                         *)
LEMMA NextKeeps ==
  ASSUME IInv, [Next]_vars
  PROVE  IInv'
<1>1. CASE \E own \in BOOLEAN : Bump(own)
  BY <1>1, BumpKeeps
<1>2. CASE \E own \in BOOLEAN : Sync(own)
  BY <1>2, SyncKeeps
<1>3. CASE WriteNative
  BY <1>3, WriteNativeKeeps
<1>4. CASE WriteMirrors
  BY <1>4, WriteMirrorsKeeps
<1>5. CASE WriteManifest
  BY <1>5, WriteManifestKeeps
<1>6. CASE WriteChangelog
  BY <1>6, WriteChangelogKeeps
<1>7. CASE WriteLock
  BY <1>7, WriteLockKeeps
<1>8. CASE WriteAgent
  BY <1>8, WriteAgentKeeps
<1>9. CASE Kill
  BY <1>9, KillKeeps
<1>10. CASE Edit
  BY <1>10, EditKeeps
<1>11. CASE EditLock
  BY <1>11, EditLockKeeps
<1>12. CASE UNCHANGED vars
  BY <1>12, StayKeeps DEF vars, counters
<1> QED
  BY <1>1, <1>2, <1>3, <1>4, <1>5, <1>6, <1>7, <1>8, <1>9, <1>10, <1>11, <1>12
     DEF Next

(* A repository begins with a version that reads back.                     *)
LEMMA BeginsRight ==
  ASSUME Init
  PROVE  /\ manifest \in Version /\ NativeTypeOK
         /\ SameVersion(ReadVersion, manifest)
         /\ style \notin {"npm", "pubspec"} => ReadVersion = manifest
<1>1. /\ manifest \in Starts /\ style \in AllStyles
      /\ native = IF style = "fields+build" /\ Len(manifest) = 3
                  THEN Append(manifest, 0) ELSE ToNative(manifest)
  BY BumpAssumption DEF Init
<1>2. manifest \in Version
  BY <1>1, BumpAssumption DEF Version, FromFour
<1>3. /\ manifest \in Native /\ (Len(manifest) = 4 <=> FromFour(manifest))
      /\ (Len(manifest) = 3 \/ Len(manifest) = 4)
  BY <1>2, VersionIsNative DEF Native
<1>4. CASE style = "fields+build" /\ Len(manifest) = 3
  <2>1. PICK w \in {native} : w = Append(manifest, 0)
    BY <1>1, <1>4
  <2>2. /\ w \in Native /\ Len(w) = 4 /\ Three(w) = manifest
        /\ w[1] = manifest[1] /\ w[2] = manifest[2]
    BY <1>3, <1>4, <2>1, AppendThree
  <2>3. /\ native \in Native /\ Len(native) = 4 /\ Three(native) = manifest
        /\ native[1] = manifest[1] /\ native[2] = manifest[2]
    BY <2>1, <2>2
  <2>4. ~FromFour(native)
    BY <1>3, <1>4, <2>3 DEF FromFour
  <2> QED
    BY <1>1, <1>2, <1>4, <2>3, <2>4 DEF NativeTypeOK, SameVersion, ReadVersion
<1>5. CASE style = "fields+build" /\ Len(manifest) = 4
  <2>1. native = manifest
    BY <1>1, <1>5 DEF ToNative
  <2> QED
    BY <1>1, <1>2, <1>3, <1>5, <2>1 DEF NativeTypeOK, SameVersion, ReadVersion
<1>6. CASE style \in {"pubspec", "npm"}
  <2>1. native = Three(manifest)
    BY <1>1, <1>6 DEF ToNative
  <2>2. /\ Three(manifest) \in Native /\ Three(Three(manifest)) = Three(manifest)
    BY <1>3, ThreeOf
  <2> QED
    BY <1>1, <1>2, <1>6, <2>1, <2>2
       DEF NativeTypeOK, SameVersion, ReadVersion, ToNative
<1>7. CASE style \in {"plain", "cargo", "fields"}
  <2>1. native = manifest
    BY <1>1, <1>7 DEF ToNative
  <2> QED
    BY <1>1, <1>2, <1>3, <1>7, <2>1
       DEF NativeTypeOK, SameVersion, ReadVersion, ToNative
<1> QED
  BY <1>1, <1>3, <1>4, <1>5, <1>6, <1>7 DEF AllStyles

(* A repository that agrees is one the invariant holds of.                 *)
LEMMA InitHolds ==
  ASSUME Init
  PROVE  IInv
<1>1. /\ manifest \in Version /\ NativeTypeOK
      /\ SameVersion(ReadVersion, manifest)
      /\ style \notin {"npm", "pubspec"} => ReadVersion = manifest
  BY BeginsRight
<1> USE DEF Init
<1>2. CommandTypeOK
  BY <1>1 DEF CommandTypeOK, Version
<1>3. LogInOrder
  <2>1. /\ changelog \in Seq(Version) /\ Len(changelog) = 1
        /\ changelog[1] = manifest /\ changelog # <<>>
    BY <1>1
  <2>2. Place(manifest) \in Int
    BY <1>1, PlaceIsNumber
  <2> QED
    BY <2>1, <2>2 DEF LogInOrder
<1>4. Knows
  BY DEF Knows, After, At
<1>5. MirrorsFollow
  BY <1>1 DEF MirrorsFollow, After, At
<1>6. CanBeFinished
  BY <1>1 DEF CanBeFinished, Agrees
<1>7. SuccessMeansAgreement
  BY DEF SuccessMeansAgreement
<1> QED
  BY <1>1, <1>2, <1>3, <1>4, <1>5, <1>6, <1>7 DEF IInv

(* The invariant of the commands by themselves, whatever runs them.        *)
THEOREM BumpInvariance == Spec => []IInv
<1>1. Init => IInv
  BY InitHolds
<1>2. IInv /\ [Next]_vars => IInv'
  BY NextKeeps
<1> QED
  BY <1>1, <1>2, PTL DEF Spec

-----------------------------------------------------------------------------
(* ProjectTool *)

(* A step of the tool, or beside it, is a step of VersionBump, or leaves   *)
(* the files, the command and the history alone.                           *)
LEMMA ToolSteps ==
  ASSUME ToolKnows, [ToolNext]_allVars
  PROVE  [Next]_vars \/ UNCHANGED <<style, files, cmd, history, edits>>
<1>1. CASE \E own, allowDirty \in BOOLEAN : ToolBump(own, allowDirty)
  BY <1>1 DEF ToolBump
<1>2. CASE StartChild
  <2>1. Head(tool.left) \in {"own", "sync", "shared"}
    BY <1>2 DEF StartChild, ToolKnows
  <2>2. Bump(TRUE) \/ Bump(FALSE) \/ Sync(FALSE)
    BY <1>2, <2>1 DEF StartChild
  <2> QED
    BY <2>2 DEF Next
<1>3. CASE ChildEnds \/ CheckResult \/ Commit
  BY <1>3 DEF ChildEnds, CheckResult, Commit
<1>4. CASE KillTool
  BY <1>4 DEF KillTool
<1>5. CASE CommandSteps
  BY <1>5 DEF CommandSteps, Next
<1>6. CASE Others
  BY <1>6 DEF Others, Next
<1>7. CASE UNCHANGED allVars
  BY <1>7 DEF allVars
<1> QED
  BY <1>1, <1>2, <1>3, <1>4, <1>5, <1>6, <1>7 DEF ToolNext

(* The tool begins where a repository does.                                *)
LEMMA ToolInitHolds ==
  ASSUME ToolInit
  PROVE  IInv /\ ToolKnows
<1>1. IInv
  BY InitHolds DEF ToolInit
<1>2. manifest \in Version
  BY <1>1 DEF IInv, CommandTypeOK
<1>3. <<>> \in Seq({"own", "sync", "shared"})
  BY EmptySeq
<1> QED
  BY <1>1, <1>2, <1>3 DEF ToolInit, ToolKnows, ToolAt

(* Every step of the tool, or of a command it runs, keeps both invariants. *)
LEMMA ToolStepKeeps ==
  ASSUME IInv, ToolKnows, [ToolNext]_allVars
  PROVE  IInv' /\ ToolKnows'
<1>1. IInv'
  BY ToolSteps, NextKeeps, StayKeeps
<1> DEFINE kinds == {"own", "sync", "shared"}
<1>2. manifest \in Version /\ NextVersion(manifest) \in Version
  BY NextIs DEF IInv, CommandTypeOK
<1>3. <<>> \in Seq(kinds) /\ <<"own", "sync">> \in Seq(kinds)
      /\ <<"shared">> \in Seq(kinds)
  BY EmptySeq
<1>4. ASSUME NEW what \in {"nothing", "FAIL", "BUMPED"}, Says(what)
      PROVE  ToolKnows'
  BY <1>3, <1>4 DEF Says, ToolKnows, ToolAt
<1>5. CASE \E own, allowDirty \in BOOLEAN : ToolBump(own, allowDirty)
  <2>1. PICK own \in BOOLEAN, allowDirty \in BOOLEAN : ToolBump(own, allowDirty)
    BY <1>5
  <2>2. Children(own) \in Seq(kinds)
    BY <1>3 DEF Children
  <2> QED
    BY <1>1, <1>2, <1>4, <2>1, <2>2 DEF ToolBump, ToolKnows, ToolAt
<1>6. CASE StartChild
  <2>1. Tail(tool.left) \in Seq(kinds)
    BY <1>6 DEF StartChild, ToolKnows
  <2> QED
    BY <1>1, <1>6, <2>1 DEF StartChild, ToolKnows, ToolAt
<1>7. CASE ChildEnds
  BY <1>1, <1>4, <1>7 DEF ChildEnds, ToolKnows, ToolAt
<1>8. CASE CheckResult
  BY <1>1, <1>4, <1>8 DEF CheckResult
<1>9. CASE KillTool
  BY <1>1, <1>4, <1>9 DEF KillTool
<1>10. CASE Commit \/ UNCHANGED toolVars \/ UNCHANGED allVars
  BY <1>1, <1>10 DEF Commit, toolVars, allVars, ToolKnows, ToolAt
<1> QED
  BY <1>1, <1>5, <1>6, <1>7, <1>8, <1>9, <1>10 DEF ToolNext

(* The same invariant with the tool beside and between the commands, and   *)
(* what the tool keeps while it waits (hydra_project_tool.py bump).        *)
THEOREM ToolInvariance == ToolSpec => [](IInv /\ ToolKnows)
<1>1. ToolInit => IInv /\ ToolKnows
  BY ToolInitHolds
<1>2. IInv /\ ToolKnows /\ [ToolNext]_allVars => (IInv /\ ToolKnows)'
  BY ToolStepKeeps
<1> QED
  BY <1>1, <1>2, PTL DEF ToolSpec

(* A command that says it succeeded leaves one version everywhere, for     *)
(* every start and every kind of file, however many commands were killed   *)
(* or files edited before it (bump_manifest_version.py main).              *)
THEOREM SuccessAgrees == ToolSpec => []SuccessMeansAgreement
<1>1. IInv => SuccessMeansAgreement
  BY DEF IInv
<1> QED
  BY <1>1, ToolInvariance, PTL

(* Whatever was killed, --sync accepts the native file, as long as nobody  *)
(* wrote a version into it that is not the next one                        *)
(* (bump_manifest_version.py main, the order of its writes).               *)
THEOREM AnyBumpFinishes == ToolSpec => []ABumpCanBeFinished
<1>1. IInv => ABumpCanBeFinished
  BY DEF IInv, CanBeFinished, ABumpCanBeFinished, Agrees
<1> QED
  BY <1>1, ToolInvariance, PTL

(* Only one write moves the manifest, and it moves it to what next_version *)
(* says, one place on: no version is left out and none comes twice.        *)
THEOREM VersionsFollow == ToolSpec => NoVersionIsSkipped
<1>1. ASSUME IInv, ToolKnows, [ToolNext]_allVars, manifest' # manifest
      PROVE  /\ Place(manifest') - Place(manifest)
                  = (IF Len(manifest) = 4 THEN 1 ELSE 10)
             /\ \A i \in 2 .. Len(manifest') : manifest'[i] \in 0 .. 9
  <2>1. WriteManifest
    BY <1>1, ToolSteps
       DEF Next, Bump, Sync, Start, files, vars, history, counters, WriteNative,
           WriteMirrors, WriteChangelog, WriteLock, WriteAgent, Kill, Edit, EditLock
  <2>2. manifest \in Version /\ manifest' = NextVersion(manifest)
    BY <1>1, <2>1, Advances
       DEF IInv, CommandTypeOK, Knows, After, At, WriteManifest
  <2>3. /\ manifest' \in Version
        /\ Place(manifest') = Place(manifest) + (IF Len(manifest) = 4 THEN 1 ELSE 10)
    BY <2>2, NextIs
  <2>4. Place(manifest) \in Int /\ Place(manifest') \in Int
    BY <2>2, <2>3, PlaceIsNumber
  <2>5. \A i \in 2 .. Len(manifest') : manifest'[i] \in 0 .. 9
    BY <2>3, VersionNumbers
  <2> QED
    BY <2>3, <2>4, <2>5
<1>2. IInv /\ ToolKnows /\ [ToolNext]_allVars =>
        [manifest' # manifest =>
           /\ Place(manifest') - Place(manifest)
                = (IF Len(manifest) = 4 THEN 1 ELSE 10)
           /\ \A i \in 2 .. Len(manifest') : manifest'[i] \in 0 .. 9]_vars
  BY <1>1
<1> QED
  BY <1>2, ToolInvariance, PTL DEF ToolSpec, NoVersionIsSkipped

(* What reads back as a version, CI accepts as that version.               *)
LEMMA CiAccepts ==
  ASSUME NativeTypeOK, NEW v \in Version, SameVersion(ReadVersion, v)
  PROVE  NativeSame(CiReads, v)
<1>1. v \in Native /\ native \in Native
  BY VersionIsNative DEF NativeTypeOK
<1>2. Three(Three(native)) = Three(native)
  BY <1>1, ThreeOf
<1> QED
  BY <1>2 DEF NativeTypeOK, AllStyles, NativeSame, CiReads, SameVersion,
              ReadVersion, ToNative

(* The tool says BUMPED of one step and no other, whoever else runs bumps  *)
(* between its children; and when nothing was edited since the last        *)
(* command began, what it says holds of every file                         *)
(* (hydra_project_tool.py bump).                                           *)
THEOREM BumpedIsOneStep == ToolSpec => BumpedIsTheNext
<1> DEFINE Said == tool'.says = "BUMPED" /\ tool.says # "BUMPED"
<1>1. ASSUME IInv, ToolKnows, [ToolNext]_allVars, Said
      PROVE  /\ manifest = NextVersion(tool.before)
             /\ cmd.code = 0 /\ cmd.at = edits =>
                  /\ changelog[1] = manifest /\ LockHas(manifest)
                  /\ NativeSame(CiReads, manifest)
  <2>1. CheckResult /\ AsWanted
    <3>1. ASSUME NEW what \in {"nothing", "FAIL", "BUMPED"}, Says(what)
          PROVE  tool'.says = what
      BY <1>1, <3>1 DEF Says, ToolKnows
    <3>2. ~(\E own, allowDirty \in BOOLEAN : ToolBump(own, allowDirty))
      BY <1>1, <3>1 DEF ToolBump
    <3>3. ~StartChild
      BY <1>1 DEF StartChild, ToolKnows
    <3>4. ~ChildEnds
      BY <1>1, <3>1 DEF ChildEnds, ToolKnows
    <3>5. ~KillTool /\ ~Commit /\ ~UNCHANGED toolVars /\ ~UNCHANGED allVars
      BY <1>1, <3>1 DEF KillTool, Commit, toolVars, allVars
    <3>6. CheckResult
      BY <1>1, <3>2, <3>3, <3>4, <3>5 DEF ToolNext
    <3> QED
      BY <1>1, <3>1, <3>6 DEF CheckResult
  <2>2. manifest = NextVersion(tool.before)
    BY <1>1, <2>1 DEF CheckResult, AsWanted, ToolKnows, ToolAt
  <2>3. ASSUME cmd.code = 0, cmd.at = edits
        PROVE  /\ changelog[1] = manifest /\ LockHas(manifest)
               /\ NativeSame(CiReads, manifest)
    <3>1. At("idle")
      BY <1>1, <2>3 DEF IInv, Knows
    <3>2. /\ SameVersion(ReadVersion, manifest) /\ changelog[1] = manifest
          /\ LockHas(manifest)
      BY <1>1, <2>3, <3>1 DEF IInv, SuccessMeansAgreement
    <3>3. manifest \in Version /\ NativeTypeOK
      BY <1>1 DEF IInv, CommandTypeOK
    <3> QED
      BY <3>2, <3>3, CiAccepts
  <2> QED
    BY <2>2, <2>3
<1>2. IInv /\ ToolKnows /\ [ToolNext]_allVars =>
        [Said =>
           /\ manifest = NextVersion(tool.before)
           /\ cmd.code = 0 /\ cmd.at = edits =>
                /\ changelog[1] = manifest /\ LockHas(manifest)
                /\ NativeSame(CiReads, manifest)]_allVars
  BY <1>1
<1> QED
  BY <1>2, ToolInvariance, PTL DEF ToolSpec, BumpedIsTheNext
=============================================================================
