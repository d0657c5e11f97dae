--------------------------- MODULE LibrarySyncProofs ---------------------------
(***************************************************************************)
(* Theorems of LibrarySync and of the watched bit field, for any items and *)
(* lists of videos.                                                        *)
(***************************************************************************)
EXTENDS LibrarySync, SequenceTheorems, WellFoundedInduction, TLAPS

-----------------------------------------------------------------------------
(* The watched bit field.                                                  *)

Bits == [length : Nat, bytes : Nat, ones : SUBSET Nat]

\* The list that a field has been written with is l, and what it shows then is
\* in the set seen.
WrittenOver(f, l, seen) ==
    /\ \A j \in f.ones : j < Len(l) /\ l[j + 1] \in seen
    /\ f.ones # {} => f.anchorLength \in 1 .. Len(l) /\ f.anchor = l[f.anchorLength]

\* What it shows then.
Shows(f, l) == {l[j + 1] : j \in f.ones}

LEMMA CeilType == ASSUME NEW n \in Nat PROVE Ceil(n) \in Nat
<1>1. n + ByteSize - 1 \in Nat
      BY ByteSizeAssumption
<1> QED  BY <1>1, ByteSizeAssumption DEF Ceil

LEMMA NewBitsType ==
    ASSUME NEW n \in Nat
    PROVE  /\ NewBitField8(n) \in Bits /\ NewBitField8(n).ones = {}
           /\ \A bytes \in Nat, ones \in SUBSET Nat :
                 /\ NewBitField8WithValues(bytes, ones, n) \in Bits
                 /\ NewBitField8WithValues(bytes, ones, n).ones = ones
<1>1. NewBitField8(n) \in Bits /\ NewBitField8(n).ones = {}
      BY CeilType DEF NewBitField8, Bits
<1>2. ASSUME NEW bytes \in Nat, NEW ones \in SUBSET Nat
      PROVE  /\ NewBitField8WithValues(bytes, ones, n) \in Bits
             /\ NewBitField8WithValues(bytes, ones, n).ones = ones
  <2> DEFINE length == IF n = 0 THEN bytes * ByteSize ELSE n
  <2>1. length \in Nat
        BY ByteSizeAssumption
  <2>2. Larger(bytes, Ceil(length)) \in Nat
        BY <2>1, CeilType DEF Larger
  <2> QED  BY <2>1, <2>2 DEF NewBitField8WithValues, Bits
<1> QED  BY <1>1, <1>2

\* The index of a video in a list that names it once.
LEMMA IndexOf ==
    ASSUME NEW S, NEW l \in Seq(S), IsInjective(l), NEW v
    PROVE  /\ Index(l, v) \in -1 .. Len(l) - 1
           /\ Index(l, v) = -1 <=> \A n \in 1 .. Len(l) : l[n] # v
           /\ Index(l, v) # -1 => l[Index(l, v) + 1] = v
           /\ \A n \in 1 .. Len(l) : l[n] = v => Index(l, v) = n - 1
<1>1. Len(l) \in Nat /\ DOMAIN l = 1 .. Len(l)
      BY LenProperties
<1>2. ASSUME NEW n \in 1 .. Len(l), l[n] = v PROVE Index(l, v) = n - 1
  <2>1. \A m \in 1 .. Len(l) : l[m] = v => m = n
        BY <1>1, <1>2 DEF IsInjective
  <2>2. l[n] = v /\ \A m \in 1 .. n - 1 : l[m] # v
        BY <1>1, <1>2, <2>1
  <2>3. (CHOOSE k \in 1 .. Len(l) : l[k] = v /\ \A m \in 1 .. k - 1 : l[m] # v) = n
        BY <2>1, <2>2
  <2> QED  BY <1>2, <2>3 DEF Index
<1>3. (\A n \in 1 .. Len(l) : l[n] # v) => Index(l, v) = -1
      BY DEF Index
<1> QED  BY <1>1, <1>2, <1>3

\* LastIndexOf is a bit that is 1, among the first Length ones, or none.
LEMMA LastIndexType ==
    ASSUME NEW bf \in Bits
    PROVE  LastIndexOf(bf) = -1 \/ (LastIndexOf(bf) \in bf.ones /\ LastIndexOf(bf) < bf.length)
<1> DEFINE n == bf.length
           seen == {i \in bf.ones : i < n}
           distances == {k \in Nat : \E i \in seen : k = n - i}
<1>1. CASE seen = {}
      BY <1>1 DEF LastIndexOf
<1>2. CASE seen # {}
  <2>1. bf.ones \subseteq Nat /\ n \in Nat
        BY DEF Bits
  <2> HIDE DEF n
  <2>2. distances \subseteq Nat /\ distances # {}
    <3>1. PICK i \in seen : TRUE
          BY <1>2
    <3>2. n - i \in Nat
          BY <2>1, <3>1
    <3>3. n - i \in distances
          BY <3>1, <3>2
    <3> QED  BY <3>3
  <2>3. PICK k \in distances : \A m \in distances : ~ (<<m, k>> \in OpToRel(<, Nat))
    <3> HIDE DEF distances
    <3> QED  BY <2>2, NatLessThanWellFounded, WFMin
  <2>4. PICK i \in seen : k = n - i
        BY <2>3
  <2>5. ASSUME NEW j \in seen PROVE j <= i
    <3>1. i \in Nat /\ j \in Nat /\ n - j \in Nat
          BY <2>1, <2>4
    <3>2. n - j \in distances
          BY <3>1
    <3>3. ~ (n - j < k)
          BY <2>3, <3>2 DEF OpToRel
    <3> QED  BY <2>1, <2>4, <3>1, <3>3
  <2>6. (CHOOSE i_1 \in seen : \A j \in seen : j <= i_1) \in seen
        BY <2>5
  <2> QED  BY <1>2, <2>6 DEF LastIndexOf, n
<1> QED  BY <1>1, <1>2

\* Setting videos of W in a field over l, and writing it.
LEMMA WriteField ==
    ASSUME NEW S, NEW l \in Seq(S), IsInjective(l), NEW bf \in Bits, NEW seen, NEW W \in SUBSET seen,
           \A j \in bf.ones : j < Len(l) /\ l[j + 1] \in seen
    PROVE  LET f == ToField(SetVideos(bf, l, W), l)
           IN /\ f \in [anchor : S \cup {Undefined}, anchorLength : Nat, bytes : Nat, ones : SUBSET Nat]
              /\ WrittenOver(f, l, seen)
<1> DEFINE new == SetVideos(bf, l, W)
           last == Larger(LastIndexOf(new), 0)
<1>1. Len(l) \in Nat /\ \A n \in 1 .. Len(l) : l[n] \in S
      BY LenProperties, ElementOfSeq
<1>2. new = [bf EXCEPT !.ones = new.ones] /\ \A j \in new.ones : j \in bf.ones \/ \E v \in W : j = Index(l, v) /\ j # -1
      BY DEF SetVideos, Bits
<1>3. ASSUME NEW j \in new.ones PROVE j \in Nat /\ j < Len(l) /\ l[j + 1] \in seen
  <2>1. CASE j \in bf.ones
        BY <2>1 DEF Bits
  <2>2. CASE \E v \in W : j = Index(l, v) /\ j # -1
        BY <1>1, <2>2, IndexOf
  <2> QED  BY <1>2, <2>1, <2>2
<1>4. new \in Bits
      BY <1>2, <1>3 DEF Bits
<1>5. last \in Nat /\ (new.ones # {} => last < Len(l)) /\ (last < Len(l) => last + 1 \in 1 .. Len(l))
  <2> HIDE DEF new
  <2>1. LastIndexOf(new) = -1 \/ LastIndexOf(new) \in new.ones
        BY <1>4, LastIndexType
  <2>2. new.ones # {} => 0 < Len(l)
        BY <1>1, <1>3
  <2> QED  BY <1>1, <1>3, <2>1, <2>2 DEF Larger
<1>6. ToField(new, l) = [anchor |-> IF last < Len(l) THEN l[last + 1] ELSE Undefined,
                         anchorLength |-> last + 1, bytes |-> new.bytes, ones |-> new.ones]
      BY DEF ToField
<1> HIDE DEF new, last
<1>7. ToField(new, l) \in [anchor : S \cup {Undefined}, anchorLength : Nat, bytes : Nat, ones : SUBSET Nat]
      BY <1>1, <1>4, <1>5, <1>6 DEF Bits
<1>8. WrittenOver(ToField(new, l), l, seen)
      BY <1>3, <1>5, <1>6 DEF WrittenOver
<1> QED  BY <1>7, <1>8 DEF new

\* Setting videos of W in a field over l and writing it: what it showed and
\* what W has of the list.
LEMMA WriteExactly ==
    ASSUME NEW S, NEW l \in Seq(S), IsInjective(l), NEW bf \in Bits, NEW W
    PROVE  LET f == ToField(SetVideos(bf, l, W), l)
           IN Shows(f, l) = Shows(bf, l) \cup (W \cap Range(l))
<1>1. Len(l) \in Nat /\ DOMAIN l = 1 .. Len(l)
      BY LenProperties
<1>2. ToField(SetVideos(bf, l, W), l).ones
        = bf.ones \cup {Index(l, v) : v \in {w \in W : Index(l, w) # -1}}
      BY DEF ToField, SetVideos, Bits
<1>3. \A v \in W : Index(l, v) # -1 => v \in Range(l) /\ l[Index(l, v) + 1] = v
      BY <1>1, IndexOf DEF Range
<1>4. \A v \in W \cap Range(l) : Index(l, v) # -1
      BY <1>1, IndexOf DEF Range
<1>5. {l[j + 1] : j \in {Index(l, v) : v \in {w \in W : Index(l, w) # -1}}} = W \cap Range(l)
      BY <1>3, <1>4
<1> QED  BY <1>2, <1>5 DEF Shows

\* A field that is read with a list in which its own is a stretch: its bits
\* move with the stretch, and none is lost.
LEMMA ReadShifts ==
    ASSUME NEW S, NEW l \in Seq(S), NEW longer \in Seq(S), IsInjective(longer), StretchOf(l, longer),
           NEW seen, NEW f, f.bytes \in Nat, f.ones \in SUBSET Nat, WrittenOver(f, l, seen)
    PROVE  /\ FromField(f, longer) \in Bits
           /\ \E d \in 0 .. Len(longer) :
                 /\ Len(l) + d <= Len(longer)
                 /\ \A k \in 1 .. Len(l) : longer[k + d] = l[k]
                 /\ \A j \in f.ones : j + d \in FromField(f, longer).ones
                 /\ \A i \in FromField(f, longer).ones : i - d \in f.ones
<1> DEFINE n == Len(longer)
           at == Index(longer, f.anchor)
           offset == f.anchorLength - at - 1
           bits == NewBitField8WithValues(f.bytes, f.ones, n)
           moved == {i \in 0 .. n - 1 : i + offset >= 0 /\ i + offset < bits.length /\ GetBit(bits, i + offset)}
<1>1. /\ n \in Nat /\ Len(l) \in Nat /\ at \in -1 .. n - 1
      /\ \A k \in 1 .. n : longer[k] = f.anchor => at = k - 1
      BY LenProperties, IndexOf
<1>2. /\ bits \in Bits /\ bits.ones = f.ones /\ NewBitField8(n) \in Bits /\ NewBitField8(n).ones = {}
      /\ n # 0 => bits.length = n
      BY <1>1, NewBitsType DEF NewBitField8WithValues
<1>3. FromField(f, longer) = IF at = -1 THEN NewBitField8(n) ELSE IF offset = 0 THEN bits
                             ELSE [NewBitField8(n) EXCEPT !.ones = moved]
      BY DEF FromField
<1>4. PICK d \in 0 .. n : /\ Len(l) + d <= n
                          /\ \A k \in 1 .. Len(l) : longer[k + d] = l[k]
      BY DEF StretchOf, n
<1> HIDE DEF bits, n
<1>5. CASE f.ones = {}
  <2>1. moved = {}
        BY <1>2, <1>5 DEF GetBit
  <2> HIDE DEF at, moved
  <2>2. FromField(f, longer) \in Bits /\ FromField(f, longer).ones = {}
        BY <1>2, <1>3, <1>5, <2>1 DEF Bits
  <2> QED  BY <1>4, <1>5, <2>2 DEF n
<1>6. CASE f.ones # {}
  <2>1. f.anchorLength \in 1 .. Len(l) /\ longer[f.anchorLength + d] = f.anchor
        BY <1>4, <1>6 DEF WrittenOver
  <2>2. f.anchorLength + d \in 1 .. n
        BY <1>1, <1>4, <2>1
  <2>3. at = f.anchorLength + d - 1
    <3>1. PICK k \in 1 .. n : k = f.anchorLength + d
          BY <2>2
    <3>2. longer[k] = f.anchor
          BY <2>1, <3>1
    <3>3. at = k - 1
          BY <1>1, <3>2
    <3> QED  BY <1>1, <1>4, <2>1, <3>1, <3>3
  <2>4. offset = -d /\ at # -1 /\ n # 0
    <3>1. f.anchorLength \in Nat /\ d \in Nat /\ n \in Nat /\ f.anchorLength >= 1
          BY <1>1, <1>4, <2>1
    <3> HIDE DEF at
    <3>2. offset = -d
          BY <2>3, <3>1
    <3>3. at # -1
          BY <2>3, <3>1
    <3>4. n # 0
          BY <2>2, <3>1
    <3> QED  BY <3>2, <3>3, <3>4
  <2>5. ASSUME NEW j \in f.ones PROVE j \in Nat /\ j + d \in 0 .. n - 1 /\ j < n
    <3>1. j \in Nat /\ j < Len(l)
          BY DEF WrittenOver
    <3> QED  BY <1>1, <1>4, <3>1
  <2>6. CASE d = 0
    <3>1. FromField(f, longer) = bits
          BY <1>3, <2>4, <2>6
    <3>2. \A j \in f.ones : j \in Nat /\ j + d = j /\ j - d = j
          BY <2>5, <2>6
    <3> QED  BY <1>2, <1>4, <3>1, <3>2 DEF n
  <2>7. CASE d # 0
    <3>1. FromField(f, longer) = [NewBitField8(n) EXCEPT !.ones = moved]
          BY <1>1, <1>3, <1>4, <2>4, <2>7
    <3>2. (\A j \in f.ones : j + d \in moved) /\ \A i \in moved : i - d \in f.ones
      <4>1. ASSUME NEW i \in moved PROVE i - d \in f.ones
            BY <1>2, <1>4, <2>4 DEF GetBit
      <4>2. ASSUME NEW j \in f.ones PROVE j + d \in moved
        <5>1. (j + d) + offset = j /\ j >= 0 /\ j < bits.length
              BY <1>1, <1>2, <1>4, <2>4, <2>5
        <5> QED  BY <1>2, <2>5, <5>1 DEF GetBit
      <4> HIDE DEF moved
      <4> QED  BY <4>1, <4>2
    <3>3. moved \subseteq 0 .. n - 1
          OBVIOUS
    <3> HIDE DEF moved
    <3>5. moved \in SUBSET Nat
          BY <1>1, <3>3
    <3>4. FromField(f, longer) \in Bits /\ FromField(f, longer).ones = moved
          BY <1>2, <3>1, <3>5 DEF Bits
    <3> QED  BY <1>4, <3>2, <3>4 DEF n
  <2> QED  BY <2>6, <2>7
<1> QED  BY <1>5, <1>6

\* It shows the videos that it was written with, and those only.
LEMMA ReadField ==
    ASSUME NEW S, NEW l \in Seq(S), NEW longer \in Seq(S), IsInjective(longer), StretchOf(l, longer),
           NEW seen, NEW f, f.bytes \in Nat, f.ones \in SUBSET Nat, WrittenOver(f, l, seen)
    PROVE  /\ FromField(f, longer) \in Bits
           /\ \A j \in FromField(f, longer).ones : j < Len(longer) /\ longer[j + 1] \in seen
           /\ Marks(FromField(f, longer), longer) = Shows(f, l)
<1> DEFINE bits == FromField(f, longer)
<1>1. bits \in Bits /\ Len(l) \in Nat /\ Len(longer) \in Nat
      BY ReadShifts, LenProperties
<1>2. PICK d \in 0 .. Len(longer) :
               /\ Len(l) + d <= Len(longer)
               /\ \A k \in 1 .. Len(l) : longer[k + d] = l[k]
               /\ \A j \in f.ones : j + d \in bits.ones
               /\ \A i \in bits.ones : i - d \in f.ones
      BY ReadShifts
<1> HIDE DEF bits
<1>3. ASSUME NEW j \in f.ones
      PROVE  j + d < Len(longer) /\ longer[(j + d) + 1] = l[j + 1] /\ l[j + 1] \in seen
  <2>1. j \in Nat /\ j < Len(l) /\ l[j + 1] \in seen
        BY DEF WrittenOver
  <2>2. j + 1 \in 1 .. Len(l) /\ (j + 1) + d = (j + d) + 1
        BY <1>1, <1>2, <2>1
  <2> QED  BY <1>1, <1>2, <2>1, <2>2
<1>4. ASSUME NEW i \in bits.ones
      PROVE  i - d \in f.ones /\ i = (i - d) + d /\ i < Len(longer) /\ longer[i + 1] = l[(i - d) + 1]
             /\ longer[i + 1] \in seen
  <2>1. i \in Nat /\ i - d \in f.ones
        BY <1>1, <1>2 DEF Bits
  <2>2. i = (i - d) + d
        BY <2>1, <1>1
  <2> QED  BY <1>3, <2>1, <2>2
<1>5. Marks(bits, longer) = {longer[i + 1] : i \in bits.ones}
      BY <1>4 DEF Marks
<1>6. {longer[i + 1] : i \in bits.ones} = {l[j + 1] : j \in f.ones}
  <2>1. ASSUME NEW i \in bits.ones PROVE \E j \in f.ones : longer[i + 1] = l[j + 1]
        BY <1>4
  <2>2. ASSUME NEW j \in f.ones PROVE \E i \in bits.ones : l[j + 1] = longer[i + 1]
        BY <1>2, <1>3
  <2> QED  BY <2>1, <2>2
<1> QED  BY <1>1, <1>4, <1>5, <1>6 DEF bits, Shows

\* A watched field loses no marks and makes none up (NewWatchedFieldFromWatched-
\* BitField and toWatchedBitField): over whatever list l a bit field is written
\* after videos of W have been set, with a list that has l in one stretch it
\* reads as what it showed and what W has of l.
THEOREM FieldKeepsMarks ==
    ASSUME NEW S, NEW l \in Seq(S), NEW longer \in Seq(S), IsInjective(longer), StretchOf(l, longer),
           IsInjective(l), NEW bf \in Bits, \A j \in bf.ones : j < Len(l), NEW W
    PROVE  Marks(FromField(ToField(SetVideos(bf, l, W), l), longer), longer)
             = Marks(bf, l) \cup (W \cap Range(l))
<1> DEFINE f == ToField(SetVideos(bf, l, W), l)
           seen == S \cup W
<1>1. Len(l) \in Nat /\ \A n \in 1 .. Len(l) : l[n] \in S
      BY LenProperties, ElementOfSeq
<1>2. \A j \in bf.ones : j < Len(l) /\ l[j + 1] \in seen
      BY <1>1 DEF Bits
<1>3. W \in SUBSET seen
      OBVIOUS
<1> HIDE DEF seen
<1>4. /\ f \in [anchor : S \cup {Undefined}, anchorLength : Nat, bytes : Nat, ones : SUBSET Nat]
      /\ WrittenOver(f, l, seen)
      BY <1>2, <1>3, WriteField
<1>5. Shows(f, l) = Shows(bf, l) \cup (W \cap Range(l))
      BY WriteExactly
<1> HIDE DEF f
<1>6. f.bytes \in Nat /\ f.ones \in SUBSET Nat
      BY <1>4
<1>7. Marks(FromField(f, longer), longer) = Shows(f, l)
      BY <1>4, <1>6, ReadField
<1>8. Marks(bf, l) = Shows(bf, l)
      BY DEF Marks, Shows
<1> QED  BY <1>5, <1>7, <1>8 DEF f

-----------------------------------------------------------------------------
(* Items of a library, read and written with any list of videos.           *)

\* Bits over the list l, which may have more of them set than l has videos
\* when the field was written over a longer one.
Fits(bf, l) ==
    /\ bf \in Bits
    /\ bf.length = Len(l) \/ \A j \in bf.ones : j < Len(l)
    /\ Len(l) = 0 => bf.ones = {}

LEMMA BitsFit ==
    ASSUME NEW x \in ItemState, NEW S, NEW l \in Seq(S), IsInjective(l)
    PROVE  Fits(BitsOf(x, l), l)
<1> DEFINE n == Len(l)
<1>1. n \in Nat
      BY LenProperties
<1>2. Fits(NewBitField8(n), l)
      BY <1>1, NewBitsType DEF Fits
<1>3. CASE x.field # NoField
  <2> DEFINE f == x.field
             at == Index(l, f.anchor)
             offset == f.anchorLength - at - 1
             bits == NewBitField8WithValues(f.bytes, f.ones, n)
             moved == {i \in 0 .. n - 1 : i + offset >= 0 /\ i + offset < bits.length /\ GetBit(bits, i + offset)}
  <2>1. f.bytes \in Nat /\ f.ones \in SUBSET Nat
    <3>1. f \in Field
          BY <1>3 DEF ItemState, Absent
    <3> QED  BY <3>1 DEF Field
  <2>2. at \in -1 .. n - 1
        BY <1>1, IndexOf
  <2>3. FromField(f, l) = IF at = -1 THEN NewBitField8(n) ELSE IF offset = 0 THEN bits
                          ELSE [NewBitField8(n) EXCEPT !.ones = moved]
        BY DEF FromField
  <2>4. bits \in Bits /\ (n # 0 => bits.length = n)
        BY <1>1, <2>1, NewBitsType DEF NewBitField8WithValues
  <2>5. n # 0 => Fits(bits, l)
        BY <2>4 DEF Fits
  <2>6. moved \in SUBSET Nat /\ (\A j \in moved : j < n) /\ (n = 0 => moved = {})
        BY <1>1
  <2> HIDE DEF bits, moved, at
  <2>7. Fits([NewBitField8(n) EXCEPT !.ones = moved], l)
        BY <1>1, <2>6, NewBitsType DEF Fits, Bits
  <2>8. at # -1 => n # 0
        BY <1>1, <2>2
  <2>9. Fits(FromField(f, l), l)
        BY <1>2, <2>3, <2>5, <2>7, <2>8
  <2> QED  BY <1>3, <2>9 DEF BitsOf
<1> QED  BY <1>2, <1>3 DEF BitsOf

LEMMA SetFits ==
    ASSUME NEW S, NEW l \in Seq(S), IsInjective(l), NEW bf, Fits(bf, l), NEW W
    PROVE  /\ Fits(SetVideos(bf, l, W), l)
           /\ Marks(SetVideos(bf, l, W), l) = Marks(bf, l) \cup (W \cap Range(l))
           /\ \A j \in SetVideos(bf, l, W).ones : j \in bf.ones \/ (j + 1 \in 1 .. Len(l) /\ l[j + 1] \in W)
<1> DEFINE new == {Index(l, v) : v \in {w \in W : Index(l, w) # -1}}
<1>1. Len(l) \in Nat /\ DOMAIN l = 1 .. Len(l) /\ bf \in Bits
      BY LenProperties DEF Fits
<1>2. SetVideos(bf, l, W) = [bf EXCEPT !.ones = bf.ones \cup new]
      BY <1>1 DEF SetVideos, Bits
<1>3. ASSUME NEW j \in new
      PROVE  j \in Nat /\ j < Len(l) /\ j + 1 \in 1 .. Len(l) /\ l[j + 1] \in W \cap Range(l)
  <2>1. PICK v \in W : j = Index(l, v) /\ j # -1
        OBVIOUS
  <2>2. j \in -1 .. Len(l) - 1 /\ l[j + 1] = v
        BY <2>1, IndexOf
  <2> QED  BY <1>1, <2>1, <2>2 DEF Range
<1>4. ASSUME NEW v \in W, v \in Range(l) PROVE \E j \in new : l[j + 1] = v
  <2>1. PICK n \in 1 .. Len(l) : l[n] = v
        BY <1>1, <1>4 DEF Range
  <2>2. Index(l, v) = n - 1
        BY <2>1, IndexOf
  <2>3. Index(l, v) # -1 /\ l[Index(l, v) + 1] = v
        BY <1>1, <2>1, <2>2
  <2>4. Index(l, v) \in new
        BY <2>3
  <2> QED  BY <2>3, <2>4
<1> HIDE DEF new
<1>5. SetVideos(bf, l, W) \in Bits /\ SetVideos(bf, l, W).ones = bf.ones \cup new
      /\ SetVideos(bf, l, W).length = bf.length
      BY <1>1, <1>2, <1>3 DEF Bits
<1>6. Len(l) = 0 => new = {}
      BY <1>1, <1>3
<1>7. Fits(SetVideos(bf, l, W), l)
      BY <1>3, <1>5, <1>6 DEF Fits
<1>8. Marks(SetVideos(bf, l, W), l) = Marks(bf, l) \cup (W \cap Range(l))
  <2>1. ASSUME NEW v \in Marks(SetVideos(bf, l, W), l) PROVE v \in Marks(bf, l) \cup (W \cap Range(l))
    <3>1. PICK j \in bf.ones \cup new : j < Len(l) /\ v = l[j + 1]
          BY <1>5 DEF Marks
    <3> QED  BY <1>3, <3>1 DEF Marks
  <2>2. Marks(bf, l) \subseteq Marks(SetVideos(bf, l, W), l)
        BY <1>5 DEF Marks
  <2>3. ASSUME NEW v \in W \cap Range(l) PROVE v \in Marks(SetVideos(bf, l, W), l)
    <3>1. PICK j \in new : l[j + 1] = v
          BY <1>4
    <3> QED  BY <1>3, <1>5, <3>1 DEF Marks
  <2> QED  BY <2>1, <2>2, <2>3
<1> QED  BY <1>3, <1>5, <1>7, <1>8

\* Written over a list, and read with it again.
LEMMA ReadBack ==
    ASSUME NEW S, NEW l \in Seq(S), IsInjective(l), NEW bf, Fits(bf, l)
    PROVE  LET f == ToField(bf, l)
           IN /\ f \in [anchor : S \cup {Undefined}, anchorLength : Nat, bytes : Nat, ones : SUBSET Nat]
              /\ f.ones = bf.ones
              /\ Len(l) # 0 => f.anchorLength \in 1 .. Len(l) /\ f.anchor = l[f.anchorLength]
              /\ Marks(FromField(f, l), l) = Marks(bf, l)
<1> DEFINE f == ToField(bf, l)
           last == Larger(LastIndexOf(bf), 0)
           n == Len(l)
<1>1. n \in Nat /\ bf \in Bits /\ \A k \in 1 .. n : l[k] \in S
      BY LenProperties, ElementOfSeq DEF Fits
<1>2. last \in Nat /\ (n # 0 => last + 1 \in 1 .. n)
  <2>1. LastIndexOf(bf) = -1 \/ (LastIndexOf(bf) \in bf.ones /\ LastIndexOf(bf) < bf.length)
        BY <1>1, LastIndexType
  <2>2. LastIndexOf(bf) = -1 \/ (LastIndexOf(bf) \in Nat /\ LastIndexOf(bf) < n)
        BY <1>1, <2>1 DEF Fits, Bits
  <2> QED  BY <1>1, <2>2 DEF Larger
<1>3. f = [anchor |-> IF last < n THEN l[last + 1] ELSE Undefined,
           anchorLength |-> last + 1, bytes |-> bf.bytes, ones |-> bf.ones]
      BY DEF ToField
<1> HIDE DEF last, f
<1>4. f \in [anchor : S \cup {Undefined}, anchorLength : Nat, bytes : Nat, ones : SUBSET Nat]
  <2>1. last < n => l[last + 1] \in S
        BY <1>1, <1>2
  <2> QED  BY <1>1, <1>2, <1>3, <2>1 DEF Bits
<1>5. n # 0 => f.anchorLength \in 1 .. n /\ f.anchor = l[f.anchorLength]
      BY <1>1, <1>2, <1>3
<1>6. CASE n = 0
  <2>1. \A b : Marks(b, l) = {} \/ \E j \in b.ones : j < 0
        BY <1>6 DEF Marks
  <2>2. Index(l, f.anchor) = -1
        BY <1>6 DEF Index
  <2>3. FromField(f, l) = NewBitField8(n)
        BY <2>2 DEF FromField
  <2>4. FromField(f, l).ones = {} /\ bf.ones = {}
        BY <1>1, <1>6, <2>3, NewBitsType DEF Fits
  <2>5. Marks(FromField(f, l), l) = Marks(bf, l)
        BY <2>4 DEF Marks
  <2> QED  BY <1>3, <1>4, <1>5, <2>5 DEF f
<1>7. CASE n # 0
  <2>1. Index(l, f.anchor) = f.anchorLength - 1
        BY <1>5, <1>7, IndexOf
  <2>2. f.anchorLength \in Nat /\ f.anchorLength >= 1
        BY <1>1, <1>5, <1>7
  <2>3. f.anchorLength - Index(l, f.anchor) - 1 = 0 /\ Index(l, f.anchor) # -1
        BY <2>1, <2>2
  <2>4. FromField(f, l) = NewBitField8WithValues(f.bytes, f.ones, n)
        BY <2>3 DEF FromField
  <2>5. FromField(f, l).ones = bf.ones
        BY <1>3, <2>4 DEF NewBitField8WithValues
  <2> QED  BY <1>3, <1>4, <1>5, <2>5 DEF f, Marks
<1> QED  BY <1>6, <1>7

LEMMA ListFacts ==
    ASSUME NEW i \in Item
    PROVE  /\ VideosOf(i) \subseteq Video /\ Len(Releases[i]) \in Nat \ {0}
           /\ DOMAIN Releases[i] = 1 .. Len(Releases[i])
           /\ \A k \in 1 .. Len(Releases[i]) :
                 /\ Releases[i][k] \in Seq(VideosOf(i)) /\ IsInjective(Releases[i][k])
                 /\ Range(Releases[i][k]) \subseteq VideosOf(i)
<1>1. Releases[i] \in Seq(Seq(VideosOf(i))) /\ Releases[i] # <<>>
      BY ReleasesAssumption
<1>2. Len(Releases[i]) \in Nat \ {0} /\ DOMAIN Releases[i] = 1 .. Len(Releases[i])
      /\ \A k \in 1 .. Len(Releases[i]) : Releases[i][k] \in Seq(VideosOf(i))
      BY <1>1, LenProperties, ElementOfSeq, EmptySeq
<1>3. \A k \in 1 .. Len(Releases[i]) : IsInjective(Releases[i][k])
      BY ReleasesAssumption DEF ListsOf
<1>4. ASSUME NEW k \in 1 .. Len(Releases[i]) PROVE Range(Releases[i][k]) \subseteq VideosOf(i)
  <2>1. Releases[i][k] \in Seq(VideosOf(i))
        BY <1>2
  <2>2. DOMAIN Releases[i][k] = 1 .. Len(Releases[i][k])
        BY <2>1, LenProperties
  <2>3. \A m \in 1 .. Len(Releases[i][k]) : Releases[i][k][m] \in VideosOf(i)
        BY <2>1, ElementOfSeq
  <2> QED  BY <2>2, <2>3 DEF Range
<1> QED  BY <1>2, <1>3, <1>4 DEF Video

\* What a list is that is in use.
IsList(l, i) == l \in Seq(VideosOf(i)) /\ IsInjective(l) /\ Range(l) \subseteq VideosOf(i)

\* An item shows videos of the list only.
LEMMA ReadingListed ==
    ASSUME NEW i \in Item, NEW x \in ItemState, NEW l, IsList(l, i)
    PROVE  Reading(x, l) \subseteq Range(l)
<1>1. Len(l) \in Nat /\ DOMAIN l = 1 .. Len(l)
      BY LenProperties DEF IsList
<1>2. BitsOf(x, l) \in Bits
      BY BitsFit DEF IsList, Fits
<1>3. \A j \in BitsOf(x, l).ones : j < Len(l) => j + 1 \in 1 .. Len(l)
      BY <1>1, <1>2 DEF Bits
<1> QED  BY <1>1, <1>3 DEF Reading, Marks, Range

\* An item without a field shows nothing.
LEMMA BlankShows ==
    ASSUME NEW x, x.field = NoField, NEW S, NEW l \in Seq(S) PROVE Reading(x, l) = {}
<1>1. NewBitField8(Len(l)).ones = {}
      BY LenProperties, NewBitsType
<1> QED  BY <1>1 DEF Reading, BitsOf, Marks

\* An item that is written anew shows, by the same list, what it showed and what
\* is added of the list.
LEMMA MergedShows ==
    ASSUME NEW i \in Item, NEW x \in ItemState, NEW l, IsList(l, i), NEW W,
           NEW state \in {"listed", "removed"}
    PROVE  /\ Merged(x, l, W, state) \in ItemState
           /\ Merged(x, l, W, state).field # NoField
           /\ Reading(Merged(x, l, W, state), l) = Reading(x, l) \cup (W \cap Range(l))
<1> DEFINE bf == SetVideos(BitsOf(x, l), l, W)
           f == ToField(bf, l)
<1>1. l \in Seq(VideosOf(i)) /\ IsInjective(l)
      BY DEF IsList
<1>2. Fits(BitsOf(x, l), l)
      BY <1>1, BitsFit
<1>3. Fits(bf, l) /\ Marks(bf, l) = Marks(BitsOf(x, l), l) \cup (W \cap Range(l))
      BY <1>1, <1>2, SetFits
<1> HIDE DEF bf
<1>4. /\ f \in [anchor : VideosOf(i) \cup {Undefined}, anchorLength : Nat, bytes : Nat, ones : SUBSET Nat]
      /\ Marks(FromField(f, l), l) = Marks(bf, l)
      BY <1>1, <1>3, ReadBack
<1>5. f \in Field
      BY <1>4, ListFacts DEF Field
<1>6. Merged(x, l, W, state) = [state |-> state, field |-> f]
      BY DEF Merged, bf
<1> HIDE DEF f
<1>7. f # NoField
      BY <1>5, NoFieldAssumption
<1>8. Merged(x, l, W, state) \in ItemState
      BY <1>5, <1>6 DEF ItemState
<1>9. Reading(Merged(x, l, W, state), l) = Marks(FromField(f, l), l)
      BY <1>6, <1>7 DEF Reading, BitsOf
<1> QED  BY <1>3, <1>4, <1>6, <1>7, <1>8, <1>9 DEF Reading

-----------------------------------------------------------------------------
(* Types.                                                                  *)

Pushings == [src : Account, dst : Account, kind : Kind]
Stagings == [to : {"trakt", "stremio"}, kind : Kind]

LEMMA SeqFacts == Pushes \in Seq(Pushings) /\ Stages \in Seq(Stagings)
<1> USE DEF Pushings, Stagings
<1>1. Kinds \in Seq(Kind)
  <2>1. <<"movie">> \in Seq(Kind) /\ <<"series">> \in Seq(Kind) /\ <<>> \in Seq(Kind)
        BY DEF Kind
  <2> QED  BY <2>1, ConcatProperties DEF Kinds
<1>2. Len(Kinds) \in Nat /\ \A n \in 1 .. Len(Kinds) : Kinds[n] \in Kind
      BY <1>1, LenProperties, ElementOfSeq
<1>3. ASSUME NEW src \in Account, NEW dst \in Account
      PROVE  [n \in 1 .. Len(Kinds) |-> [src |-> src, dst |-> dst, kind |-> Kinds[n]]] \in Seq(Pushings)
      BY <1>2
<1>4. ASSUME NEW to \in {"trakt", "stremio"}
      PROVE  [n \in 1 .. Len(Kinds) |-> [to |-> to, kind |-> Kinds[n]]] \in Seq(Stagings)
      BY <1>2
<1>5. ASSUME NEW S, NEW q \in Seq(S), NEW r \in Seq(S)
      PROVE  (IF AToB THEN q ELSE <<>>) \o (IF BToA THEN r ELSE <<>>) \in Seq(S)
             /\ (IF ToTrakt THEN q ELSE <<>>) \o (IF ToStremio THEN r ELSE <<>>) \in Seq(S)
  <2>1. <<>> \in Seq(S)
        BY EmptySeq
  <2> QED  BY <1>5, <2>1, ConcatProperties
<1>6. A \in Account /\ B \in Account
      BY DEF Account
<1>7. Pushes \in Seq(Pushings)
  <2> DEFINE both(src, dst) == [n \in 1 .. Len(Kinds) |-> [src |-> src, dst |-> dst, kind |-> Kinds[n]]]
  <2>1. both(A, B) \in Seq(Pushings) /\ both(B, A) \in Seq(Pushings)
        BY <1>3, <1>6
  <2>2. Pushes = (IF AToB THEN both(A, B) ELSE <<>>) \o (IF BToA THEN both(B, A) ELSE <<>>)
        BY DEF Pushes
  <2> HIDE DEF both
  <2> QED  BY <1>5, <2>1, <2>2
<1>8. Stages \in Seq(Stagings)
  <2> DEFINE both(to) == [n \in 1 .. Len(Kinds) |-> [to |-> to, kind |-> Kinds[n]]]
  <2>1. both("trakt") \in Seq(Stagings) /\ both("stremio") \in Seq(Stagings)
        BY <1>4
  <2>2. Stages = (IF ToTrakt THEN both("trakt") ELSE <<>>) \o (IF ToStremio THEN both("stremio") ELSE <<>>)
        BY DEF Stages
  <2> HIDE DEF both
  <2> QED  BY <1>5, <2>1, <2>2
<1> QED  BY <1>7, <1>8

\* The head of what is left to do.
LEMMA HeadFacts ==
    ASSUME TypeOK
    PROVE  /\ ssTodo # <<>> => Head(ssTodo).src \in Account /\ Head(ssTodo).dst \in Account
              /\ Head(ssTodo).kind \in Kind /\ Tail(ssTodo) \in Seq(Pushings)
           /\ stTodo # <<>> => Head(stTodo).kind \in Kind /\ Tail(stTodo) \in Seq(Stagings)
<1> USE DEF Pushings, Stagings
<1>1. ssTodo # <<>> => Head(ssTodo) \in Pushings /\ Tail(ssTodo) \in Seq(Pushings)
      BY HeadTailProperties DEF TypeOK
<1>2. stTodo # <<>> => Head(stTodo) \in Stagings /\ Tail(stTodo) \in Seq(Stagings)
      BY HeadTailProperties DEF TypeOK
<1> QED  BY <1>1, <1>2

LEMMA OfKind == \A kind \in Kind : Of(kind) \subseteq Item
<1> QED  BY DEF Of, Item, Kind

\* The lists that are read, and the newest one.
LEMMA ListsFacts ==
    ASSUME TypeOK, NEW i \in Item
    PROVE  /\ IsList(Listing(i), i) /\ Listing(i) \in Lists(i)
           /\ \A l \in Lists(i) : IsList(l, i) /\ \E n \in 1 .. release[i] : l = Releases[i][n]
           /\ \A l \in Listings : l[i] \in Lists(i)
<1>1. release[i] \in 1 .. Len(Releases[i]) /\ cached[i] \in 1 .. release[i] /\ Len(Releases[i]) \in Nat
      BY ListFacts DEF TypeOK
<1>2. \A n \in cached[i] .. release[i] : n \in 1 .. Len(Releases[i]) /\ n \in 1 .. release[i]
      BY <1>1
<1>3. release[i] \in cached[i] .. release[i]
      BY <1>1
<1> QED  BY <1>1, <1>2, <1>3, ListFacts DEF Listing, Lists, Listings, IsList

LEMMA PutType ==
    ASSUME TypeOK, NEW a \in Account, NEW items, NEW new, Put(a, items, new),
           \A i \in items \cap Item : new[i] \in ItemState
    PROVE  DOMAIN lib' = Account /\ \A b \in Account : lib'[b] \in Library
<1>1. DOMAIN lib = Account /\ \A b \in Account : lib[b] \in Library
      BY DEF TypeOK
<1>2. lib' = [lib EXCEPT ![a] = [i \in Item |-> IF i \in items THEN new[i] ELSE lib[a][i]]]
      BY DEF Put
<1>3. [i \in Item |-> IF i \in items THEN new[i] ELSE lib[a][i]] \in Library
      BY <1>1 DEF Library
<1> QED  BY <1>1, <1>2, <1>3

LEMMA EraFacts ==
    /\ Newest \in {1, 2} /\ (stPc # "idle" => Newest = 2) /\ (stPc = "idle" => Newest = 1)
    /\ 0 \in Era /\ 1 \in Era /\ 2 \in Era /\ NotPlayed \notin Era
    /\ \A e \in Era, commit \in BOOLEAN : Later(e, commit) \in Era
<1> QED  BY DEF Newest, Era, Later, NotPlayed

LEMMA TouchType ==
    ASSUME TypeOK, NEW items, NEW e \in Era, Touch(items, e) PROVE age' \in [Item -> Era]
<1> QED  BY DEF Touch, TypeOK

\* What an update of the Stremio worker writes.
LEMMA SsUpdateType ==
    ASSUME TypeOK, NEW p, p.dst \in Account, p.kind \in Kind, NEW l \in Listings, SsUpdate(p, l)
    PROVE  /\ DOMAIN lib' = Account /\ \A a \in Account : lib'[a] \in Library
           /\ age' \in [Item -> Era] /\ exposed' \subseteq Item
           /\ SsItems(p, l) \subseteq Item
<1>1. SsItems(p, l) \subseteq Item
      BY OfKind DEF SsItems
<1>2. ASSUME NEW i \in SsItems(p, l) PROVE SsNew(p, l)[i] \in ItemState
  <2>1. i \in Item /\ ssLib[p.dst][i] \in ItemState /\ IsList(l[i], i)
        BY <1>1, ListsFacts DEF TypeOK, Library
  <2>2. SsNew(p, l)[i] = Merged(ssLib[p.dst][i], l[i], Missing(p, i, l), "listed")
        BY DEF SsNew
  <2> QED  BY <2>1, <2>2, MergedShows
<1>3. DOMAIN lib' = Account /\ \A a \in Account : lib'[a] \in Library
      BY <1>2, PutType DEF SsUpdate
<1>4. age' \in [Item -> Era]
      BY TouchType DEF SsUpdate, TypeOK
<1>5. exposed' \subseteq Item
      BY <1>1 DEF SsUpdate, Erased, TypeOK
<1> QED  BY <1>1, <1>3, <1>4, <1>5

\* What one of the Trakt worker writes, by the lists of l.
StUpdateBy(kind, l) ==
    /\ Put(A, StItems(kind, l), StNew(kind, l))
    /\ Touch(StItems(kind, l), 1)
    /\ exposed' = exposed \cup Erased(A, StItems(kind, l), StNew(kind, l))
                          \cup Mistaken(kind, l)
                          \cup {i \in StItems(kind, l) : age[i] = 2}

LEMMA StUpdatePick == ASSUME NEW kind, StUpdate(kind) PROVE \E l \in Listings : StUpdateBy(kind, l)
<1> QED  BY DEF StUpdate, StUpdateBy

LEMMA StNewFacts ==
    ASSUME TypeOK, NEW kind \in Kind, NEW l \in Listings, NEW i \in StItems(kind, l)
    PROVE  /\ i \in Item /\ stLib[i] \in ItemState /\ IsList(l[i], i)
           /\ \E state \in {"listed", "removed"} :
                 StNew(kind, l)[i] = Merged(stLib[i], l[i], PlaysOf(i), state)
<1>1. i \in Item /\ stLib[i] \in ItemState /\ IsList(l[i], i)
      BY OfKind, ListsFacts DEF StItems, TypeOK, Library
<1>2. stLib[i].state \in {"absent", "listed", "removed"}
      BY <1>1 DEF ItemState, Absent
<1> QED  BY <1>1, <1>2 DEF StNew

LEMMA StUpdateType ==
    ASSUME TypeOK, NEW kind \in Kind, NEW l \in Listings, StUpdateBy(kind, l)
    PROVE  /\ DOMAIN lib' = Account /\ \A a \in Account : lib'[a] \in Library
           /\ age' \in [Item -> Era] /\ exposed' \subseteq Item
           /\ StItems(kind, l) \subseteq Item
<1>1. StItems(kind, l) \subseteq Item /\ Mistaken(kind, l) \subseteq Item /\ A \in Account
      BY OfKind DEF StItems, Mistaken, Account
<1>2. ASSUME NEW i \in StItems(kind, l) PROVE StNew(kind, l)[i] \in ItemState
      BY StNewFacts, MergedShows
<1>3. DOMAIN lib' = Account /\ \A a \in Account : lib'[a] \in Library
      BY <1>1, <1>2, PutType DEF StUpdateBy
<1>4. age' \in [Item -> Era]
      BY TouchType, EraFacts DEF StUpdateBy
<1>5. exposed' \subseteq Item
      BY <1>1 DEF StUpdateBy, Erased, TypeOK
<1> QED  BY <1>1, <1>3, <1>4, <1>5

LEMMA AddType ==
    ASSUME TypeOK, NEW kind, NEW new, AddToHistory(kind, new)
    PROVE  plays' \in [Video -> Era \cup {NotPlayed}]
           /\ \E at \in [new -> Era] : plays' = [v \in Video |-> IF v \in new THEN at[v] ELSE plays[v]]
<1>1. PICK at \in [new -> Era] : plays' = [v \in Video |-> IF v \in new THEN at[v] ELSE plays[v]]
      BY DEF AddToHistory, Newest, Era
<1> QED  BY <1>1 DEF TypeOK


TypeLists ==
    /\ DOMAIN release = Item /\ \A i \in Item : release[i] \in 1 .. Len(Releases[i])
    /\ DOMAIN cached = Item /\ \A i \in Item : cached[i] \in 1 .. release[i]

TypeItems ==
    /\ DOMAIN lib = Account /\ \A a \in Account : lib[a] \in Library
    /\ DOMAIN ssLib = Account /\ \A a \in Account : ssLib[a] \in Library
    /\ stLib \in Library

TypeTimes ==
    /\ age \in [Item -> Era] /\ plays \in [Video -> Era \cup {NotPlayed}] /\ ssEra \in Era
    /\ made \subseteq Video /\ exposed \subseteq Item /\ events \in Nat /\ faults \in Nat

TypeSteps ==
    /\ synced \in BOOLEAN
    /\ ssTodo \in Seq(Pushings)
    /\ stPc \in {"idle", "ids", "items", "push", "update", "failed"} /\ stFull \in BOOLEAN
    /\ stIds \subseteq Item /\ stPlays \subseteq Video
    /\ stTodo \in Seq(Stagings)
    /\ stPc = "update" => stTodo # <<>>

LEMMA TypeParts == TypeOK <=> TypeLists /\ TypeItems /\ TypeTimes /\ TypeSteps
<1> QED  BY DEF TypeOK, TypeLists, TypeItems, TypeTimes, TypeSteps, Pushings, Stagings

\* The same of the next state.
LEMMA TypePartsNext == (TypeLists /\ TypeItems /\ TypeTimes /\ TypeSteps)' => TypeOK'
<1> QED  BY DEF TypeOK, TypeLists, TypeItems, TypeTimes, TypeSteps, Pushings, Stagings

\* The steps of each variable's kind.
LEMMA ListsNext == ASSUME TypeLists, [Next]_vars PROVE TypeLists'
<1>1. ASSUME NEW i \in Item, Release(i) PROVE TypeLists'
  <2>1. release[i] \in 1 .. Len(Releases[i]) /\ release[i] < Len(Releases[i]) /\ Len(Releases[i]) \in Nat
        BY <1>1, ListFacts DEF Release, TypeLists
  <2>2. release' = [release EXCEPT ![i] = @ + 1] /\ cached' = cached
        BY <1>1 DEF Release
  <2>3. \A j \in Item : release'[j] \in 1 .. Len(Releases[j]) /\ cached'[j] \in 1 .. release'[j]
        BY <2>1, <2>2, ListFacts DEF TypeLists
  <2> QED  BY <2>2, <2>3 DEF TypeLists
<1>2. ASSUME NEW i \in Item, CacheExpires(i) PROVE TypeLists'
  <2>1. PICK n \in cached[i] + 1 .. release[i] : cached' = [cached EXCEPT ![i] = n]
        BY <1>2 DEF CacheExpires
  <2>2. cached[i] \in 1 .. release[i] /\ release[i] \in Nat /\ release' = release
        BY <1>2, ListFacts DEF CacheExpires, TypeLists
  <2>3. n \in 1 .. release[i]
        BY <2>1, <2>2
  <2>4. \A j \in Item : cached'[j] \in 1 .. release'[j]
        BY <2>1, <2>2, <2>3 DEF TypeLists
  <2> QED  BY <2>1, <2>2, <2>4 DEF TypeLists
<1>3. CASE UNCHANGED lists
      BY <1>3 DEF TypeLists, lists
<1>4. (\A i \in Item : ~Release(i) /\ ~CacheExpires(i)) => UNCHANGED lists
  <2>1. User \/ (\E kind \in Kind : LookupFails(kind)) \/ SsFails \/ StFails \/ UNCHANGED vars => UNCHANGED lists
        BY DEF User, Watch, Toggle, Play, PlayBackdated, Reset, LookupFails, SsFails, StFails, vars
  <2>2. SyncStremioStremio \/ SyncStremioTrakt => UNCHANGED lists
        BY DEF SyncStremioStremio, SsFetch, SsPush, SyncStremioTrakt, StStart, StFetchIds, StFetch, ToTraktPush,
               FetchMissing, ToStremioPush, StDone, StAbort
  <2> QED  BY <2>1, <2>2 DEF Next
<1> QED  BY <1>1, <1>2, <1>3, <1>4

\* A user's step writes one item.
LEMMA UserType ==
    ASSUME TypeOK, NEW a \in Account, NEW i \in Item,
           (\E v \in Video : Watch(a, i, v)) \/ Toggle(a, i)
    PROVE  (DOMAIN lib = Account /\ \A b \in Account : lib[b] \in Library)' /\ age' \in [Item -> Era]
<1>1. lib[a][i] \in ItemState /\ IsList(Listing(i), i)
      BY ListsFacts DEF TypeOK, Library
<1>2. ASSUME NEW v \in Video, Watch(a, i, v)
      PROVE DOMAIN lib' = Account /\ \A b \in Account : lib'[b] \in Library
  <2>1. PICK s \in {"listed", "removed"} :
              Put(a, {i}, [j \in {i} |-> Merged(lib[a][i], Listing(i), {v}, s)])
        BY <1>2 DEF Watch
  <2> DEFINE new == [j \in {i} |-> Merged(lib[a][i], Listing(i), {v}, s)]
  <2>2. \A j \in {i} \cap Item : new[j] \in ItemState
        BY <1>1, MergedShows
  <2> HIDE DEF new
  <2>3. Put(a, {i}, new)
        BY <2>1 DEF new
  <2> QED  BY <2>2, <2>3, PutType
<1>3. ASSUME Toggle(a, i) PROVE DOMAIN lib' = Account /\ \A b \in Account : lib'[b] \in Library
  <2> DEFINE x == [lib[a][i] EXCEPT !.state = IF @ = "listed" THEN "removed" ELSE "listed"]
             new == [j \in {i} |-> x]
  <2>1. lib[a][i] \in [state : {"listed", "removed"}, field : Field]
        BY <1>1, <1>3 DEF Toggle, ItemState, Absent
  <2>2. x \in ItemState
        BY <2>1 DEF ItemState
  <2>3. Put(a, {i}, new)
        BY <1>3 DEF Toggle
  <2> HIDE DEF x
  <2>4. \A j \in {i} \cap Item : new[j] \in ItemState
        BY <2>2
  <2> HIDE DEF new
  <2> QED  BY <2>3, <2>4, PutType
<1>4. age' \in [Item -> Era]
  <2>1. \E items : Touch(items, Newest)
        BY DEF Watch, Toggle
  <2> QED  BY <2>1, EraFacts, TouchType
<1> QED  BY <1>2, <1>3, <1>4

LEMMA NoItemsType == NoItems \in Library /\ Absent \in ItemState /\ Absent.field = NoField
<1> QED  BY DEF NoItems, Library, ItemState, Absent

LEMMA ItemsNext == ASSUME TypeOK, [Next]_vars PROVE TypeItems'
<1> USE DEF TypeItems
<1>1. TypeItems
      BY TypeParts
<1>2. ASSUME NEW a \in Account, NEW i \in Item,
             (\E v \in Video : Watch(a, i, v)) \/ Toggle(a, i)
      PROVE  TypeItems'
  <2>1. UNCHANGED <<ssLib, stLib>>
        BY <1>2 DEF Watch, Toggle, ss, st
  <2> QED  BY <1>1, <1>2, <2>1, UserType
<1>3. CASE SsFetch
  <2>1. \A a \in Account : Fetched(a) \in Library
        BY <1>1, NoItemsType DEF Fetched, Library
  <2> QED  BY <1>1, <1>3, <2>1 DEF SsFetch, st
<1>4. CASE SsPush \/ SsFails
  <2>1. ssTodo # <<>> /\ stLib' = stLib /\ (ssLib' = ssLib \/ ssLib' = [a \in Account |-> NoItems])
        BY <1>4 DEF SsPush, SsFails, SsGoOn, st
  <2>2. UNCHANGED lib \/ \E l \in Listings : SsUpdate(Head(ssTodo), l)
        BY <1>4 DEF SsPush, SsFails
  <2>3. (DOMAIN lib = Account /\ \A a \in Account : lib[a] \in Library)'
        BY <1>1, <2>1, <2>2, HeadFacts, SsUpdateType
  <2> QED  BY <1>1, <2>1, <2>3, NoItemsType
<1>5. CASE StFetch
  <2>1. [i \in Item |-> IF i \in stIds THEN lib[A][i] ELSE Absent] \in Library
        BY <1>1, NoItemsType DEF Library, Account
  <2> QED  BY <1>1, <1>5, <2>1 DEF StFetch, ss
<1>6. ASSUME NEW kind \in Kind, FetchMissing(kind) PROVE TypeItems'
  <2>1. PICK new : stLib' = [i \in Item |-> IF i \in new THEN lib[A][i] ELSE stLib[i]]
        BY <1>6 DEF FetchMissing
  <2>2. stLib' \in Library
        BY <1>1, <2>1 DEF Library, Account
  <2> QED  BY <1>1, <1>6, <2>2 DEF FetchMissing, ss
<1>7. CASE ToStremioPush
  <2>1. stTodo # <<>> /\ StUpdate(Head(stTodo).kind) /\ UNCHANGED <<ssLib, stLib>>
        BY <1>7 DEF ToStremioPush, ss, TypeOK
  <2> QED  BY <1>1, <2>1, HeadFacts, StUpdatePick, StUpdateType
<1>8. CASE StDone \/ StAbort
      BY <1>1, <1>8, NoItemsType DEF StDone, StAbort, StIdle
<1>9. CASE StFails
  <2>1. UNCHANGED <<ssLib, stLib>>
        BY <1>9 DEF StFails, ss
  <2>2. UNCHANGED lib \/ (stPc = "update" /\ StUpdate(Head(stTodo).kind))
        BY <1>9 DEF StFails
  <2>3. stPc = "update" => stTodo # <<>>
        BY DEF TypeOK
  <2>4. (DOMAIN lib = Account /\ \A a \in Account : lib[a] \in Library)'
        BY <1>1, <2>2, <2>3, HeadFacts, StUpdatePick, StUpdateType
  <2> QED  BY <1>1, <2>1, <2>4
<1>10. CASE UNCHANGED <<lib, ssLib, stLib>>
      BY <1>1, <1>10
<1>11. CASE Reset \/ StStart \/ StFetchIds \/ UNCHANGED vars
      BY <1>10, <1>11 DEF Reset, StStart, StFetchIds, ss, st, vars
<1>12. ASSUME NEW i, NEW v, Play(i, v) \/ PlayBackdated(i, v) \/ Release(i) \/ CacheExpires(i) PROVE TypeItems'
      BY <1>10, <1>12 DEF Play, PlayBackdated, Release, CacheExpires, ss, st
<1>13. ASSUME NEW kind, ToTraktPush(kind) \/ LookupFails(kind) PROVE TypeItems'
      BY <1>10, <1>13 DEF ToTraktPush, LookupFails, ss
<1> QED
    BY <1>2, <1>3, <1>4, <1>5, <1>6, <1>7, <1>8, <1>9, <1>11, <1>12, <1>13
    DEF Next, User, SyncStremioStremio, SyncStremioTrakt

LEMMA BudgetNext == ASSUME TypeOK, Event \/ Fault \/ UNCHANGED budget PROVE events' \in Nat /\ faults' \in Nat
<1> QED  BY DEF TypeOK, Event, Fault, budget

LEMMA TimesNext == ASSUME TypeOK, [Next]_vars PROVE TypeTimes'
<1> USE DEF TypeTimes
<1>1. TypeTimes
      BY TypeParts
<1>2. Event \/ Fault \/ UNCHANGED budget => events' \in Nat /\ faults' \in Nat
      BY BudgetNext
<1>3. ASSUME NEW a \in Account, NEW i \in Item,
             (\E v \in Video : Watch(a, i, v)) \/ Toggle(a, i)
      PROVE  TypeTimes'
  <2>1. age' \in [Item -> Era]
        BY <1>3, UserType
  <2> QED  BY <1>1, <1>2, <1>3, <2>1 DEF Watch, Toggle, ss
<1>4. ASSUME NEW i \in Item, NEW v \in Video, Play(i, v) \/ PlayBackdated(i, v) PROVE TypeTimes'
  <2>1. plays' \in [Video -> Era \cup {NotPlayed}]
        BY <1>1, <1>4, EraFacts DEF Play, PlayBackdated
  <2> QED  BY <1>1, <1>2, <1>4, <2>1 DEF Play, PlayBackdated, ss
<1>5. ASSUME NEW i \in Item, Release(i) \/ CacheExpires(i) PROVE TypeTimes'
  <2>1. exposed' \subseteq Item /\ UNCHANGED <<age, plays, ss, made, budget>>
        BY <1>1, <1>5 DEF Release, CacheExpires
  <2> QED  BY <1>1, <1>2, <2>1 DEF ss
<1>6. CASE SsFetch
  <2>1. ssEra' \in Era
        BY <1>6, EraFacts DEF SsFetch
  <2> QED  BY <1>1, <1>2, <1>6, <2>1 DEF SsFetch
<1>7. CASE SsPush \/ SsFails
  <2>1. /\ ssTodo # <<>> /\ UNCHANGED <<plays, made>> /\ ssEra' \in Era
        BY <1>1, <1>7, EraFacts DEF SsPush, SsFails, SsGoOn
  <2>2. UNCHANGED <<age, exposed>> \/ \E l \in Listings : SsUpdate(Head(ssTodo), l)
        BY <1>7 DEF SsPush, SsFails
  <2>3. age' \in [Item -> Era] /\ exposed' \subseteq Item
        BY <1>1, <2>1, <2>2, HeadFacts, SsUpdateType
  <2> QED  BY <1>1, <1>2, <1>7, <2>1, <2>3 DEF SsPush, SsFails
<1>8. ASSUME NEW kind \in Kind, ToTraktPush(kind) \/ LookupFails(kind) PROVE TypeTimes'
  <2>1. PICK new : AddToHistory(kind, new)
        BY <1>8 DEF ToTraktPush, LookupFails
  <2>2. plays' \in [Video -> Era \cup {NotPlayed}]
        BY <2>1, AddType
  <2>3. exposed' \subseteq Item
        BY <1>1, <1>8, OfKind DEF ToTraktPush, LookupFails, Misread
  <2> QED  BY <1>1, <1>2, <1>8, <2>2, <2>3 DEF ToTraktPush, LookupFails, ss
<1>9. CASE ToStremioPush
  <2>1. stTodo # <<>> /\ StUpdate(Head(stTodo).kind) /\ UNCHANGED <<plays, made, ss, budget>>
        BY <1>9 DEF ToStremioPush, TypeOK
  <2>2. age' \in [Item -> Era] /\ exposed' \subseteq Item
        BY <2>1, HeadFacts, StUpdatePick, StUpdateType
  <2> QED  BY <1>1, <1>2, <2>1, <2>2 DEF ss
<1>10. CASE StDone \/ StAbort
  <2>1. PICK commit \in BOOLEAN : StIdle(commit)
        BY <1>10 DEF StDone, StAbort
  <2>2. age' \in [Item -> Era] /\ ssEra' \in Era
        BY <1>1, <2>1, EraFacts DEF StIdle
  <2>3. plays' \in [Video -> Era \cup {NotPlayed}]
    <3>1. \A v \in Video : plays[v] # NotPlayed => Later(plays[v], commit) \in Era
          BY <1>1, EraFacts
    <3> QED  BY <2>1, <3>1 DEF StIdle
  <2> QED  BY <1>1, <1>2, <1>10, <2>2, <2>3 DEF StDone, StAbort
<1>11. CASE StFails
  <2>1. UNCHANGED <<made, ss>> /\ Fault
        BY <1>11 DEF StFails
  <2>2. CASE UNCHANGED <<lib, age, plays, exposed>>
        BY <1>1, <1>2, <2>1, <2>2 DEF ss
  <2>3. CASE stPc = "update" /\ StUpdate(Head(stTodo).kind) /\ UNCHANGED plays
    <3>1. age' \in [Item -> Era] /\ exposed' \subseteq Item
          BY <2>3, HeadFacts, StUpdatePick, StUpdateType DEF TypeOK
    <3> QED  BY <1>1, <1>2, <2>1, <2>3, <3>1 DEF ss
  <2>4. ASSUME NEW kind \in Kind, NEW l \in Listings, AddToHistory(kind, Unplayed(kind, {}, l)),
               exposed' = exposed \cup Misread(kind, l), UNCHANGED <<lib, age>>
        PROVE  TypeTimes'
    <3>1. plays' \in [Video -> Era \cup {NotPlayed}]
          BY <2>4, AddType
    <3>2. exposed' \subseteq Item
          BY <1>1, <2>4, OfKind DEF Misread
    <3> QED  BY <1>1, <1>2, <2>1, <2>4, <3>1, <3>2 DEF ss
  <2> QED  BY <1>11, <2>2, <2>3, <2>4 DEF StFails
<1>12. CASE Reset
      BY <1>1, <1>2, <1>12 DEF Reset, ss
<1>13. CASE StStart \/ StFetchIds \/ StFetch
      BY <1>1, <1>2, <1>13 DEF StStart, StFetchIds, StFetch, ss
<1>14. ASSUME NEW kind, FetchMissing(kind) PROVE TypeTimes'
      BY <1>1, <1>2, <1>14 DEF FetchMissing, ss
<1>15. CASE UNCHANGED vars
      BY <1>1, <1>15 DEF vars, ss
<1> QED
    BY <1>3, <1>4, <1>5, <1>6, <1>7, <1>8, <1>9, <1>10, <1>11, <1>12, <1>13, <1>14, <1>15
    DEF Next, User, SyncStremioStremio, SyncStremioTrakt

LEMMA StepsNext == ASSUME TypeOK, [Next]_vars PROVE TypeSteps'
<1> USE DEF TypeSteps
<1>1. TypeSteps
      BY TypeParts
<1>2. <<>> \in Seq(Pushings) /\ <<>> \in Seq(Stagings)
      BY EmptySeq
<1>3. CASE UNCHANGED <<synced, ss, st>>
      BY <1>1, <1>3 DEF ss, st
<1>4. ASSUME NEW i, NEW v, Play(i, v) \/ PlayBackdated(i, v) \/ Release(i) \/ CacheExpires(i) PROVE TypeSteps'
      BY <1>3, <1>4 DEF Play, PlayBackdated, Release, CacheExpires
<1>5. ASSUME NEW a, NEW i, (\E v \in Video : Watch(a, i, v)) \/ Toggle(a, i) PROVE TypeSteps'
      BY <1>3, <1>5 DEF Watch, Toggle
<1>6. CASE Reset
      BY <1>1, <1>6 DEF Reset, ss, st
<1>7. CASE SsFetch
      BY <1>1, <1>7, SeqFacts DEF SsFetch, st
<1>8. CASE SsPush \/ SsFails
  <2>1. ssTodo # <<>> /\ UNCHANGED <<synced, st>> /\ (SsGoOn(<<>>) \/ SsGoOn(Tail(ssTodo)))
        BY <1>8 DEF SsPush, SsFails
  <2>2. ssTodo' \in Seq(Pushings)
        BY <1>2, <2>1, HeadFacts DEF SsGoOn
  <2> QED  BY <1>1, <2>1, <2>2 DEF st
<1>9. CASE StStart \/ StFetchIds
      BY <1>1, <1>9 DEF StStart, StFetchIds, ss
<1>10. CASE StFetch
  <2>1. stPlays' \subseteq Video /\ stTodo' \in Seq(Stagings)
        BY <1>10, SeqFacts DEF StFetch, Played
  <2> QED  BY <1>1, <1>10, <2>1 DEF StFetch, ss
<1>11. ASSUME NEW kind \in Kind, ToTraktPush(kind) \/ LookupFails(kind) PROVE TypeSteps'
  <2>1. stPc = "push" /\ stTodo # <<>> /\ stTodo' = Tail(stTodo)
        BY <1>11 DEF ToTraktPush, LookupFails, Stage
  <2> QED  BY <1>1, <1>11, <2>1, HeadFacts DEF ToTraktPush, LookupFails, ss
<1>12. ASSUME NEW kind \in Kind, FetchMissing(kind) PROVE TypeSteps'
  <2>1. stTodo # <<>> /\ stIds' \subseteq Item
        BY <1>1, <1>12, OfKind DEF FetchMissing, Stage
  <2> QED  BY <1>1, <1>12, <2>1 DEF FetchMissing, ss
<1>13. CASE ToStremioPush
  <2>1. stTodo # <<>> /\ stTodo' = Tail(stTodo) /\ stPc' = "push"
        /\ UNCHANGED <<synced, ss, stFull, stIds, stPlays>>
        BY <1>1, <1>13 DEF ToStremioPush
  <2> QED  BY <1>1, <2>1, HeadFacts DEF ss
<1>14. CASE StDone \/ StAbort
  <2>1. /\ stPc' = "idle" /\ stFull' = FALSE /\ stIds' = {} /\ stPlays' = {} /\ stTodo' = <<>>
        /\ ssTodo' = ssTodo /\ synced' \in {synced, TRUE}
        BY <1>14 DEF StDone, StAbort, StIdle
  <2> QED  BY <1>1, <1>2, <2>1
<1>15. CASE StFails
  <2>1. stPc' = "failed" /\ UNCHANGED <<synced, ss, stFull, stIds, stPlays, stTodo>>
        BY <1>15 DEF StFails
  <2> QED  BY <1>1, <2>1 DEF ss
<1>16. CASE UNCHANGED vars
      BY <1>3, <1>16 DEF vars
<1> QED
    BY <1>4, <1>5, <1>6, <1>7, <1>8, <1>9, <1>10, <1>11, <1>12, <1>13, <1>14, <1>15, <1>16
    DEF Next, User, SyncStremioStremio, SyncStremioTrakt

LEMMA TypeNext == ASSUME TypeOK, [Next]_vars PROVE TypeOK'
<1> QED  BY TypeParts, ListsNext, ItemsNext, TimesNext, StepsNext, TypePartsNext

LEMMA TypeInit == Init => TypeOK
<1> SUFFICES ASSUME Init PROVE TypeOK
    OBVIOUS
<1>1. A \in Account /\ NoItems \in Library
      BY NoItemsType DEF Account
<1>2. TypeLists
  <2>1. \A i \in Item : 1 \in 1 .. Len(Releases[i]) /\ 1 \in 1 .. 1
        BY ListFacts
  <2> QED  BY <2>1 DEF Init, TypeLists
<1>3. TypeItems
      BY <1>1 DEF Init, TypeItems
<1>4. TypeTimes
  <2>1. plays \in [Video -> Era \cup {NotPlayed}] /\ age \in [Item -> Era]
        BY EraFacts DEF Init
  <2> QED  BY <2>1, EraFacts DEF Init, TypeTimes
<1>5. TypeSteps
      BY EmptySeq DEF Init, TypeSteps
<1> QED  BY <1>2, <1>3, <1>4, <1>5, TypeParts

\* Every variable of the two syncs, of the libraries and of Trakt keeps its
\* type: a step never leaves an item half written or a list out of range.
THEOREM TypeCorrect == Spec => []TypeOK
<1>1. TypeOK /\ [Next]_vars => TypeOK'
      BY TypeNext
<1> QED  BY <1>1, TypeInit, PTL DEF Spec

-----------------------------------------------------------------------------
(* Nothing is invented.                                                    *)

\* A field is in line with a list L when its bits and its anchor point, moved
\* by one distance, at videos of L that are in seen and at the anchor.
InLine(f, L, seen, d) ==
    /\ \A j \in f.ones : j + 1 + d \in 1 .. Len(L) /\ L[j + 1 + d] \in seen
    /\ f.ones # {} => f.anchorLength + d \in 1 .. Len(L) /\ L[f.anchorLength + d] = f.anchor

Truthful(x, L, seen) == x.field = NoField \/ \E d \in Int : InLine(x.field, L, seen, d)

\* The bits of an item that is read with a stretch of L.
LEMMA TruthfulBits ==
    ASSUME NEW i \in Item, NEW L, IsList(L, i), NEW l, IsList(l, i), NEW seen,
           NEW x \in ItemState, Truthful(x, L, seen), NEW e \in 0 .. Len(L), Len(l) + e <= Len(L),
           \A n \in 1 .. Len(l) : L[n + e] = l[n]
    PROVE  \A j \in BitsOf(x, l).ones : j \in Nat /\ j + 1 + e \in 1 .. Len(L) /\ L[j + 1 + e] \in seen
<1>1. Len(L) \in Nat /\ Len(l) \in Nat /\ BitsOf(x, l) \in Bits
      /\ DOMAIN L = 1 .. Len(L)
      BY LenProperties, BitsFit DEF IsList, Fits
<1>2. CASE x.field = NoField
      BY <1>1, <1>2, NewBitsType DEF BitsOf
<1>3. CASE x.field # NoField
  <2> DEFINE f == x.field
             n == Len(l)
             at == Index(l, f.anchor)
             offset == f.anchorLength - at - 1
             bits == NewBitField8WithValues(f.bytes, f.ones, n)
             moved == {k \in 0 .. n - 1 : k + offset >= 0 /\ k + offset < bits.length /\ GetBit(bits, k + offset)}
  <2>1. f.bytes \in Nat /\ f.ones \in SUBSET Nat /\ f.anchorLength \in Nat
    <3>1. f \in Field
          BY <1>3 DEF ItemState, Absent
    <3> QED  BY <3>1 DEF Field
  <2>2. PICK d \in Int : InLine(f, L, seen, d)
        BY <1>3 DEF Truthful
  <2>3. BitsOf(x, l) = IF at = -1 THEN NewBitField8(n) ELSE IF offset = 0 THEN bits
                       ELSE [NewBitField8(n) EXCEPT !.ones = moved]
        BY <1>3 DEF BitsOf, FromField
  <2>4. bits.ones = f.ones
        BY DEF NewBitField8WithValues
  <2>5. NewBitField8(n) \in Bits /\ NewBitField8(n).ones = {}
        BY <1>1, NewBitsType
  <2>6. at \in -1 .. n - 1 /\ (at # -1 => l[at + 1] = f.anchor)
        BY <1>1, IndexOf DEF IsList
  <2> HIDE DEF f, at, bits
  <2>7. ASSUME at # -1, f.ones # {} PROVE offset = e - d
    <3>1. at + 1 \in 1 .. n /\ L[at + 1 + e] = f.anchor /\ at + 1 + e \in 1 .. Len(L)
          BY <1>1, <2>6, <2>7
    <3>2. f.anchorLength + d \in 1 .. Len(L) /\ L[f.anchorLength + d] = f.anchor
          BY <2>2, <2>7 DEF InLine
    <3>3. at + 1 + e = f.anchorLength + d
          BY <1>1, <3>1, <3>2 DEF IsList, IsInjective
    <3> QED  BY <1>1, <2>1, <2>6, <3>3
  <2>8. CASE at = -1
        BY <2>3, <2>5, <2>8
  <2>9. CASE at # -1 /\ offset = 0
    <3> SUFFICES ASSUME NEW j \in f.ones PROVE j \in Nat /\ j + 1 + e \in 1 .. Len(L) /\ L[j + 1 + e] \in seen
        BY <2>3, <2>4, <2>9
    <3>1. e = d
          BY <2>2, <2>7, <2>9
    <3> QED  BY <2>1, <2>2, <3>1 DEF InLine
  <2>10. CASE at # -1 /\ offset # 0
    <3>1. BitsOf(x, l).ones = moved
          BY <2>3, <2>5, <2>10 DEF Bits
    <3> SUFFICES ASSUME NEW j \in moved PROVE j \in Nat /\ j + 1 + e \in 1 .. Len(L) /\ L[j + 1 + e] \in seen
        BY <3>1
    <3>2. j \in Nat /\ j + offset \in f.ones
          BY <2>4 DEF GetBit
    <3>3. offset = e - d
          BY <2>7, <2>10, <3>2
    <3>4. (j + offset) + 1 + d = j + 1 + e
          BY <2>2, <3>2, <3>3
    <3> QED  BY <2>2, <3>2, <3>4 DEF InLine
  <2> QED  BY <2>8, <2>9, <2>10
<1> QED  BY <1>2, <1>3

\* An item that is read with a stretch of L shows nothing that is not in seen.
LEMMA TruthfulReading ==
    ASSUME NEW i \in Item, NEW L, IsList(L, i), NEW l, IsList(l, i), StretchOf(l, L), NEW seen,
           NEW x \in ItemState, Truthful(x, L, seen)
    PROVE  Reading(x, l) \subseteq seen
<1>1. PICK e \in 0 .. Len(L) : Len(l) + e <= Len(L) /\ \A n \in 1 .. Len(l) : L[n + e] = l[n]
      BY DEF StretchOf
<1>2. \A j \in BitsOf(x, l).ones : j \in Nat /\ L[j + 1 + e] \in seen
      BY <1>1, TruthfulBits
<1>3. ASSUME NEW j \in BitsOf(x, l).ones, j < Len(l) PROVE l[j + 1] \in seen
  <2>1. j + 1 \in 1 .. Len(l) /\ (j + 1) + e = j + 1 + e
        BY <1>2, <1>3, LenProperties DEF IsList
  <2> QED  BY <1>1, <1>2, <2>1
<1> QED  BY <1>3 DEF Reading, Marks

\* An item that is written over a stretch of L with videos of seen.
LEMMA TruthfulMerged ==
    ASSUME NEW i \in Item, NEW L, IsList(L, i), NEW l, IsList(l, i), StretchOf(l, L), NEW seen,
           NEW x \in ItemState, Truthful(x, L, seen), NEW W, W \subseteq seen, NEW state
    PROVE  Truthful(Merged(x, l, W, state), L, seen)
<1> DEFINE bf == SetVideos(BitsOf(x, l), l, W)
           f == ToField(bf, l)
<1>1. PICK e \in 0 .. Len(L) : Len(l) + e <= Len(L) /\ \A n \in 1 .. Len(l) : L[n + e] = l[n]
      BY DEF StretchOf
<1>2. \A j \in BitsOf(x, l).ones : j \in Nat /\ j + 1 + e \in 1 .. Len(L) /\ L[j + 1 + e] \in seen
      BY <1>1, TruthfulBits
<1>3. Fits(BitsOf(x, l), l) /\ l \in Seq(VideosOf(i)) /\ IsInjective(l) /\ Len(l) \in Nat /\ Len(L) \in Nat
      BY BitsFit, LenProperties DEF IsList
<1>4. /\ Fits(bf, l)
      /\ \A j \in bf.ones : j \in BitsOf(x, l).ones \/ (j + 1 \in 1 .. Len(l) /\ l[j + 1] \in W)
      BY <1>3, SetFits
<1>5. bf.ones \subseteq Nat
      BY <1>4 DEF Fits, Bits
<1> HIDE DEF bf
<1>6. /\ f.ones = bf.ones
      /\ Len(l) # 0 => f.anchorLength \in 1 .. Len(l) /\ f.anchor = l[f.anchorLength]
      BY <1>3, <1>4, ReadBack
<1> HIDE DEF f
<1>7. ASSUME NEW j \in f.ones PROVE j + 1 + e \in 1 .. Len(L) /\ L[j + 1 + e] \in seen
  <2>1. CASE j \in BitsOf(x, l).ones
        BY <1>2, <2>1
  <2>2. CASE j + 1 \in 1 .. Len(l) /\ l[j + 1] \in W
    <3>1. j \in Nat /\ (j + 1) + e = j + 1 + e
          BY <1>5, <1>6
    <3> QED  BY <1>1, <1>3, <2>2, <3>1
  <2> QED  BY <1>4, <1>6, <2>1, <2>2
<1>8. ASSUME f.ones # {} PROVE f.anchorLength + e \in 1 .. Len(L) /\ L[f.anchorLength + e] = f.anchor
  <2>1. Len(l) # 0
        BY <1>4, <1>6, <1>8 DEF Fits
  <2> QED  BY <1>1, <1>3, <1>6, <2>1
<1>9. e \in Int /\ InLine(f, L, seen, e)
      BY <1>7, <1>8 DEF InLine
<1>10. Merged(x, l, W, state).field = f
      BY DEF Merged, bf, f
<1> QED  BY <1>9, <1>10 DEF Truthful

\* A list of which the old one is a stretch, more videos in seen.
LEMMA TruthfulStays ==
    ASSUME NEW i \in Item, NEW L, IsList(L, i), NEW longer, IsList(longer, i), StretchOf(L, longer),
           NEW seen, NEW more, seen \subseteq more, NEW x \in ItemState, Truthful(x, L, seen)
    PROVE  Truthful(x, longer, more)
<1>1. PICK e \in 0 .. Len(longer) :
               Len(L) + e <= Len(longer) /\ \A n \in 1 .. Len(L) : longer[n + e] = L[n]
      BY DEF StretchOf
<1>2. CASE x.field # NoField
  <2>1. PICK d \in Int : InLine(x.field, L, seen, d)
        BY <1>2 DEF Truthful
  <2> DEFINE f == x.field
  <2>2. f.ones \subseteq Nat /\ f.anchorLength \in Nat
    <3>1. f \in Field
          BY <1>2 DEF ItemState, Absent
    <3> QED  BY <3>1 DEF Field
  <2>3. Len(L) \in Nat /\ Len(longer) \in Nat /\ d + e \in Int
        BY LenProperties DEF IsList
  <2> HIDE DEF f
  <2>4. ASSUME NEW j \in f.ones PROVE j + 1 + (d + e) \in 1 .. Len(longer) /\ longer[j + 1 + (d + e)] \in more
    <3>1. j + 1 + d \in 1 .. Len(L) /\ L[j + 1 + d] \in seen
          BY <2>1 DEF InLine, f
    <3>2. j + 1 + (d + e) = (j + 1 + d) + e
          BY <2>2, <2>3
    <3> QED  BY <1>1, <2>3, <3>1, <3>2
  <2>5. ASSUME f.ones # {}
        PROVE  f.anchorLength + (d + e) \in 1 .. Len(longer) /\ longer[f.anchorLength + (d + e)] = f.anchor
    <3>1. f.anchorLength + d \in 1 .. Len(L) /\ L[f.anchorLength + d] = f.anchor
          BY <2>1, <2>5 DEF InLine, f
    <3>2. f.anchorLength + (d + e) = (f.anchorLength + d) + e
          BY <2>2, <2>3
    <3> QED  BY <1>1, <2>3, <3>1, <3>2
  <2>6. InLine(f, longer, more, d + e)
        BY <2>4, <2>5 DEF InLine
  <2> QED  BY <2>3, <2>6 DEF Truthful, f
<1> QED  BY <1>2 DEF Truthful

LEMMA StretchSelf ==
    ASSUME NEW i \in Item, NEW L, IsList(L, i) PROVE StretchOf(L, L)
<1>1. Len(L) \in Nat
      BY LenProperties DEF IsList
<1>2. 0 \in 0 .. Len(L) /\ Len(L) + 0 <= Len(L) /\ \A n \in 1 .. Len(L) : L[n + 0] = L[n]
      BY <1>1
<1> QED  BY <1>2 DEF StretchOf

LEMMA PutSteps ==
    ASSUME TypeOK, NEW b \in Account, NEW items, NEW new, Put(b, items, new)
    PROVE  \A a \in Account, i \in Item :
              lib'[a][i] = IF a = b /\ i \in items THEN new[i] ELSE lib[a][i]
<1> QED  BY DEF TypeOK, Put

LEMMA CopyTypes ==
    ASSUME TypeOK, NEW i \in Item
    PROVE  /\ \A x \in Copies(i) : x \in ItemState
           /\ \A a \in Account : lib[a][i] \in Copies(i) /\ ssLib[a][i] \in Copies(i)
           /\ stLib[i] \in Copies(i)
<1> QED  BY DEF TypeOK, Copies, Library

\* Where a step has the copies of an item from: they were there, are blank, or
\* were written over a list that is in use.
From(x, i) ==
    \/ x.field = NoField
    \/ \E y \in Copies(i) : x.field = y.field
    \/ /\ release' = release
       /\ \E y \in Copies(i), l \in Lists(i) : \E W, state :
             /\ x = Merged(y, l, W, state)
             /\ W \subseteq made' \/ W \subseteq PlaysOf(i) \/ \E z \in Copies(i) : W \subseteq Reading(z, l)

LEMMA CopiesNext ==
    ASSUME TypeOK, [Next]_vars, NEW i \in Item
    PROVE  made \subseteq made' /\ \A x \in Copies(i)' : From(x, i)
<1> DEFINE Goal == made \subseteq made' /\ \A x \in Copies(i)' : From(x, i)
<1>1. ASSUME made \subseteq made',
             \A a \in Account : From(lib'[a][i], i),
             \A a \in Account : From(ssLib'[a][i], i),
             From(stLib'[i], i)
      PROVE  Goal
      BY <1>1 DEF Copies
<1>2. /\ \A a \in Account : From(lib[a][i], i) /\ From(ssLib[a][i], i)
      /\ From(stLib[i], i) /\ From(Absent, i) /\ From(NoItems[i], i)
      BY CopyTypes DEF From, NoItems, Absent
<1>3. ASSUME made \subseteq made', UNCHANGED <<lib, ssLib, stLib>> PROVE Goal
      BY <1>1, <1>2, <1>3
<1>4. ASSUME NEW b \in Account, NEW j \in Item, NEW v \in Video, Watch(b, j, v) PROVE Goal
  <2>1. PICK s \in {"listed", "removed"} :
              Put(b, {j}, [k \in {j} |-> Merged(lib[b][j], Listing(j), {v}, s)])
        BY <1>4 DEF Watch
  <2>2. made' = made \cup {v} /\ UNCHANGED <<release, ssLib, stLib>>
        BY <1>4 DEF Watch, lists, ss, st
  <2>3. \A a \in Account : lib'[a][i] = lib[a][i]
              \/ (i = j /\ a = b /\ lib'[a][i] = Merged(lib[b][j], Listing(j), {v}, s))
    <3> DEFINE new == [k \in {j} |-> Merged(lib[b][j], Listing(j), {v}, s)]
    <3>1. new[j] = Merged(lib[b][j], Listing(j), {v}, s) /\ Put(b, {j}, new)
          BY <2>1
    <3> HIDE DEF new
    <3> QED  BY <3>1, PutSteps
  <2>4. {v} \subseteq made' /\ Listing(i) \in Lists(i) /\ lib[b][i] \in Copies(i)
        BY <2>2, CopyTypes, ListsFacts
  <2>5. From(Merged(lib[b][i], Listing(i), {v}, s), i)
        BY <2>2, <2>4 DEF From
  <2> QED  BY <1>1, <1>2, <2>2, <2>3, <2>5
<1>5. ASSUME NEW b \in Account, NEW j \in Item, Toggle(b, j) PROVE Goal
  <2> DEFINE x == [lib[b][j] EXCEPT !.state = IF @ = "listed" THEN "removed" ELSE "listed"]
             new == [k \in {j} |-> x]
  <2>1. lib[b][j] \in [state : {"listed", "removed"}, field : Field]
        BY <1>5 DEF Toggle, TypeOK, Library, ItemState, Absent
  <2>2. x.field = lib[b][j].field
        BY <2>1
  <2>3. Put(b, {j}, new) /\ UNCHANGED <<made, ssLib, stLib>>
        BY <1>5 DEF Toggle, ss, st
  <2> HIDE DEF x
  <2>4. new[j] = x
        OBVIOUS
  <2> HIDE DEF new
  <2>5. \A a \in Account : lib'[a][i].field = lib[a][i].field
        BY <2>2, <2>3, <2>4, PutSteps
  <2>6. \A a \in Account : From(lib'[a][i], i)
        BY <2>5, CopyTypes DEF From
  <2> QED  BY <1>1, <1>2, <2>3, <2>6
<1>6. CASE SsFetch
  <2>1. \A a \in Account : ssLib'[a][i] \in {lib[a][i], Absent}
        BY <1>6 DEF SsFetch, Fetched
  <2>2. UNCHANGED <<lib, stLib, made>>
        BY <1>6 DEF SsFetch, st
  <2> QED  BY <1>1, <1>2, <2>1, <2>2
<1>7. CASE SsPush \/ SsFails
  <2>1. /\ ssTodo # <<>> /\ UNCHANGED <<made, release, stLib>>
        /\ ssLib' = ssLib \/ ssLib' = [a \in Account |-> NoItems]
        BY <1>7 DEF SsPush, SsFails, SsGoOn, lists, st
  <2>2. UNCHANGED lib \/ \E l \in Listings : SsUpdate(Head(ssTodo), l)
        BY <1>7 DEF SsPush, SsFails
  <2> DEFINE p == Head(ssTodo)
  <2>3. p.src \in Account /\ p.dst \in Account /\ p.kind \in Kind
        BY <2>1, HeadFacts
  <2> HIDE DEF p
  <2>4. ASSUME NEW l \in Listings, SsUpdate(p, l), NEW a \in Account PROVE From(lib'[a][i], i)
    <3>1. Put(p.dst, SsItems(p, l), SsNew(p, l))
          BY <2>4 DEF SsUpdate
    <3>2. lib'[a][i] = IF a = p.dst /\ i \in SsItems(p, l) THEN SsNew(p, l)[i] ELSE lib[a][i]
          BY <2>3, <3>1, PutSteps
    <3>3. CASE a = p.dst /\ i \in SsItems(p, l)
      <4>1. lib'[a][i] = Merged(ssLib[p.dst][i], l[i], Missing(p, i, l), "listed")
            BY <3>2, <3>3 DEF SsNew
      <4>2. Missing(p, i, l) \subseteq Reading(ssLib[p.src][i], l[i])
            BY DEF Missing
      <4>3. ssLib[p.src][i] \in Copies(i) /\ ssLib[p.dst][i] \in Copies(i) /\ l[i] \in Lists(i)
            BY <2>3, CopyTypes, ListsFacts
      <4> QED  BY <2>1, <4>1, <4>2, <4>3 DEF From
    <3> QED  BY <1>2, <3>2, <3>3
  <2>5. \A a \in Account : From(lib'[a][i], i)
        BY <1>2, <2>2, <2>4 DEF p
  <2>6. \A a \in Account : From(ssLib'[a][i], i)
        BY <1>2, <2>1
  <2> QED  BY <1>1, <1>2, <2>1, <2>5, <2>6
<1>8. CASE StFetch
  <2>1. stLib'[i] \in {lib[A][i], Absent} /\ A \in Account /\ UNCHANGED <<lib, ssLib, made>>
        BY <1>8 DEF StFetch, ss, Account
  <2> QED  BY <1>1, <1>2, <2>1
<1>9. ASSUME NEW kind, FetchMissing(kind) PROVE Goal
  <2>1. stLib'[i] \in {lib[A][i], stLib[i]} /\ A \in Account /\ UNCHANGED <<lib, ssLib, made>>
        BY <1>9 DEF FetchMissing, ss, Account
  <2> QED  BY <1>1, <1>2, <2>1
<1>10. ASSUME stTodo # <<>>, StUpdate(Head(stTodo).kind), release' = release, NEW a \in Account
       PROVE  From(lib'[a][i], i)
  <2>1. PICK kind \in Kind, l \in Listings : StUpdateBy(kind, l)
        BY <1>10, HeadFacts, StUpdatePick
  <2>2. lib'[a][i] = IF a = A /\ i \in StItems(kind, l) THEN StNew(kind, l)[i] ELSE lib[a][i]
    <3>1. Put(A, StItems(kind, l), StNew(kind, l)) /\ A \in Account
          BY <2>1 DEF StUpdateBy, Account
    <3> QED  BY <3>1, PutSteps
  <2>3. CASE a = A /\ i \in StItems(kind, l)
    <3>1. PICK state : lib'[a][i] = Merged(stLib[i], l[i], PlaysOf(i), state)
          BY <2>2, <2>3, StNewFacts
    <3>2. stLib[i] \in Copies(i) /\ l[i] \in Lists(i) /\ PlaysOf(i) \subseteq PlaysOf(i)
          BY CopyTypes, ListsFacts
    <3> QED  BY <1>10, <3>1, <3>2 DEF From
  <2> QED  BY <1>2, <2>2, <2>3
<1>11. CASE ToStremioPush
  <2>1. stTodo # <<>> /\ StUpdate(Head(stTodo).kind) /\ UNCHANGED <<release, made, ssLib, stLib>>
        BY <1>11 DEF ToStremioPush, TypeOK, lists, ss
  <2> QED  BY <1>1, <1>2, <1>10, <2>1
<1>12. CASE StDone \/ StAbort
  <2>1. stLib' = NoItems /\ UNCHANGED <<lib, ssLib, made>>
        BY <1>12 DEF StDone, StAbort, StIdle
  <2> QED  BY <1>1, <1>2, <2>1
<1>13. CASE StFails
  <2>1. UNCHANGED <<release, made, ssLib, stLib>>
        BY <1>13 DEF StFails, lists, ss
  <2>2. UNCHANGED lib \/ (stTodo # <<>> /\ StUpdate(Head(stTodo).kind))
        BY <1>13 DEF StFails, TypeOK
  <2> QED  BY <1>1, <1>2, <1>10, <2>1, <2>2
<1>14. CASE Reset \/ StStart \/ StFetchIds \/ UNCHANGED vars
      BY <1>3, <1>14 DEF Reset, StStart, StFetchIds, ss, st, vars
<1>15. ASSUME NEW j, NEW v, Play(j, v) \/ PlayBackdated(j, v) \/ Release(j) \/ CacheExpires(j) PROVE Goal
      BY <1>3, <1>15 DEF Play, PlayBackdated, Release, CacheExpires, ss, st
<1>16. ASSUME NEW kind, ToTraktPush(kind) \/ LookupFails(kind) PROVE Goal
      BY <1>3, <1>16 DEF ToTraktPush, LookupFails, ss
<1> QED
    BY <1>4, <1>5, <1>6, <1>7, <1>8, <1>9, <1>11, <1>12, <1>13, <1>14, <1>15, <1>16
    DEF Next, User, SyncStremioStremio, SyncStremioTrakt

LEMMA ReleaseSteps == ASSUME TypeOK, [Next]_vars, NEW i \in Item PROVE release[i] \in Nat /\ release'[i] \in Nat /\ release[i] <= release'[i]
<1>0. release[i] \in Nat
      BY ListFacts DEF TypeOK
<1>1. CASE \E j \in Item : Release(j)
      BY <1>0, <1>1 DEF Release, TypeOK
<1>2. ASSUME \A j \in Item : ~Release(j) PROVE release' = release
  <2>1. User \/ (\E kind \in Kind : LookupFails(kind)) \/ SsFails \/ StFails \/ UNCHANGED vars => UNCHANGED lists
        BY DEF User, Watch, Toggle, Play, PlayBackdated, Reset, LookupFails, SsFails, StFails, vars
  <2>2. SyncStremioStremio \/ SyncStremioTrakt => UNCHANGED lists
        BY DEF SyncStremioStremio, SsFetch, SsPush, SyncStremioTrakt, StStart, StFetchIds, StFetch, ToTraktPush,
               FetchMissing, ToStremioPush, StDone, StAbort
  <2> QED  BY <1>2, <2>1, <2>2 DEF Next, lists, CacheExpires
<1> QED  BY <1>0, <1>1, <1>2

\* What a list that is in use is of the newest one, when the list has grown.
LEMMA GrownFacts ==
    ASSUME TypeOK, NEW i \in Item, Grown(i)
    PROVE  \A l \in Lists(i) : IsList(l, i) /\ StretchOf(l, Listing(i))
<1>1. release[i] \in Nat \ {0}
      BY ListFacts DEF TypeOK
<1>2. ASSUME NEW l \in Lists(i) PROVE StretchOf(l, Listing(i))
  <2>1. PICK n \in 1 .. release[i] : l = Releases[i][n]
        BY ListsFacts
  <2> QED  BY <1>1, <2>1 DEF Grown, Listing
<1> QED  BY <1>2, ListsFacts

HonestItem(i) ==
    /\ \A x \in Copies(i) : Truthful(x, Listing(i), made)
    /\ (Played \cup stPlays) \cap VideosOf(i) \subseteq made
Honest == \A i \in Item : Grown(i) => HonestItem(i)

\* What Trakt is sent of an item, the workers have read.
LEMMA UnplayedReads ==
    ASSUME TypeOK, NEW kind \in Kind, NEW skipped, NEW l \in Listings, NEW i \in Item,
           NEW v \in VideosOf(i), v \in Unplayed(kind, skipped, l)
    PROVE  v \in Reading(stLib[i], l[i]) /\ v \notin Special /\ i \in (Of(kind) \cap stIds) \ skipped
           /\ stLib[i].field # NoField
<1>1. PICK j \in (Of(kind) \cap stIds) \ skipped : stLib[j].field # NoField /\ v \in Reading(stLib[j], l[j])
      BY DEF Unplayed
<1>2. j \in Item /\ stLib[j] \in ItemState /\ IsList(l[j], j)
      BY OfKind, ListsFacts DEF TypeOK, Library
<1>3. v \in VideosOf(j)
      BY <1>1, <1>2, ReadingListed DEF IsList
<1>4. i = j
      BY <1>2, <1>3, ReleasesAssumption
<1> QED  BY <1>1, <1>4 DEF Unplayed

LEMMA HonestReads ==
    ASSUME TypeOK, NEW i \in Item, Grown(i), HonestItem(i), NEW l \in Lists(i)
    PROVE  \A x \in Copies(i) : Reading(x, l) \subseteq made
<1> SUFFICES ASSUME NEW x \in Copies(i) PROVE Reading(x, l) \subseteq made
    OBVIOUS
<1>1. IsList(l, i) /\ IsList(Listing(i), i) /\ StretchOf(l, Listing(i))
      BY GrownFacts, ListsFacts
<1>2. x \in ItemState /\ Truthful(x, Listing(i), made)
      BY CopyTypes DEF HonestItem
<1> QED  BY <1>1, <1>2, TruthfulReading

\* A play that is new has been watched, or an item shows it.
LEMMA PlaysNext ==
    ASSUME TypeOK, [Next]_vars, NEW i \in Item, Grown(i), HonestItem(i)
    PROVE  (Played' \cup stPlays') \cap VideosOf(i) \subseteq made'
<1> DEFINE Goal == (Played' \cup stPlays') \cap VideosOf(i) \subseteq made'
<1>1. (Played \cup stPlays) \cap VideosOf(i) \subseteq made /\ made \subseteq made'
      BY CopiesNext DEF HonestItem
<1>2. ASSUME UNCHANGED plays, stPlays' \subseteq stPlays \cup Played PROVE Goal
      BY <1>1, <1>2 DEF Played
<1>3. ASSUME NEW j \in Item, NEW v \in Video, Play(j, v) \/ PlayBackdated(j, v) PROVE Goal
  <2>1. /\ made' = made \cup {v} /\ stPlays' = stPlays
        /\ \A w \in Video : plays'[w] # plays[w] => w = v
        BY <1>3 DEF Play, PlayBackdated, st, TypeOK
  <2> QED  BY <1>1, <2>1 DEF Played
<1>4. ASSUME NEW kind \in Kind, NEW skipped, NEW l \in Listings, AddToHistory(kind, Unplayed(kind, skipped, l)),
             stPlays' = stPlays
      PROVE  Goal
  <2>1. \A w \in Video : plays'[w] # NotPlayed => plays[w] # NotPlayed \/ w \in Unplayed(kind, skipped, l)
        BY <1>4, AddType
  <2>2. ASSUME NEW w \in VideosOf(i), w \in Unplayed(kind, skipped, l) PROVE w \in made
    <3>1. w \in Reading(stLib[i], l[i])
          BY <2>2, UnplayedReads
    <3> QED  BY <3>1, HonestReads, ListsFacts, CopyTypes
  <2> QED  BY <1>1, <1>4, <2>1, <2>2 DEF Played
<1>5. ASSUME NEW kind \in Kind, ToTraktPush(kind) \/ LookupFails(kind) PROVE Goal
      BY <1>4, <1>5 DEF ToTraktPush, LookupFails
<1>6. CASE StFails
  <2>1. stPlays' = stPlays
        BY <1>6 DEF StFails
  <2> QED  BY <1>2, <1>4, <1>6, <2>1 DEF StFails
<1>7. CASE StDone \/ StAbort
  <2>1. stPlays' = {} /\ \A v \in Video : plays'[v] # NotPlayed => plays[v] # NotPlayed
        BY <1>7 DEF StDone, StAbort, StIdle
  <2> QED  BY <1>1, <2>1 DEF Played
<1>8. CASE StFetch
      BY <1>2, <1>8 DEF StFetch
<1>9. CASE Reset \/ SsFetch \/ SsPush \/ SsFails \/ StStart \/ StFetchIds \/ ToStremioPush \/ UNCHANGED vars
      BY <1>2, <1>9 DEF Reset, SsFetch, SsPush, SsFails, StStart, StFetchIds, ToStremioPush, st, vars
<1>10. ASSUME NEW a, NEW j, NEW v, Watch(a, j, v) \/ Toggle(a, j) \/ Release(j) \/ CacheExpires(j) PROVE Goal
      BY <1>2, <1>10 DEF Watch, Toggle, Release, CacheExpires, st
<1>11. ASSUME NEW kind, FetchMissing(kind) PROVE Goal
      BY <1>2, <1>11 DEF FetchMissing
<1> QED
    BY <1>3, <1>5, <1>6, <1>7, <1>8, <1>9, <1>10, <1>11
    DEF Next, User, SyncStremioStremio, SyncStremioTrakt

LEMMA HonestNext == ASSUME TypeOK, TypeOK', Honest, [Next]_vars PROVE Honest'
<1> SUFFICES ASSUME NEW i \in Item, Grown(i)' PROVE HonestItem(i)'
    BY DEF Honest
<1>1. release[i] \in Nat /\ release'[i] \in Nat /\ release[i] <= release'[i] /\ release[i] >= 1
      BY ReleaseSteps, ListFacts DEF TypeOK
<1>2. \A m, n \in 1 .. release'[i] : m <= n => StretchOf(Releases[i][m], Releases[i][n])
      BY DEF Grown
<1>3. Grown(i)
      BY <1>1, <1>2 DEF Grown
<1>4. HonestItem(i) /\ made \subseteq made'
      BY <1>3, CopiesNext DEF Honest
<1>5. IsList(Listing(i), i) /\ IsList(Listing(i)', i) /\ StretchOf(Listing(i), Listing(i)')
  <2>1. IsList(Listing(i), i)
        BY ListsFacts
  <2>2. release'[i] \in 1 .. Len(Releases[i]) /\ Listing(i)' = Releases[i][release'[i]]
        BY DEF TypeOK, Listing
  <2>3. IsList(Listing(i)', i)
        BY <2>2, ListFacts DEF IsList
  <2>4. StretchOf(Listing(i), Listing(i)')
        BY <1>1, <1>2, <2>2 DEF Listing
  <2> QED  BY <2>1, <2>3, <2>4
<1>6. ASSUME NEW x \in Copies(i)' PROVE Truthful(x, Listing(i)', made')
  <2>1. From(x, i) /\ x \in ItemState
    <3>1. x \in ItemState
          BY DEF TypeOK, Copies, Library
    <3> QED  BY <3>1, CopiesNext
  <2>2. CASE x.field = NoField
        BY <2>2 DEF Truthful
  <2>3. ASSUME NEW y \in Copies(i), x.field = y.field PROVE Truthful(x, Listing(i)', made')
    <3>1. Truthful(y, Listing(i), made)
          BY <1>4 DEF HonestItem
    <3>2. Truthful(x, Listing(i), made)
          BY <2>3, <3>1 DEF Truthful
    <3> QED  BY <1>4, <1>5, <2>1, <3>2, TruthfulStays
  <2>4. ASSUME release' = release, NEW y \in Copies(i), NEW l \in Lists(i), NEW W, NEW state,
               x = Merged(y, l, W, state),
               W \subseteq made' \/ W \subseteq PlaysOf(i) \/ \E z \in Copies(i) : W \subseteq Reading(z, l)
        PROVE  Truthful(x, Listing(i)', made')
    <3>1. W \subseteq made'
      <4>1. PlaysOf(i) \subseteq made
            BY <1>4 DEF PlaysOf, HonestItem
      <4>2. \A z \in Copies(i) : Reading(z, l) \subseteq made
            BY <1>3, <1>4, HonestReads
      <4> QED  BY <1>4, <2>4, <4>1, <4>2
    <3>2. Listing(i)' = Listing(i)
          BY <2>4 DEF Listing
    <3>3. IsList(l, i) /\ StretchOf(l, Listing(i)) /\ y \in ItemState
          BY <1>3, GrownFacts, CopyTypes
    <3>4. Truthful(y, Listing(i), made')
      <4>1. Truthful(y, Listing(i), made)
            BY <1>4 DEF HonestItem
      <4> QED  BY <1>4, <1>5, <3>3, <4>1, StretchSelf, TruthfulStays
    <3>5. Truthful(x, Listing(i), made')
          BY <1>5, <2>4, <3>1, <3>3, <3>4, TruthfulMerged
    <3> QED  BY <3>2, <3>5
  <2> QED  BY <2>1, <2>2, <2>3, <2>4 DEF From
<1>7. (Played' \cup stPlays') \cap VideosOf(i) \subseteq made'
      BY <1>3, <1>4, PlaysNext
<1> QED  BY <1>6, <1>7 DEF HonestItem

LEMMA HonestInit == Init => Honest
<1> SUFFICES ASSUME Init, NEW i \in Item PROVE HonestItem(i)
    BY DEF Honest
<1>1. \A x \in Copies(i) : x = Absent
      BY DEF Init, Copies, NoItems
<1>2. Played = {} /\ stPlays = {}
      BY DEF Init, Played
<1> QED  BY <1>1, <1>2, NoItemsType DEF HonestItem, Truthful

\* For any items, lists and actions of the user, any errors and whichever lists
\* a cache returns: of an item whose list has grown at its ends only, neither
\* library and not Trakt ever shows a video as watched that the user has not
\* watched, by whichever list it is read.
THEOREM NothingIsInvented == Spec => []NothingInvented
<1>1. TypeOK /\ Honest /\ [Next]_vars => TypeOK' /\ Honest'
      BY TypeNext, HonestNext
<1>2. ASSUME TypeOK, Honest PROVE NothingInvented
  <2> SUFFICES ASSUME NEW i \in Item, Grown(i)
               PROVE  /\ \A a \in Account : \A l \in Lists(i) : Reading(lib[a][i], l) \subseteq made
                      /\ Played \cap VideosOf(i) \subseteq made
      BY DEF NothingInvented
  <2>1. HonestItem(i)
        BY <1>2 DEF Honest
  <2>2. \A l \in Lists(i) : \A x \in Copies(i) : Reading(x, l) \subseteq made
        BY <1>2, <2>1, HonestReads
  <2>3. \A a \in Account : lib[a][i] \in Copies(i)
        BY <1>2, CopyTypes
  <2> QED  BY <2>1, <2>2, <2>3 DEF HonestItem
<1> QED  BY <1>1, <1>2, TypeInit, HonestInit, PTL DEF Spec

-----------------------------------------------------------------------------
(* What a sync takes from a library.                                       *)

\* By the list of videos, account a keeps of item i what it had, or what a
\* worker that writes it has fetched.
Kept(a, i, videos) ==
    \/ Reading(lib[a][i], videos) \subseteq Reading(lib'[a][i], videos)
    \/ ssTodo # <<>> /\ Reading(ssLib[a][i], videos) \subseteq Reading(lib'[a][i], videos)
    \/ stPc = "update" /\ a = A /\ Reading(stLib[i], videos) \subseteq Reading(lib'[a][i], videos)

LEMMA SsUpdateShows ==
    ASSUME TypeOK, NEW p, p.src \in Account, p.dst \in Account, p.kind \in Kind, NEW l \in Listings,
           SsUpdate(p, l), NEW a \in Account, NEW i \in Item
    PROVE  IF a = p.dst /\ i \in SsItems(p, l)
           THEN Reading(lib'[a][i], l[i]) = Reading(ssLib[a][i], l[i]) \cup Missing(p, i, l)
           ELSE lib'[a][i] = lib[a][i]
<1>1. Put(p.dst, SsItems(p, l), SsNew(p, l))
      BY DEF SsUpdate
<1>2. lib'[a][i] = IF a = p.dst /\ i \in SsItems(p, l) THEN SsNew(p, l)[i] ELSE lib[a][i]
      BY <1>1, PutSteps
<1>3. CASE a = p.dst /\ i \in SsItems(p, l)
  <2>1. lib'[a][i] = Merged(ssLib[a][i], l[i], Missing(p, i, l), "listed")
        BY <1>2, <1>3 DEF SsNew
  <2>2. ssLib[a][i] \in ItemState /\ ssLib[p.src][i] \in ItemState /\ IsList(l[i], i)
        BY CopyTypes, ListsFacts
  <2>3. Reading(lib'[a][i], l[i]) = Reading(ssLib[a][i], l[i]) \cup (Missing(p, i, l) \cap Range(l[i]))
        BY <2>1, <2>2, MergedShows
  <2>4. Missing(p, i, l) \subseteq Range(l[i])
        BY <2>2, ReadingListed DEF Missing
  <2> QED  BY <1>3, <2>3, <2>4
<1> QED  BY <1>2, <1>3

LEMMA StUpdateShows ==
    ASSUME TypeOK, NEW kind \in Kind, NEW l \in Listings, StUpdateBy(kind, l),
           NEW a \in Account, NEW i \in Item
    PROVE  IF a = A /\ i \in StItems(kind, l)
           THEN /\ lib'[a][i] = StNew(kind, l)[i]
                /\ Reading(lib'[a][i], l[i]) = Reading(stLib[i], l[i]) \cup (PlaysOf(i) \cap Range(l[i]))
           ELSE lib'[a][i] = lib[a][i]
<1>1. Put(A, StItems(kind, l), StNew(kind, l)) /\ A \in Account
      BY DEF StUpdateBy, Account
<1>2. lib'[a][i] = IF a = A /\ i \in StItems(kind, l) THEN StNew(kind, l)[i] ELSE lib[a][i]
      BY <1>1, PutSteps
<1>3. CASE a = A /\ i \in StItems(kind, l)
  <2>1. PICK state \in {"listed", "removed"} : StNew(kind, l)[i] = Merged(stLib[i], l[i], PlaysOf(i), state)
        BY <1>3, StNewFacts
  <2>2. stLib[i] \in ItemState /\ IsList(l[i], i)
        BY <1>3, StNewFacts
  <2>3. lib'[a][i] = Merged(stLib[i], l[i], PlaysOf(i), state)
        BY <1>2, <1>3, <2>1
  <2>4. Reading(lib'[a][i], l[i]) = Reading(stLib[i], l[i]) \cup (PlaysOf(i) \cap Range(l[i]))
        BY <2>2, <2>3, MergedShows
  <2> QED  BY <1>2, <1>3, <2>4
<1> QED  BY <1>2, <1>3

\* The user's step: what an item shows grows, or it is another item.
LEMMA WatchShows ==
    ASSUME TypeOK, NEW b \in Account, NEW j \in Item, NEW v \in Video, Watch(b, j, v),
           NEW a \in Account, NEW i \in Item
    PROVE  IF a = b /\ i = j
           THEN Watched(lib'[a][i], i) = Watched(lib[a][i], i) \cup {v}
           ELSE lib'[a][i] = lib[a][i]
<1>1. PICK s \in {"listed", "removed"} :
            Put(b, {j}, [k \in {j} |-> Merged(lib[b][j], Listing(j), {v}, s)])
      BY DEF Watch
<1>2. v \in Range(Listing(j)) /\ lib[b][j] \in ItemState /\ IsList(Listing(j), j)
      BY CopyTypes, ListsFacts DEF Watch
<1>3. lib'[a][i] = IF a = b /\ i = j THEN Merged(lib[b][j], Listing(j), {v}, s) ELSE lib[a][i]
  <2> DEFINE new == [k \in {j} |-> Merged(lib[b][j], Listing(j), {v}, s)]
  <2>1. new[j] = Merged(lib[b][j], Listing(j), {v}, s) /\ Put(b, {j}, new)
        BY <1>1
  <2> HIDE DEF new
  <2> QED  BY <2>1, PutSteps
<1>4. Reading(Merged(lib[b][j], Listing(j), {v}, s), Listing(j))
         = Reading(lib[b][j], Listing(j)) \cup ({v} \cap Range(Listing(j)))
      BY <1>2, MergedShows
<1> QED  BY <1>2, <1>3, <1>4 DEF Watched

LEMMA ToggleShows ==
    ASSUME TypeOK, NEW b \in Account, NEW j \in Item, Toggle(b, j), NEW a \in Account, NEW i \in Item
    PROVE  lib'[a][i].field = lib[a][i].field /\ lib'[a][i] \in ItemState
<1> DEFINE x == [lib[b][j] EXCEPT !.state = IF @ = "listed" THEN "removed" ELSE "listed"]
           new == [k \in {j} |-> x]
<1>1. lib[b][j] \in [state : {"listed", "removed"}, field : Field]
      BY CopyTypes DEF Toggle, ItemState, Absent
<1>2. x.field = lib[b][j].field /\ x \in ItemState
      BY <1>1 DEF ItemState
<1>3. Put(b, {j}, new)
      BY DEF Toggle
<1> HIDE DEF x
<1>4. new[j] = x
      OBVIOUS
<1> HIDE DEF new
<1>5. lib'[a][i] = IF a = b /\ i = j THEN x ELSE lib[a][i]
      BY <1>3, <1>4, PutSteps
<1> QED  BY <1>2, <1>5, CopyTypes

LEMMA KeptByAList ==
    ASSUME TypeOK, [Next]_vars, NEW a \in Account, NEW i \in Item, lib[a][i] # lib'[a][i]
    PROVE  \E videos \in Lists(i) : Kept(a, i, videos)
<1> DEFINE Goal == \E videos \in Lists(i) : Kept(a, i, videos)
<1>1. Listing(i) \in Lists(i) /\ \A l \in Listings : l[i] \in Lists(i)
      BY ListsFacts
<1>2. ASSUME NEW b \in Account, NEW j \in Item, NEW v \in Video, Watch(b, j, v) PROVE Goal
  <2>1. Watched(lib[a][i], i) \subseteq Watched(lib'[a][i], i)
        BY <1>2, WatchShows
  <2> QED  BY <1>1, <2>1 DEF Kept, Watched
<1>3. ASSUME NEW b \in Account, NEW j \in Item, Toggle(b, j) PROVE Goal
  <2>1. lib'[a][i].field = lib[a][i].field
        BY <1>3, ToggleShows
  <2> QED  BY <1>1, <2>1 DEF Kept, Reading, BitsOf
<1>4. CASE SsPush \/ SsFails
  <2>1. ssTodo # <<>> /\ \E l \in Listings : SsUpdate(Head(ssTodo), l)
        BY <1>4 DEF SsPush, SsFails
  <2>2. PICK l \in Listings : SsUpdate(Head(ssTodo), l)
        BY <2>1
  <2> DEFINE p == Head(ssTodo)
  <2>3. p.src \in Account /\ p.dst \in Account /\ p.kind \in Kind /\ SsUpdate(p, l)
        BY <2>1, <2>2, HeadFacts
  <2> HIDE DEF p
  <2>4. IF a = p.dst /\ i \in SsItems(p, l)
        THEN Reading(lib'[a][i], l[i]) = Reading(ssLib[a][i], l[i]) \cup Missing(p, i, l)
        ELSE lib'[a][i] = lib[a][i]
        BY <2>2, <2>3, SsUpdateShows
  <2>5. Reading(ssLib[a][i], l[i]) \subseteq Reading(lib'[a][i], l[i])
        BY <2>4
  <2> QED  BY <1>1, <2>1, <2>5 DEF Kept
<1>5. CASE ToStremioPush \/ StFails
  <2>1. stPc = "update" /\ stTodo # <<>> /\ StUpdate(Head(stTodo).kind)
        BY <1>5 DEF ToStremioPush, StFails, TypeOK
  <2>2. PICK kind \in Kind, l \in Listings : StUpdateBy(kind, l)
        BY <2>1, HeadFacts, StUpdatePick
  <2>3. a = A /\ Reading(stLib[i], l[i]) \subseteq Reading(lib'[a][i], l[i])
        BY <2>2, StUpdateShows
  <2> QED  BY <1>1, <2>1, <2>3 DEF Kept
<1>6. ~(Reset \/ SsFetch \/ StStart \/ StFetchIds \/ StFetch \/ StDone \/ StAbort \/ UNCHANGED vars)
      BY DEF Reset, SsFetch, StStart, StFetchIds, StFetch, StDone, StAbort, vars
<1>7. \A j, v : ~(Play(j, v) \/ PlayBackdated(j, v) \/ Release(j) \/ CacheExpires(j))
      BY DEF Play, PlayBackdated, Release, CacheExpires
<1>8. \A kind : ~(ToTraktPush(kind) \/ LookupFails(kind) \/ FetchMissing(kind))
      BY DEF ToTraktPush, LookupFails, FetchMissing
<1> QED
    BY <1>2, <1>3, <1>4, <1>5, <1>6, <1>7, <1>8
    DEF Next, User, SyncStremioStremio, SyncStremioTrakt

\* Whichever lists a cache returns: no step takes a mark from a library that the
\* worker's copy of the item has by the list that the worker goes by, and but for
\* the workers' updates no step takes one at all.
THEOREM OnlyTheUnseenIsLost == Spec => OnlyUnseenIsLost
<1> DEFINE Lost(a, i, videos) == Reading(lib[a][i], videos) \ Reading(lib'[a][i], videos)
           Losses ==
             \A a \in Account, i \in Item : lib[a][i] # lib'[a][i] =>
                 \E videos \in Lists(i) :
                     \/ Lost(a, i, videos) = {}
                     \/ ssTodo # <<>> /\ Lost(a, i, videos) \cap Reading(ssLib[a][i], videos) = {}
                     \/ stPc = "update" /\ a = A /\ Lost(a, i, videos) \cap Reading(stLib[i], videos) = {}
<1>1. ASSUME TypeOK, [Next]_vars PROVE Losses
  <2> SUFFICES ASSUME NEW a \in Account, NEW i \in Item, lib[a][i] # lib'[a][i]
               PROVE  \E videos \in Lists(i) :
                         \/ Lost(a, i, videos) = {}
                         \/ ssTodo # <<>> /\ Lost(a, i, videos) \cap Reading(ssLib[a][i], videos) = {}
                         \/ stPc = "update" /\ a = A /\ Lost(a, i, videos) \cap Reading(stLib[i], videos) = {}
      OBVIOUS
  <2>1. PICK videos \in Lists(i) : Kept(a, i, videos)
        BY <1>1, KeptByAList
  <2>2. \/ Lost(a, i, videos) = {}
        \/ ssTodo # <<>> /\ Lost(a, i, videos) \cap Reading(ssLib[a][i], videos) = {}
        \/ stPc = "update" /\ a = A /\ Lost(a, i, videos) \cap Reading(stLib[i], videos) = {}
        BY <2>1 DEF Kept
  <2> HIDE DEF Lost
  <2> QED  BY <2>2
<1>2. TypeOK /\ [Next]_vars => [Losses]_vars
      BY <1>1
<1> QED  BY <1>2, TypeCorrect, PTL DEF Spec, OnlyUnseenIsLost

-----------------------------------------------------------------------------
(* Both sides have what is not after LastSyncedAt.                         *)

OnA(i) == Watched(lib[A][i], i)
AtTrakt == Played \cup Special
\* What the Trakt worker knows of an item.
Known(i) == Watched(stLib[i], i)
Left(to, kind) == \E n \in 1 .. Len(stTodo) : stTodo[n] = [to |-> to, kind |-> kind]

\* Where the Trakt worker is.
Course ==
    /\ stPc \in {"idle", "ids"} => stIds = {}
    /\ stPc = "ids" => ~stFull
    /\ stPc # "idle" /\ stFull => ~synced
    /\ \A i \in Item : i \notin stIds => stLib[i] = Absent
    /\ stPc = "update" => Head(stTodo).to = "stremio"
    /\ stPlays \subseteq Played

\* Trakt knows no video of the item that Cinemeta lacks, and the library of A
\* still shows what the Trakt worker has fetched of it.
Shared(i) ==
    /\ Played \cap VideosOf(i) \subseteq Range(Listing(i))
    /\ Known(i) \subseteq OnA(i)

\* What is of era e or before is on both sides.
UpTo(i, e) ==
    /\ age[i] <= e => OnA(i) \subseteq AtTrakt
    /\ \A v \in VideosOf(i) : plays[v] \in 0 .. e => v \in OnA(i)

\* An item that the Trakt worker did not fetch has nothing to send.
Skipped(i) ==
    stPc = "items" /\ i \notin stIds /\ age[i] <= 1 => OnA(i) \subseteq AtTrakt

\* What was there when the sync began and is not on both sides yet has been
\* fetched; the kinds that are done are in order.
Underway(i) ==
    stPc \in {"push", "update"} =>
        /\ age[i] <= 1 => OnA(i) \subseteq Known(i) \cup AtTrakt
        /\ \A v \in VideosOf(i) : plays[v] \in 0 .. 1 => v \in stPlays \cup OnA(i)
        /\ \A kind \in Kind : i \in Of(kind) =>
              /\ ~Left("trakt", kind) /\ age[i] <= 1 => OnA(i) \cup Known(i) \subseteq AtTrakt
              /\ ~Left("stremio", kind) => PlaysOf(i) \subseteq OnA(i)

\* LastSyncedAt, or what the sync that is running took for it.
Since == synced \/ (stPc # "idle" /\ ~stFull)

Agreed(i) == (Since => UpTo(i, 0)) /\ Skipped(i) /\ Underway(i)

Going(i) == Shared(i) /\ (ToTrakt /\ ToStremio => Agreed(i))
SInv == Course /\ \A i \in Item \ exposed : Going(i)

LEMMA Disjoint ==
    ASSUME NEW i \in Item, NEW j \in Item, NEW v \in VideosOf(i), v \in VideosOf(j) PROVE i = j
<1> QED  BY ReleasesAssumption

LEMMA AbsentShows == ASSUME TypeOK, NEW i \in Item PROVE Watched(Absent, i) = {}
<1>1. IsList(Listing(i), i)
      BY ListsFacts
<1> QED  BY <1>1, BlankShows, NoItemsType DEF Watched, IsList

LEMMA ItemKind == \A i \in Item : \E kind \in Kind : i \in Of(kind)
<1> QED  BY DEF Item, Kind, Of

\* What an item shows are videos of it that Cinemeta has.
LEMMA ShownVideos ==
    ASSUME TypeOK, NEW i \in Item
    PROVE  /\ OnA(i) \subseteq Range(Listing(i)) /\ Known(i) \subseteq Range(Listing(i))
           /\ Range(Listing(i)) \subseteq VideosOf(i) /\ VideosOf(i) \subseteq Video
<1>1. lib[A][i] \in ItemState /\ stLib[i] \in ItemState /\ IsList(Listing(i), i)
      BY CopyTypes, ListsFacts DEF Account
<1> QED  BY <1>1, ReadingListed, ListFacts DEF OnA, Known, Watched, IsList

\* Every stage that has items is on the list, when both directions are on.
LEMMA AllStages ==
    ASSUME ToTrakt, ToStremio, NEW kind \in Kind, Of(kind) # {}, NEW to \in {"trakt", "stremio"}
    PROVE  \E n \in 1 .. Len(Stages) : Stages[n] = [to |-> to, kind |-> kind]
<1> DEFINE both(t) == [n \in 1 .. Len(Kinds) |-> [to |-> t, kind |-> Kinds[n]]]
<1>1. Len(Kinds) \in Nat /\ \E m \in 1 .. Len(Kinds) : Kinds[m] = kind
  <2>1. CASE Movie = {}
        BY <2>1 DEF Kinds, Kind, Of
  <2>2. CASE Series = {}
        BY <2>2 DEF Kinds, Kind, Of
  <2>3. CASE Movie # {} /\ Series # {}
    <3>1. <<"movie">> \in Seq(Kind) /\ <<"series">> \in Seq(Kind)
          BY DEF Kind
    <3>2. Kinds = <<"movie">> \o <<"series">>
          BY <2>3 DEF Kinds
    <3>3. Len(Kinds) = 2 /\ Kinds[1] = "movie" /\ Kinds[2] = "series"
          BY <3>1, <3>2, ConcatProperties
    <3> QED  BY <3>3 DEF Kind
  <2> QED  BY <2>1, <2>2, <2>3
<1>2. PICK m \in 1 .. Len(Kinds) : Kinds[m] = kind
      BY <1>1
<1>3. \A t : both(t) \in Seq({both(t)[n] : n \in 1 .. Len(Kinds)}) /\ Len(both(t)) = Len(Kinds)
      BY <1>1
<1>4. Stages = both("trakt") \o both("stremio")
      BY DEF Stages
<1>5. \A t : both(t)[m] = [to |-> t, kind |-> kind]
      BY <1>2
<1> DEFINE one == both("trakt")
           two == both("stremio")
           S == {one[n] : n \in 1 .. Len(Kinds)} \cup {two[n] : n \in 1 .. Len(Kinds)}
<1>6. one \in Seq(S) /\ two \in Seq(S) /\ Len(one) = Len(Kinds) /\ Len(two) = Len(Kinds)
      BY <1>1
<1>7. one[m] = [to |-> "trakt", kind |-> kind] /\ two[m] = [to |-> "stremio", kind |-> kind]
      BY <1>2
<1> HIDE DEF one, two, S
<1>8. /\ Len(one \o two) = Len(one) + Len(two)
      /\ \A n \in 1 .. Len(one) + Len(two) :
            (one \o two)[n] = IF n <= Len(one) THEN one[n] ELSE two[n - Len(one)]
      BY <1>6, ConcatProperties
<1>9. CASE to = "trakt"
  <2>1. m \in 1 .. Len(one) + Len(two) /\ (one \o two)[m] = one[m]
        BY <1>1, <1>2, <1>6, <1>8
  <2> QED  BY <1>4, <1>7, <1>8, <1>9, <2>1 DEF one, two
<1>10. CASE to = "stremio"
  <2>1. /\ m + Len(one) \in 1 .. Len(one) + Len(two)
        /\ (one \o two)[m + Len(one)] = two[m]
        BY <1>1, <1>2, <1>6, <1>8
  <2> QED  BY <1>4, <1>7, <1>8, <1>10, <2>1 DEF one, two
<1> QED  BY <1>9, <1>10

\* What is left when a stage is over.
\* What is left when a stage is over.
LEMMA LeftTail ==
    ASSUME TypeOK, stTodo # <<>>, stTodo' = Tail(stTodo), NEW to, NEW kind, Left(to, kind)
    PROVE  Head(stTodo) = [to |-> to, kind |-> kind] \/ Left(to, kind)'
<1>1. PICK n \in 1 .. Len(stTodo) : stTodo[n] = [to |-> to, kind |-> kind]
      BY DEF Left
<1>2. /\ Len(stTodo) \in Nat /\ Head(stTodo) = stTodo[1] /\ Len(Tail(stTodo)) = Len(stTodo) - 1
      /\ \A k \in 1 .. Len(Tail(stTodo)) : Tail(stTodo)[k] = stTodo[k + 1]
      BY HeadTailProperties, LenProperties DEF TypeOK
<1>3. CASE n = 1
      BY <1>1, <1>2, <1>3
<1>4. CASE n # 1
  <2>1. n - 1 \in 1 .. Len(Tail(stTodo)) /\ (n - 1) + 1 = n
        BY <1>1, <1>2, <1>4
  <2>2. stTodo'[n - 1] = [to |-> to, kind |-> kind]
        BY <1>1, <1>2, <2>1
  <2> QED  BY <2>1, <2>2 DEF Left
<1> QED  BY <1>3, <1>4

LEMMA SameItem ==
    ASSUME lib' = lib, stLib' = stLib, release' = release, NEW i \in Item
    PROVE  /\ OnA(i)' = OnA(i) /\ Known(i)' = Known(i)
           /\ Range(Listing(i))' = Range(Listing(i))
<1> QED  BY DEF OnA, Known, Watched, Listing

\* Nothing is taken from the history.
LEMMA PlaysStay == ASSUME TypeOK, [Next]_vars PROVE Played \subseteq Played'
<1>1. ASSUME plays' = plays PROVE Played \subseteq Played'
      BY <1>1 DEF Played
<1>2. ASSUME NEW i, NEW v, Play(i, v) \/ PlayBackdated(i, v) PROVE Played \subseteq Played'
  <2>1. \E e \in Era : plays' = [plays EXCEPT ![v] = e]
        BY <1>2 DEF Play, PlayBackdated, Newest, Era
  <2>2. \A w \in Video : plays[w] # NotPlayed => plays'[w] # NotPlayed
        BY <2>1 DEF TypeOK, Era, NotPlayed
  <2> QED  BY <2>2 DEF Played
<1>3. ASSUME NEW kind, NEW new, AddToHistory(kind, new) PROVE Played \subseteq Played'
  <2>1. PICK at \in [new -> Era] : plays' = [v \in Video |-> IF v \in new THEN at[v] ELSE plays[v]]
        BY <1>3, AddType
  <2>2. \A w \in Video : plays[w] # NotPlayed => plays'[w] # NotPlayed
        BY <2>1 DEF Era, NotPlayed
  <2> QED  BY <2>2 DEF Played
<1>4. ASSUME NEW kind \in Kind, ToTraktPush(kind) \/ LookupFails(kind) PROVE Played \subseteq Played'
      BY <1>3, <1>4 DEF ToTraktPush, LookupFails
<1>5. CASE StDone \/ StAbort
  <2>1. PICK commit \in BOOLEAN : StIdle(commit)
        BY <1>5 DEF StDone, StAbort
  <2>2. plays' = [v \in Video |-> IF plays[v] = NotPlayed THEN NotPlayed ELSE Later(plays[v], commit)]
        BY <2>1 DEF StIdle
  <2>3. \A v \in Video : plays[v] # NotPlayed => plays'[v] # NotPlayed
        BY <2>2 DEF TypeOK, Later, Era, NotPlayed
  <2> QED  BY <2>3 DEF Played
<1>6. CASE StFails
      BY <1>1, <1>3, <1>6 DEF StFails
<1>7. ASSUME NEW a, NEW i, NEW v, Watch(a, i, v) \/ Toggle(a, i) \/ Release(i) \/ CacheExpires(i)
      PROVE plays' = plays
      BY <1>7 DEF Watch, Toggle, Release, CacheExpires
<1>8. ASSUME NEW kind, FetchMissing(kind) PROVE plays' = plays
      BY <1>8 DEF FetchMissing
<1>9. CASE \/ Reset \/ SsFetch \/ SsPush \/ SsFails \/ StStart \/ StFetchIds \/ StFetch \/ ToStremioPush
           \/ UNCHANGED vars
      BY <1>1, <1>9 DEF Reset, SsFetch, SsPush, SsFails, StStart, StFetchIds, StFetch, ToStremioPush, vars
<1> QED
    BY <1>1, <1>2, <1>4, <1>5, <1>6, <1>7, <1>8, <1>9
    DEF Next, User, SyncStremioStremio, SyncStremioTrakt

\* What is exposed stays so.
LEMMA ExposedStays == ASSUME [Next]_vars PROVE exposed \subseteq exposed'
<1>1. (User \/ \E i \in Item : Release(i) \/ CacheExpires(i)) => exposed \subseteq exposed'
      BY DEF User, Watch, Toggle, Play, PlayBackdated, Reset, Release, CacheExpires
<1>2. (SyncStremioStremio \/ SsFails) => exposed \subseteq exposed'
      BY DEF SyncStremioStremio, SsFetch, SsPush, SsFails, SsUpdate
<1>3. (ToStremioPush \/ StFails) => exposed \subseteq exposed'
      BY DEF ToStremioPush, StFails, StUpdate
<1>4. \A kind : (ToTraktPush(kind) \/ LookupFails(kind) \/ FetchMissing(kind)) => exposed \subseteq exposed'
      BY DEF ToTraktPush, LookupFails, FetchMissing
<1>5. (StStart \/ StFetchIds \/ StFetch \/ StDone \/ StAbort \/ UNCHANGED vars) => exposed \subseteq exposed'
      BY DEF StStart, StFetchIds, StFetch, StDone, StAbort, vars
<1> QED  BY <1>1, <1>2, <1>3, <1>4, <1>5 DEF Next, SyncStremioTrakt

\* A step that is not the Trakt worker's: the item keeps what it shows or is
\* modified now, what is played anew is played now, and Cinemeta has it.
OutsideStep(i) ==
    /\ UNCHANGED st /\ (synced' => synced)
    /\ Known(i)' = Known(i)
    /\ OnA(i) \subseteq OnA(i)'
    /\ age'[i] = Newest \/ (age'[i] = age[i] /\ OnA(i)' = OnA(i))
    /\ \A v \in VideosOf(i) : plays'[v] = plays[v] \/ plays'[v] = Newest
    /\ Played \subseteq Played'
    /\ Played \cap VideosOf(i) \subseteq Range(Listing(i))
          => Played' \cap VideosOf(i) \subseteq Range(Listing(i))'

LEMMA OutsideSteps ==
    ASSUME TypeOK, [Next]_vars, NEW i \in Item, i \notin exposed',
           User \/ (\E j \in Item : Release(j) \/ CacheExpires(j)) \/ SyncStremioStremio \/ SsFails
    PROVE  OutsideStep(i)
<1> USE DEF OutsideStep
<1>1. A \in Account /\ VideosOf(i) \subseteq Video /\ Played \subseteq Played'
      BY PlaysStay DEF Account, Video
<1>2. ASSUME release' = release, stLib' = stLib
      PROVE  /\ Known(i)' = Known(i) /\ Range(Listing(i))' = Range(Listing(i))
             /\ OnA(i)' = Watched(lib'[A][i], i)
      BY <1>2 DEF Known, OnA, Watched, Listing
<1>3. ASSUME NEW a \in Account, NEW j \in Item, NEW v \in Video, Watch(a, j, v) PROVE OutsideStep(i)
  <2>1. /\ UNCHANGED <<release, plays, synced, stLib>> /\ UNCHANGED st
        /\ Touch(IF a = A THEN {j} ELSE {}, Newest)
        BY <1>3 DEF Watch, lists, st
  <2>2. OnA(i) \subseteq Watched(lib'[A][i], i) /\ (a # A \/ i # j => OnA(i) = Watched(lib'[A][i], i))
        BY <1>1, <1>3, WatchShows DEF OnA
  <2>3. age'[i] = IF a = A /\ i = j THEN Newest ELSE age[i]
        BY <2>1 DEF Touch
  <2>4. Played' = Played
        BY <2>1 DEF Played
  <2> QED  BY <1>1, <1>2, <2>1, <2>2, <2>3, <2>4
<1>4. ASSUME NEW a \in Account, NEW j \in Item, Toggle(a, j) PROVE OutsideStep(i)
  <2>1. /\ UNCHANGED <<release, plays, synced, stLib>> /\ UNCHANGED st
        /\ Touch(IF a = A THEN {j} ELSE {}, Newest)
        BY <1>4 DEF Toggle, lists, st
  <2>2. lib'[A][i].field = lib[A][i].field
        BY <1>1, <1>4, ToggleShows
  <2>3. OnA(i) = Watched(lib'[A][i], i)
        BY <2>2 DEF OnA, Watched, Reading, BitsOf
  <2>4. age'[i] = IF a = A /\ i = j THEN Newest ELSE age[i]
        BY <2>1 DEF Touch
  <2>5. Played' = Played
        BY <2>1 DEF Played
  <2> QED  BY <1>1, <1>2, <2>1, <2>3, <2>4, <2>5
<1>5. ASSUME NEW j \in Item, NEW v \in Video, Play(j, v) PROVE OutsideStep(i)
  <2>1. /\ UNCHANGED <<release, lib, age, synced, stLib>> /\ UNCHANGED st
        /\ v \in VideosOf(j)
        /\ \A w \in Video : plays'[w] = IF w = v THEN Newest ELSE plays[w]
        BY <1>5 DEF Play, lists, st, TypeOK
  <2>2. v \in VideosOf(i) => v \in Range(Listing(i))
    <3>1. v \in VideosOf(i) => i = j
          BY <2>1, Disjoint
    <3>2. v \notin Range(Listing(j)) => j \in exposed'
          BY <1>5 DEF Play
    <3> QED  BY <3>1, <3>2
  <2>3. \A w \in Played' : w \in Played \/ w = v
        BY <2>1 DEF Played
  <2> QED  BY <1>1, <2>1, <2>2, <2>3, SameItem
<1>6. ASSUME NEW j \in Item, NEW v \in Video, PlayBackdated(j, v) PROVE OutsideStep(i)
  <2>1. /\ UNCHANGED <<release, lib, age, synced, stLib>> /\ UNCHANGED st
        /\ v \in VideosOf(j) /\ j \in exposed'
        /\ \A w \in Video : w # v => plays'[w] = plays[w]
        BY <1>6 DEF PlayBackdated, lists, st, TypeOK
  <2>2. v \notin VideosOf(i)
        BY <2>1, Disjoint
  <2>3. \A w \in Played' : w \in Played \/ w = v
        BY <2>1 DEF Played
  <2> QED  BY <1>1, <2>1, <2>2, <2>3, SameItem
<1>7. ASSUME UNCHANGED <<release, lib, age, plays, stLib>>, UNCHANGED st, synced' => synced PROVE OutsideStep(i)
  <2>1. Played' = Played
        BY <1>7 DEF Played
  <2> QED  BY <1>7, <2>1, SameItem
<1>8. ASSUME NEW j \in Item, Release(j) PROVE OutsideStep(i)
  <2>1. UNCHANGED <<lib, age, plays, stLib, synced>> /\ UNCHANGED st
        BY <1>8 DEF Release, st
  <2>2. CASE i # j
    <3>1. Listing(i)' = Listing(i)
          BY <1>8, <2>2 DEF Release, Listing, TypeOK
    <3>2. OnA(i)' = OnA(i) /\ Known(i)' = Known(i)
          BY <2>1, <3>1 DEF OnA, Known, Watched
    <3>3. Played' = Played
          BY <2>1 DEF Played
    <3> QED  BY <2>1, <3>1, <3>2, <3>3
  <2>3. CASE i = j
    <3> DEFINE list == Releases[i][release[i] + 1]
    <3>1. /\ \A x \in Copies(i) : Reading(x, list) = Watched(x, i)
          /\ Played \cap VideosOf(i) \subseteq Range(list)
          BY <1>8, <2>3 DEF Release
    <3>2. Listing(i)' = list
          BY <1>8, <2>3 DEF Release, Listing, TypeOK
    <3>3. OnA(i)' = Reading(lib[A][i], list) /\ Known(i)' = Reading(stLib[i], list)
          BY <2>1, <3>2 DEF OnA, Known, Watched
    <3>4. OnA(i)' = OnA(i) /\ Known(i)' = Known(i)
          BY <1>1, <3>1, <3>3, CopyTypes DEF OnA, Known
    <3>5. Played' = Played /\ Range(Listing(i))' = Range(list)
          BY <2>1, <3>2 DEF Played, Range
    <3> HIDE DEF list
    <3> QED  BY <2>1, <3>1, <3>4, <3>5
  <2> QED  BY <2>2, <2>3
<1>9. CASE SsPush \/ SsFails
  <2>1. /\ UNCHANGED <<release, plays, synced, stLib>> /\ UNCHANGED st
        /\ ssTodo # <<>>
        /\ UNCHANGED <<lib, age>> \/ \E l \in Listings : SsUpdate(Head(ssTodo), l)
        BY <1>9 DEF SsPush, SsFails, lists, st
  <2>2. CASE UNCHANGED <<lib, age>>
        BY <1>7, <2>1, <2>2
  <2>3. ASSUME NEW l \in Listings, SsUpdate(Head(ssTodo), l) PROVE OutsideStep(i)
    <3> DEFINE p == Head(ssTodo)
               items == SsItems(p, l)
               new == SsNew(p, l)
    <3>1. /\ i \notin Erased(p.dst, items, new)
          /\ p.dst = A /\ i \in items => ssEra = Newest
          /\ Put(p.dst, items, new)
          /\ Touch(IF p.dst = A THEN items ELSE {}, ssEra)
          BY <2>3 DEF SsUpdate
    <3>2. p.dst \in Account
          BY <2>1, HeadFacts
    <3> HIDE DEF p, items, new
    <3>3. lib'[A][i] = IF A = p.dst /\ i \in items THEN new[i] ELSE lib[A][i]
          BY <1>1, <3>1, <3>2, PutSteps
    <3>4. A = p.dst /\ i \in items => OnA(i) \subseteq Watched(new[i], i)
          BY <3>1 DEF Erased, OnA
    <3>5. age'[i] = IF p.dst = A /\ i \in items THEN ssEra ELSE age[i]
          BY <3>1 DEF Touch
    <3>6. Played' = Played
          BY <2>1 DEF Played
    <3>7. OnA(i) \subseteq Watched(lib'[A][i], i)
          BY <3>3, <3>4 DEF OnA
    <3>8. age'[i] = Newest \/ (age'[i] = age[i] /\ Watched(lib'[A][i], i) = OnA(i))
          BY <3>1, <3>3, <3>5 DEF OnA
    <3> QED  BY <1>1, <1>2, <2>1, <3>6, <3>7, <3>8
  <2> QED  BY <2>1, <2>2, <2>3
<1>10. CASE Reset \/ SsFetch
      BY <1>7, <1>10 DEF Reset, SsFetch, lists, st
<1>11. ASSUME NEW j \in Item, CacheExpires(j) PROVE OutsideStep(i)
      BY <1>7, <1>11 DEF CacheExpires, st
<1> QED  BY <1>3, <1>4, <1>5, <1>6, <1>8, <1>9, <1>10, <1>11 DEF User, SyncStremioStremio

LEMMA OutsideHolds ==
    ASSUME TypeOK, TypeOK', Course, NEW i \in Item, Shared(i), OutsideStep(i)
    PROVE  Shared(i)' /\ (Agreed(i) => Agreed(i)')
<1>1. /\ Newest \in {1, 2} /\ (stPc # "idle" => Newest = 2) /\ NotPlayed = -1
      /\ age[i] \in Era /\ VideosOf(i) \subseteq Video
      BY EraFacts DEF NotPlayed, Video, TypeOK
<1>2. Played \subseteq Played' /\ AtTrakt \subseteq AtTrakt'
      BY DEF OutsideStep, AtTrakt
<1>3. Shared(i)'
      BY DEF Shared, OutsideStep
<1>4. ASSUME UpTo(i, 0) PROVE UpTo(i, 0)'
  <2>1. age'[i] <= 0 => OnA(i)' \subseteq AtTrakt'
        BY <1>1, <1>2, <1>4 DEF OutsideStep, UpTo
  <2>2. ASSUME NEW v \in VideosOf(i), plays'[v] \in 0 .. 0 PROVE v \in OnA(i)'
    <3>1. plays'[v] = plays[v]
          BY <1>1, <2>2 DEF OutsideStep
    <3> QED  BY <1>4, <2>2, <3>1 DEF OutsideStep, UpTo
  <2> QED  BY <2>1, <2>2 DEF UpTo
<1>5. ASSUME Skipped(i) PROVE Skipped(i)'
      BY <1>1, <1>2, <1>5 DEF OutsideStep, Skipped, st
<1>6. ASSUME Underway(i) PROVE Underway(i)'
  <2> SUFFICES ASSUME stPc \in {"push", "update"}
               PROVE  /\ age'[i] <= 1 => OnA(i)' \subseteq Known(i)' \cup AtTrakt'
                      /\ \A v \in VideosOf(i) : plays'[v] \in 0 .. 1 => v \in stPlays \cup OnA(i)'
                      /\ \A kind \in Kind : i \in Of(kind) =>
                            /\ ~Left("trakt", kind) /\ age'[i] <= 1 => OnA(i)' \cup Known(i)' \subseteq AtTrakt'
                            /\ ~Left("stremio", kind) => PlaysOf(i) \subseteq OnA(i)'
      BY DEF Underway, OutsideStep, st, Left, PlaysOf
  <2>1. Newest = 2
        BY <1>1
  <2>2. age'[i] <= 1 => age'[i] = age[i] /\ OnA(i)' = OnA(i)
        BY <2>1 DEF OutsideStep
  <2>3. \A v \in VideosOf(i) : plays'[v] \in 0 .. 1 => plays'[v] = plays[v]
        BY <2>1 DEF OutsideStep
  <2> QED  BY <1>2, <1>6, <2>2, <2>3 DEF OutsideStep, Underway
<1> QED  BY <1>3, <1>4, <1>5, <1>6 DEF Agreed, Since, OutsideStep, st

\* Of an item that is read as Cinemeta has it, what is sent to Trakt are videos
\* that it was known to show, and all of them that Trakt lacks.
LEMMA SendShows ==
    ASSUME TypeOK, Course, NEW kind \in Kind, NEW skipped, NEW l \in Listings,
           AddToHistory(kind, Unplayed(kind, skipped, l)),
           NEW i \in Item, i \notin Misread(kind, l), i \notin skipped
    PROVE  /\ Played \subseteq Played'
           /\ \A v \in VideosOf(i) : plays'[v] = plays[v] \/ (v \in Known(i) /\ plays'[v] \in Era)
           /\ i \in Of(kind) => Known(i) \subseteq AtTrakt'
<1> DEFINE new == Unplayed(kind, skipped, l)
<1>1. PICK at \in [new -> Era] : plays' = [v \in Video |-> IF v \in new THEN at[v] ELSE plays[v]]
      BY AddType
<1>2. VideosOf(i) \subseteq Video /\ stLib[i] \in ItemState
      BY CopyTypes DEF Video
<1>3. i \in Of(kind) => Reading(stLib[i], l[i]) = Known(i)
      BY DEF Misread, Known
<1>4. \A v \in VideosOf(i) : v \in new => v \in Known(i)
      BY <1>3, UnplayedReads
<1>5. ASSUME i \in Of(kind), NEW v \in Known(i) PROVE v \in new \/ v \in AtTrakt
  <2>1. stLib[i].field # NoField
    <3>1. IsList(Listing(i), i)
          BY ListsFacts
    <3>2. stLib[i].field = NoField => Known(i) = {}
          BY <3>1, BlankShows DEF Known, Watched, IsList
    <3> QED  BY <1>5, <3>2
  <2>2. i \in stIds
        BY <2>1, NoItemsType DEF Course
  <2>3. stPlays \subseteq Played
        BY DEF Course
  <2> DEFINE items == {j \in (Of(kind) \cap stIds) \ skipped : stLib[j].field # NoField}
             all == UNION {Reading(stLib[j], l[j]) : j \in items}
  <2>4. i \in items
        BY <1>5, <2>1, <2>2
  <2>5. v \in all
        BY <1>3, <1>5, <2>4
  <2>6. new = all \ (Special \cup (IF stFull THEN stPlays ELSE Played))
        BY DEF Unplayed
  <2> HIDE DEF new, all
  <2> QED  BY <2>3, <2>5, <2>6 DEF AtTrakt
<1> HIDE DEF new
<1>6. \A v \in Video : (plays[v] # NotPlayed \/ v \in new) => plays'[v] # NotPlayed
      BY <1>1, EraFacts
<1>7. Played \subseteq Played' /\ \A v \in Video : v \in new => v \in Played'
      BY <1>6 DEF Played
<1>8. \A v \in VideosOf(i) : plays'[v] = plays[v] \/ (v \in Known(i) /\ plays'[v] \in Era)
      BY <1>1, <1>2, <1>4
<1>9. i \in Of(kind) => Known(i) \subseteq AtTrakt'
      BY <1>2, <1>5, <1>7, ShownVideos DEF AtTrakt
<1> QED  BY <1>7, <1>8, <1>9

\* What both sides had, they have.
LEMMA SendHolds ==
    ASSUME TypeOK, Course, NEW kind \in Kind, NEW skipped, NEW l \in Listings,
           AddToHistory(kind, Unplayed(kind, skipped, l)),
           NEW i \in Item, i \notin Misread(kind, l), i \notin skipped,
           Shared(i), UNCHANGED <<release, lib, age, stLib>>
    PROVE  Shared(i)' /\ (UpTo(i, 0) => UpTo(i, 0)')
<1>1. /\ OnA(i)' = OnA(i) /\ Known(i)' = Known(i)
      /\ Range(Listing(i))' = Range(Listing(i))
      BY SameItem
<1>2. AtTrakt \subseteq AtTrakt'
      BY SendShows DEF AtTrakt
<1>3. Known(i) \subseteq OnA(i) /\ Known(i) \subseteq Range(Listing(i)) /\ VideosOf(i) \subseteq Video
      BY ShownVideos DEF Shared
<1>4. ASSUME NEW v \in Played', v \in VideosOf(i) PROVE v \in Range(Listing(i))
  <2>1. v \in Played \/ v \in Known(i)
        BY <1>3, <1>4, SendShows DEF Played
  <2> QED  BY <1>3, <1>4, <2>1 DEF Shared
<1>5. Shared(i)'
      BY <1>1, <1>3, <1>4 DEF Shared
<1>6. ASSUME UpTo(i, 0) PROVE UpTo(i, 0)'
  <2>1. ASSUME NEW v \in VideosOf(i), plays'[v] \in 0 .. 0 PROVE v \in OnA(i)
        BY <1>3, <1>6, <2>1, SendShows DEF UpTo
  <2> QED  BY <1>1, <1>2, <1>6, <2>1 DEF UpTo
<1> QED  BY <1>5, <1>6

\* A kind is done with Trakt: all that its items were known to show is there.
LEMMA PushHolds ==
    ASSUME TypeOK, Course, NEW kind \in Kind, ToTraktPush(kind) \/ LookupFails(kind),
           NEW i \in Item, i \notin exposed', Shared(i)
    PROVE  Shared(i)' /\ (Agreed(i) => Agreed(i)')
<1>1. PICK l \in Listings, skipped \in SUBSET Item :
              AddToHistory(kind, Unplayed(kind, skipped, l)) /\ i \notin Misread(kind, l) /\ i \notin skipped
      BY OfKind DEF ToTraktPush, LookupFails
<1>2. /\ UNCHANGED <<release, lib, age, stLib>>
      /\ UNCHANGED <<synced, stPc, stFull, stPlays>>
      /\ stPc = "push" /\ stTodo # <<>> /\ Head(stTodo) = [to |-> "trakt", kind |-> kind]
      /\ stTodo' = Tail(stTodo)
      BY DEF ToTraktPush, LookupFails, Stage, lists
<1>3. Shared(i)' /\ (UpTo(i, 0) => UpTo(i, 0)')
      BY <1>1, <1>2, SendHolds
<1>4. OnA(i)' = OnA(i) /\ Known(i)' = Known(i) /\ Known(i) \subseteq OnA(i)
      BY <1>2, SameItem DEF Shared
<1>5. /\ Played \subseteq Played' /\ AtTrakt \subseteq AtTrakt'
      /\ i \in Of(kind) => Known(i) \subseteq AtTrakt'
      /\ \A v \in VideosOf(i) : plays'[v] = plays[v] \/ v \in Known(i)
      BY <1>1, SendShows DEF AtTrakt
<1>6. ASSUME Underway(i) PROVE Underway(i)'
  <2> SUFFICES
          /\ age[i] <= 1 => OnA(i) \subseteq Known(i) \cup AtTrakt'
          /\ \A v \in VideosOf(i) : plays'[v] \in 0 .. 1 => v \in stPlays \cup OnA(i)
          /\ \A k \in Kind : i \in Of(k) =>
                /\ ~Left("trakt", k)' /\ age[i] <= 1 => OnA(i) \cup Known(i) \subseteq AtTrakt'
                /\ ~Left("stremio", k)' => PlaysOf(i) \subseteq OnA(i)
      BY <1>2, <1>4 DEF Underway, PlaysOf
  <2>1. /\ age[i] <= 1 => OnA(i) \subseteq Known(i) \cup AtTrakt
        /\ \A v \in VideosOf(i) : plays[v] \in 0 .. 1 => v \in stPlays \cup OnA(i)
        /\ \A k \in Kind : i \in Of(k) =>
              /\ ~Left("trakt", k) /\ age[i] <= 1 => OnA(i) \cup Known(i) \subseteq AtTrakt
              /\ ~Left("stremio", k) => PlaysOf(i) \subseteq OnA(i)
        BY <1>2, <1>6 DEF Underway
  <2>2. \A v \in VideosOf(i) : plays'[v] \in 0 .. 1 => v \in stPlays \cup OnA(i)
        BY <1>4, <1>5, <2>1
  <2>3. \A k \in Kind : Left("trakt", k) => k = kind \/ Left("trakt", k)'
        BY <1>2, LeftTail
  <2>4. \A k \in Kind : Left("stremio", k) => Left("stremio", k)'
        BY <1>2, LeftTail
  <2>5. ASSUME NEW k \in Kind, i \in Of(k), ~Left("trakt", k)', age[i] <= 1
        PROVE  OnA(i) \cup Known(i) \subseteq AtTrakt'
    <3>1. CASE k = kind
          BY <1>5, <2>1, <2>5, <3>1
    <3>2. CASE k # kind
          BY <1>5, <2>1, <2>3, <2>5, <3>2
    <3> QED  BY <3>1, <3>2
  <2> QED  BY <1>5, <2>1, <2>2, <2>4, <2>5
<1>7. Skipped(i)'
      BY <1>2 DEF Skipped
<1>8. Since' => Since
      BY <1>2 DEF Since
<1> QED  BY <1>3, <1>6, <1>7, <1>8 DEF Agreed

\* An update of an item that is not exposed by it shows at least what the library
\* showed: what was fetched and the plays.
LEMMA UpdateShows ==
    ASSUME TypeOK, Course, NEW kind \in Kind, NEW l \in Listings, StUpdateBy(kind, l),
           UNCHANGED <<release, stLib>>, NEW i \in Item, i \notin exposed', Shared(i)
    PROVE  /\ OnA(i) \subseteq OnA(i)' /\ Known(i)' = Known(i)
           /\ Range(Listing(i))' = Range(Listing(i))
           /\ IF i \in StItems(kind, l)
              THEN age[i] <= 1 /\ age'[i] = 1 /\ OnA(i)' = Known(i) \cup PlaysOf(i)
              ELSE /\ age'[i] = age[i] /\ OnA(i)' = OnA(i)
                   /\ (i \in Of(kind) => PlaysOf(i) \subseteq Known(i))
<1>1. /\ Touch(StItems(kind, l), 1)
      /\ i \notin Erased(A, StItems(kind, l), StNew(kind, l))
      /\ i \notin Mistaken(kind, l)
      /\ i \in StItems(kind, l) => age[i] # 2
      BY DEF StUpdateBy
<1>2. A \in Account /\ age[i] \in {0, 1, 2}
      BY DEF Account, TypeOK, Era
<1>3. Known(i)' = Known(i) /\ Range(Listing(i))' = Range(Listing(i)) /\ OnA(i)' = Watched(lib'[A][i], i)
      BY DEF Known, OnA, Watched, Listing
<1>4. age'[i] = IF i \in StItems(kind, l) THEN 1 ELSE age[i]
      BY <1>1 DEF Touch
<1>5. CASE i \in StItems(kind, l)
  <2>1. lib'[A][i] = StNew(kind, l)[i]
        BY <1>2, <1>5, StUpdateShows
  <2>2. i \in Of(kind)
        BY <1>5 DEF StItems
  <2>3. Watched(StNew(kind, l)[i], i) = Known(i) \cup PlaysOf(i)
        BY <1>1, <1>5, <2>2 DEF Mistaken, Known
  <2>4. OnA(i) \subseteq Watched(StNew(kind, l)[i], i)
        BY <1>1, <1>5 DEF Erased, OnA
  <2>5. age[i] <= 1
        BY <1>1, <1>2, <1>5
  <2> QED  BY <1>3, <1>4, <1>5, <2>1, <2>3, <2>4, <2>5
<1>6. CASE i \notin StItems(kind, l)
  <2>1. lib'[A][i] = lib[A][i]
        BY <1>2, <1>6, StUpdateShows
  <2>2. OnA(i)' = OnA(i)
        BY <1>3, <2>1 DEF OnA
  <2>3. i \in Of(kind) => Known(i) = Known(i) \cup PlaysOf(i)
        BY <1>1, <1>6 DEF Mistaken, Known
  <2> QED  BY <1>3, <1>4, <1>6, <2>2, <2>3
<1> QED  BY <1>5, <1>6

LEMMA UpdateKeeps ==
    ASSUME TypeOK, Course, NEW kind \in Kind, NEW l \in Listings, StUpdateBy(kind, l),
           UNCHANGED <<release, stLib, plays>>, NEW i \in Item, i \notin exposed', Shared(i)
    PROVE  Shared(i)' /\ (UpTo(i, 0) => UpTo(i, 0)')
<1>1. Played' = Played /\ AtTrakt' = AtTrakt
      BY DEF Played, AtTrakt
<1>2. Shared(i)'
      BY <1>1, UpdateShows DEF Shared
<1>3. ASSUME UpTo(i, 0) PROVE UpTo(i, 0)'
  <2>1. age'[i] <= 0 => age'[i] = age[i] /\ OnA(i)' = OnA(i)
        BY UpdateShows
  <2>2. OnA(i) \subseteq OnA(i)'
        BY UpdateShows
  <2> QED  BY <1>1, <1>3, <2>1, <2>2 DEF UpTo
<1> QED  BY <1>2, <1>3

\* A kind is done with Stremio: all the plays that were fetched are shown.
LEMMA UpdateHolds ==
    ASSUME TypeOK, Course, ToStremioPush, NEW i \in Item, i \notin exposed', Shared(i)
    PROVE  Shared(i)' /\ (Agreed(i) => Agreed(i)')
<1> DEFINE kind == Head(stTodo).kind
<1>1. /\ StUpdate(kind) /\ UNCHANGED <<release, stLib, plays>> /\ UNCHANGED <<synced, stFull, stPlays>>
      /\ stPc = "update" /\ stPc' = "push" /\ stTodo # <<>> /\ stTodo' = Tail(stTodo)
      BY DEF ToStremioPush, TypeOK, lists
<1>2. kind \in Kind /\ Head(stTodo).to = "stremio"
      BY <1>1, HeadFacts DEF Course
<1>3. \A k, to : Head(stTodo) = [to |-> to, kind |-> k] => to = "stremio" /\ k = kind
      BY <1>2
<1> HIDE DEF kind
<1>4. PICK l \in Listings : StUpdateBy(kind, l)
      BY <1>1, StUpdatePick
<1>5. Shared(i)' /\ (UpTo(i, 0) => UpTo(i, 0)')
      BY <1>1, <1>2, <1>4, UpdateKeeps
<1>6. AtTrakt' = AtTrakt /\ Played' = Played
      BY <1>1 DEF AtTrakt, Played
<1>7. ASSUME Underway(i) PROVE Underway(i)'
  <2> SUFFICES
          /\ age'[i] <= 1 => OnA(i)' \subseteq Known(i)' \cup AtTrakt
          /\ \A v \in VideosOf(i) : plays[v] \in 0 .. 1 => v \in stPlays \cup OnA(i)'
          /\ \A k \in Kind : i \in Of(k) =>
                /\ ~Left("trakt", k)' /\ age'[i] <= 1 => OnA(i)' \cup Known(i)' \subseteq AtTrakt
                /\ ~Left("stremio", k)' => PlaysOf(i) \subseteq OnA(i)'
      BY <1>1, <1>6 DEF Underway, PlaysOf
  <2>1. /\ age[i] <= 1 => OnA(i) \subseteq Known(i) \cup AtTrakt
        /\ \A v \in VideosOf(i) : plays[v] \in 0 .. 1 => v \in stPlays \cup OnA(i)
        /\ \A k \in Kind : i \in Of(k) =>
              /\ ~Left("trakt", k) /\ age[i] <= 1 => OnA(i) \cup Known(i) \subseteq AtTrakt
              /\ ~Left("stremio", k) => PlaysOf(i) \subseteq OnA(i)
        BY <1>1, <1>7 DEF Underway
  <2>2. /\ OnA(i) \subseteq OnA(i)' /\ Known(i)' = Known(i)
        /\ IF i \in StItems(kind, l)
           THEN age[i] <= 1 /\ age'[i] = 1 /\ OnA(i)' = Known(i) \cup PlaysOf(i)
           ELSE /\ age'[i] = age[i] /\ OnA(i)' = OnA(i)
                /\ (i \in Of(kind) => PlaysOf(i) \subseteq Known(i))
        BY <1>1, <1>2, <1>4, UpdateShows
  <2>3. PlaysOf(i) \subseteq AtTrakt /\ Known(i) \subseteq OnA(i)
        BY DEF PlaysOf, AtTrakt, Course, Shared
  <2>4. \A k \in Kind : /\ Left("trakt", k) => Left("trakt", k)'
                        /\ Left("stremio", k) => k = kind \/ Left("stremio", k)'
        BY <1>1, <1>3, LeftTail
  <2>5. ASSUME NEW k \in Kind, i \in Of(k), ~Left("stremio", k)' PROVE PlaysOf(i) \subseteq OnA(i)'
    <3>1. CASE k = kind
          BY <2>2, <2>3, <2>5, <3>1
    <3>2. CASE k # kind
          BY <2>1, <2>2, <2>4, <2>5, <3>2
    <3> QED  BY <3>1, <3>2
  <2>6. CASE i \in StItems(kind, l)
        BY <2>1, <2>2, <2>3, <2>4, <2>5, <2>6
  <2>7. CASE i \notin StItems(kind, l)
        BY <2>1, <2>2, <2>4, <2>5, <2>7
  <2> QED  BY <2>6, <2>7
<1>8. Skipped(i)'
      BY <1>1 DEF Skipped
<1>9. Since' => Since
      BY <1>1 DEF Since
<1> QED  BY <1>5, <1>7, <1>8, <1>9 DEF Agreed

LEMMA CourseNext == ASSUME TypeOK, Course, [Next]_vars PROVE Course'
<1> USE DEF Course
<1>1. Played \subseteq Played'
      BY PlaysStay
<1>2. ASSUME UNCHANGED st, synced' => synced PROVE Course'
      BY <1>1, <1>2 DEF st
<1>3. CASE Reset \/ SsFetch \/ SsPush \/ SsFails \/ UNCHANGED vars
  <2>1. UNCHANGED st /\ (synced' => synced)
        BY <1>3 DEF Reset, SsFetch, SsPush, SsFails, st, vars
  <2> QED  BY <1>2, <2>1
<1>4. ASSUME NEW a, NEW i, NEW v,
             \/ Watch(a, i, v) \/ Toggle(a, i) \/ Release(i) \/ CacheExpires(i)
             \/ Play(i, v) \/ PlayBackdated(i, v)
      PROVE  Course'
  <2>1. UNCHANGED st /\ (synced' => synced)
        BY <1>4 DEF Watch, Toggle, Release, CacheExpires, Play, PlayBackdated
  <2> QED  BY <1>2, <2>1
<1>5. CASE StStart
      BY <1>1, <1>5 DEF StStart
<1>6. CASE StFetchIds
      BY <1>1, <1>6 DEF StFetchIds
<1>7. CASE StFetch
  <2>1. stPlays' \subseteq Played'
        BY <1>1, <1>7 DEF StFetch
  <2> QED  BY <1>7, <2>1 DEF StFetch
<1>8. ASSUME NEW kind \in Kind, ToTraktPush(kind) \/ LookupFails(kind) PROVE Course'
  <2>1. UNCHANGED <<stPc, stFull, stIds, stLib, stPlays, synced>> /\ stPc = "push"
        BY <1>8 DEF ToTraktPush, LookupFails, Stage
  <2> QED  BY <1>1, <2>1
<1>9. ASSUME NEW kind \in Kind, FetchMissing(kind) PROVE Course'
  <2>1. Head(stTodo).to = "stremio"
        BY <1>9 DEF FetchMissing, Stage
  <2>2. \A i \in Item : i \notin stIds' => stLib'[i] = Absent
        BY <1>9 DEF FetchMissing
  <2> QED  BY <1>1, <1>9, <2>1, <2>2 DEF FetchMissing, Stage
<1>10. CASE ToStremioPush
      BY <1>1, <1>10 DEF ToStremioPush
<1>11. CASE StDone \/ StAbort
  <2>1. PICK commit \in BOOLEAN : StIdle(commit)
        BY <1>11 DEF StDone, StAbort
  <2> QED  BY <2>1 DEF StIdle, NoItems
<1>12. CASE StFails
      BY <1>1, <1>12 DEF StFails
<1> QED
    BY <1>3, <1>4, <1>5, <1>6, <1>7, <1>8, <1>9, <1>10, <1>11, <1>12
    DEF Next, User, SyncStremioStremio, SyncStremioTrakt

\* A sync begins.
LEMMA StartHolds ==
    ASSUME TypeOK, Course, StStart \/ StFetchIds, NEW i \in Item, Shared(i)
    PROVE  Shared(i)' /\ (Agreed(i) => Agreed(i)')
<1>1. UNCHANGED <<release, lib, age, plays, stLib, synced>>
      BY DEF StStart, StFetchIds, lists
<1>2. /\ Played' = Played /\ AtTrakt' = AtTrakt
      /\ OnA(i)' = OnA(i) /\ Known(i)' = Known(i)
      /\ Range(Listing(i))' = Range(Listing(i))
      BY <1>1, SameItem DEF Played, AtTrakt
<1>3. Shared(i)' /\ (UpTo(i, 0)' <=> UpTo(i, 0))
      BY <1>1, <1>2 DEF Shared, UpTo
<1>4. ASSUME Agreed(i) PROVE Agreed(i)'
  <2>1. stPc' \in {"ids", "items"}
        BY DEF StStart, StFetchIds
  <2>2. Since' => Since
    <3>1. CASE StStart
      <4>1. stFull' = ~synced /\ synced' = synced /\ synced \in BOOLEAN
            BY <1>1, <3>1 DEF StStart, TypeOK
      <4>2. ~stFull' => synced
            BY <4>1
      <4>3. synced' => synced
            BY <4>1
      <4> QED  BY <4>2, <4>3 DEF Since
    <3>2. CASE StFetchIds
          BY <1>1, <3>2 DEF StFetchIds, Since
    <3> QED  BY <3>1, <3>2
  <2>3. Skipped(i)'
    <3>1. CASE StStart
          BY <3>1 DEF StStart, Skipped
    <3>2. CASE StFetchIds
      <4>1. UpTo(i, 0)
            BY <1>4, <3>2 DEF StFetchIds, Agreed, Since, Course
      <4>2. ASSUME i \notin stIds', age[i] <= 1 PROVE OnA(i) \subseteq AtTrakt
        <5>1. lib[A][i].state = "absent" \/ ~(age[i] >= 1)
              BY <3>2, <4>2 DEF StFetchIds
        <5>2. CASE lib[A][i].state = "absent"
          <6>1. lib[A][i] = Absent
                BY <5>2, CopyTypes DEF ItemState, Account
          <6> QED  BY <6>1, AbsentShows DEF OnA
        <5>3. CASE ~(age[i] >= 1)
          <6>1. age[i] <= 0
                BY <5>3 DEF TypeOK, Era
          <6> QED  BY <4>1, <6>1 DEF UpTo
        <5> QED  BY <5>1, <5>2, <5>3
      <4> QED  BY <1>1, <1>2, <4>2 DEF Skipped
    <3> QED  BY <3>1, <3>2
  <2>4. Underway(i)'
        BY <2>1 DEF Underway
  <2> QED  BY <1>3, <1>4, <2>2, <2>3, <2>4 DEF Agreed
<1> QED  BY <1>3, <1>4

\* The items and the plays are fetched.
LEMMA FetchHolds ==
    ASSUME TypeOK, Course, StFetch, NEW i \in Item, Shared(i)
    PROVE  Shared(i)' /\ (ToTrakt /\ ToStremio /\ Agreed(i) => Agreed(i)')
<1>1. /\ UNCHANGED <<release, lib, age, plays, synced, stFull, stIds>>
      /\ stPc = "items" /\ stPc' = "push" /\ stTodo' = Stages
      /\ stPlays' = {v \in Played : stFull \/ plays[v] >= 1}
      /\ stLib'[i] = IF i \in stIds THEN lib[A][i] ELSE Absent
      BY DEF StFetch, lists
<1>2. /\ OnA(i)' = OnA(i) /\ Range(Listing(i))' = Range(Listing(i))
      /\ Known(i)' = IF i \in stIds THEN OnA(i) ELSE {}
  <2>1. OnA(i)' = OnA(i) /\ Range(Listing(i))' = Range(Listing(i)) /\ Known(i)' = Watched(stLib'[i], i)
        BY <1>1 DEF OnA, Known, Watched, Listing
  <2>2. Watched(Absent, i) = {}
        BY AbsentShows
  <2> QED  BY <1>1, <2>1, <2>2 DEF OnA
<1>3. Played' = Played /\ AtTrakt' = AtTrakt
      BY <1>1 DEF Played, AtTrakt
<1>4. Shared(i)'
      BY <1>2, <1>3 DEF Shared
<1>5. ASSUME ToTrakt, ToStremio, Agreed(i) PROVE Agreed(i)'
  <2>1. Since' <=> Since
        BY <1>1 DEF Since
  <2>2. UpTo(i, 0)' <=> UpTo(i, 0)
        BY <1>1, <1>2, <1>3 DEF UpTo
  <2>3. \A kind \in Kind : i \in Of(kind) => Left("trakt", kind)' /\ Left("stremio", kind)'
    <3> SUFFICES ASSUME NEW kind \in Kind, i \in Of(kind), NEW to \in {"trakt", "stremio"}
                 PROVE  Left(to, kind)'
        OBVIOUS
    <3>1. Of(kind) # {}
          OBVIOUS
    <3>2. \E n \in 1 .. Len(Stages) : Stages[n] = [to |-> to, kind |-> kind]
          BY <1>5, <3>1, AllStages
    <3> QED  BY <1>1, <3>2 DEF Left
  <2>4. age[i] <= 1 => OnA(i) \subseteq Known(i)' \cup AtTrakt
        BY <1>1, <1>2, <1>5 DEF Agreed, Skipped
  <2>5. ASSUME NEW v \in VideosOf(i), plays[v] \in 0 .. 1 PROVE v \in stPlays' \cup OnA(i)
    <3>1. v \in Played
          BY <2>5 DEF Played, Video, NotPlayed
    <3>2. CASE stFull \/ plays[v] >= 1
          BY <1>1, <3>1, <3>2
    <3>3. CASE ~(stFull \/ plays[v] >= 1)
      <4>1. UpTo(i, 0) /\ plays[v] \in 0 .. 0
            BY <1>1, <1>5, <2>5, <3>3 DEF Agreed, Since
      <4> QED  BY <4>1 DEF UpTo
    <3> QED  BY <3>2, <3>3
  <2>6. Underway(i)'
        BY <1>1, <1>2, <1>3, <2>3, <2>4, <2>5 DEF Underway
  <2>7. Skipped(i)'
        BY <1>1 DEF Skipped
  <2> QED  BY <1>5, <2>1, <2>2, <2>6, <2>7 DEF Agreed
<1> QED  BY <1>4, <1>5

\* Items that were played and not fetched yet are fetched.
LEMMA MissingHolds ==
    ASSUME TypeOK, Course, NEW kind \in Kind, FetchMissing(kind), NEW i \in Item, Shared(i)
    PROVE  Shared(i)' /\ (Agreed(i) => Agreed(i)')
<1> DEFINE new == {j \in Of(kind) \ stIds : PlaysOf(j) # {}}
<1>1. /\ UNCHANGED <<release, lib, age, plays, synced, stFull, stPlays, stTodo>>
      /\ stPc = "push" /\ stPc' = "update"
      /\ stLib'[i] = IF i \in new THEN lib[A][i] ELSE stLib[i]
      BY DEF FetchMissing, Stage, lists
<1>2. i \in new => stLib[i] = Absent
      BY DEF Course
<1> HIDE DEF new
<1>3. /\ OnA(i)' = OnA(i) /\ Range(Listing(i))' = Range(Listing(i))
      /\ Known(i)' = IF i \in new THEN OnA(i) ELSE Known(i)
      /\ i \in new => Known(i) = {}
  <2>1. OnA(i)' = OnA(i) /\ Range(Listing(i))' = Range(Listing(i)) /\ Known(i)' = Watched(stLib'[i], i)
        BY <1>1 DEF OnA, Known, Watched, Listing
  <2>2. Watched(Absent, i) = {}
        BY AbsentShows
  <2> QED  BY <1>1, <1>2, <2>1, <2>2 DEF OnA, Known
<1>4. Played' = Played /\ AtTrakt' = AtTrakt
      BY <1>1 DEF Played, AtTrakt
<1>5. Shared(i)'
      BY <1>3, <1>4 DEF Shared
<1>6. ASSUME Agreed(i) PROVE Agreed(i)'
  <2>1. (Since' <=> Since) /\ Skipped(i)'
        BY <1>1 DEF Since, Skipped
  <2>2. UpTo(i, 0)' <=> UpTo(i, 0)
        BY <1>1, <1>3, <1>4 DEF UpTo
  <2>3. /\ PlaysOf(i)' = PlaysOf(i)
        /\ \A to, k : Left(to, k)' <=> Left(to, k)
        BY <1>1 DEF PlaysOf, Left
  <2>4. age[i] <= 1 => OnA(i) \subseteq Known(i)' \cup AtTrakt
        BY <1>1, <1>3, <1>6 DEF Agreed, Underway
  <2>5. \A k \in Kind :
           i \in Of(k) /\ ~Left("trakt", k) /\ age[i] <= 1 => OnA(i) \cup Known(i)' \subseteq AtTrakt
        BY <1>1, <1>3, <1>6 DEF Agreed, Underway
  <2>6. Underway(i)'
        BY <1>1, <1>3, <1>4, <1>6, <2>3, <2>4, <2>5 DEF Agreed, Underway
  <2> QED  BY <1>6, <2>1, <2>2, <2>6 DEF Agreed
<1> QED  BY <1>5, <1>6

\* A sync is over: what there was when it began is on both sides, and that is
\* what the new LastSyncedAt says.
LEMMA DoneHolds ==
    ASSUME TypeOK, Course, StDone \/ StAbort, NEW i \in Item, Shared(i)
    PROVE  Shared(i)' /\ (Agreed(i) => Agreed(i)')
<1>1. PICK commit \in BOOLEAN : /\ StIdle(commit) /\ UNCHANGED <<release, lib>>
                                /\ commit => stPc = "push" /\ stTodo = <<>>
                                /\ ~commit => stPc = "failed" /\ (synced' => synced)
  <2>1. CASE StDone
        BY <2>1 DEF StDone, lists
  <2>2. CASE StAbort
    <3>1. synced' => synced
          BY <2>2 DEF StAbort
    <3> QED  BY <2>2, <3>1 DEF StAbort, lists
  <2> QED  BY <2>1, <2>2
<1>2. /\ age'[i] = Later(age[i], commit) /\ age[i] \in {0, 1, 2}
      /\ \A v \in Video : /\ plays'[v] = IF plays[v] = NotPlayed THEN NotPlayed ELSE Later(plays[v], commit)
                          /\ plays[v] \in {NotPlayed, 0, 1, 2}
      /\ stLib' = NoItems /\ stPc' = "idle"
      BY <1>1 DEF StIdle, TypeOK, Era
<1>3. NotPlayed = -1 /\ VideosOf(i) \subseteq Video
      BY DEF NotPlayed, Video
<1>4. Played' = Played /\ AtTrakt' = AtTrakt
  <2>1. \A v \in Video : plays'[v] = NotPlayed <=> plays[v] = NotPlayed
        BY <1>2, <1>3 DEF Later
  <2> QED  BY <2>1 DEF Played, AtTrakt
<1>5. OnA(i)' = OnA(i) /\ Range(Listing(i))' = Range(Listing(i)) /\ Known(i)' = {}
  <2>1. OnA(i)' = OnA(i) /\ Range(Listing(i))' = Range(Listing(i)) /\ Known(i)' = Watched(stLib'[i], i)
        BY <1>1 DEF OnA, Known, Watched, Listing
  <2> QED  BY <1>2, <2>1, AbsentShows DEF NoItems
<1>6. Shared(i)'
      BY <1>4, <1>5 DEF Shared
<1>7. ASSUME Agreed(i) PROVE Agreed(i)'
  <2>1. Skipped(i)' /\ Underway(i)'
        BY <1>2 DEF Skipped, Underway
  <2>2. CASE commit
    <3>1. \A to, kind : ~Left(to, kind)
      <4>1. Len(stTodo) = 0
            BY <1>1, <2>2, EmptySeq
      <4> QED  BY <4>1 DEF Left
    <3>2. /\ age[i] <= 1 => OnA(i) \subseteq AtTrakt
          /\ \A v \in VideosOf(i) : plays[v] \in 0 .. 1 => v \in OnA(i)
      <4>1. PICK kind \in Kind : i \in Of(kind)
            BY ItemKind
      <4>2. /\ age[i] <= 1 => OnA(i) \subseteq AtTrakt
            /\ PlaysOf(i) \subseteq OnA(i)
            /\ \A v \in VideosOf(i) : plays[v] \in 0 .. 1 => v \in stPlays \cup OnA(i)
            BY <1>1, <1>7, <2>2, <3>1, <4>1 DEF Agreed, Underway
      <4> QED  BY <4>2 DEF PlaysOf
    <3>3. /\ age'[i] <= 0 => age[i] <= 1
          /\ \A v \in VideosOf(i) : plays'[v] \in 0 .. 0 => plays[v] \in 0 .. 1
          BY <1>2, <1>3, <2>2 DEF Later
    <3> QED  BY <1>4, <1>5, <2>1, <3>2, <3>3 DEF Agreed, UpTo
  <2>3. CASE ~commit
    <3>1. /\ age'[i] <= 0 => age[i] <= 0
          /\ \A v \in VideosOf(i) : plays'[v] \in 0 .. 0 => plays[v] \in 0 .. 0
          BY <1>2, <1>3, <2>3 DEF Later
    <3>2. UpTo(i, 0) => UpTo(i, 0)'
          BY <1>4, <1>5, <3>1 DEF UpTo
    <3>3. Since' => Since
          BY <1>1, <1>2, <2>3 DEF Since
    <3> QED  BY <1>7, <2>1, <3>2, <3>3 DEF Agreed
  <2> QED  BY <2>2, <2>3
<1> QED  BY <1>6, <1>7

LEMMA FailsHolds ==
    ASSUME TypeOK, Course, StFails, NEW i \in Item, i \notin exposed', Shared(i)
    PROVE  Shared(i)' /\ (Agreed(i) => Agreed(i)')
<1>1. UNCHANGED <<release, synced, stFull, stLib>> /\ stPc # "idle" /\ stPc' = "failed"
      BY DEF StFails, lists
<1>2. (Since' => Since) /\ Skipped(i)' /\ Underway(i)'
      BY <1>1 DEF Since, Skipped, Underway
<1>3. CASE UNCHANGED <<lib, age, plays>>
  <2>1. /\ Played' = Played /\ AtTrakt' = AtTrakt
        /\ OnA(i)' = OnA(i) /\ Known(i)' = Known(i)
        /\ Range(Listing(i))' = Range(Listing(i))
        BY <1>1, <1>3, SameItem DEF Played, AtTrakt
  <2>2. Shared(i)' /\ (UpTo(i, 0)' <=> UpTo(i, 0))
        BY <1>3, <2>1 DEF Shared, UpTo
  <2> QED  BY <1>2, <2>2 DEF Agreed
<1>4. CASE stPc = "update" /\ StUpdate(Head(stTodo).kind) /\ UNCHANGED plays
  <2>1. PICK kind \in Kind, l \in Listings : StUpdateBy(kind, l)
        BY <1>4, HeadFacts, StUpdatePick DEF TypeOK
  <2>2. Shared(i)' /\ (UpTo(i, 0) => UpTo(i, 0)')
        BY <1>1, <1>4, <2>1, UpdateKeeps
  <2> QED  BY <1>2, <2>2 DEF Agreed
<1>5. ASSUME NEW kind \in Kind, NEW l \in Listings, AddToHistory(kind, Unplayed(kind, {}, l)),
             exposed' = exposed \cup Misread(kind, l), UNCHANGED <<lib, age>>
      PROVE  Shared(i)' /\ (Agreed(i) => Agreed(i)')
  <2>1. i \notin Misread(kind, l) /\ i \notin {}
        BY <1>5
  <2>2. Shared(i)' /\ (UpTo(i, 0) => UpTo(i, 0)')
        BY <1>1, <1>5, <2>1, SendHolds
  <2> QED  BY <1>2, <2>2 DEF Agreed
<1> QED  BY <1>3, <1>4, <1>5 DEF StFails

LEMMA SInvNext == ASSUME TypeOK, TypeOK', SInv, [Next]_vars PROVE SInv'
<1>1. Course /\ Course' /\ exposed \subseteq exposed'
      BY CourseNext, ExposedStays DEF SInv
<1> SUFFICES ASSUME NEW i \in Item, i \notin exposed', Going(i) PROVE Going(i)'
    BY <1>1 DEF SInv
<1>2. Shared(i) /\ (ToTrakt /\ ToStremio => Agreed(i))
      BY DEF Going
<1>3. ASSUME Shared(i)', ToTrakt /\ ToStremio /\ Agreed(i) => Agreed(i)' PROVE Going(i)'
      BY <1>2, <1>3 DEF Going
<1>4. CASE User \/ (\E j \in Item : Release(j) \/ CacheExpires(j)) \/ SyncStremioStremio \/ SsFails
  <2>1. OutsideStep(i)
        BY <1>4, OutsideSteps
  <2> QED  BY <1>1, <1>2, <1>3, <2>1, OutsideHolds
<1>5. CASE StStart \/ StFetchIds
      BY <1>1, <1>2, <1>3, <1>5, StartHolds
<1>6. CASE StFetch
      BY <1>1, <1>2, <1>3, <1>6, FetchHolds
<1>7. ASSUME NEW kind \in Kind, ToTraktPush(kind) \/ LookupFails(kind) PROVE Going(i)'
      BY <1>1, <1>2, <1>3, <1>7, PushHolds
<1>8. ASSUME NEW kind \in Kind, FetchMissing(kind) PROVE Going(i)'
      BY <1>1, <1>2, <1>3, <1>8, MissingHolds
<1>9. CASE ToStremioPush
      BY <1>1, <1>2, <1>3, <1>9, UpdateHolds
<1>10. CASE StDone \/ StAbort
      BY <1>1, <1>2, <1>3, <1>10, DoneHolds
<1>11. CASE StFails
      BY <1>1, <1>2, <1>3, <1>11, FailsHolds
<1>12. CASE UNCHANGED vars
  <2>1. /\ UNCHANGED <<release, lib, stLib, age, plays, synced, stPc, stFull, stIds, stPlays, stTodo>>
        BY <1>12 DEF vars, st, lists
  <2>2. /\ Played' = Played /\ AtTrakt' = AtTrakt
        /\ OnA(i)' = OnA(i) /\ Known(i)' = Known(i) /\ PlaysOf(i)' = PlaysOf(i)
        /\ Range(Listing(i))' = Range(Listing(i))
        BY <2>1, SameItem DEF Played, AtTrakt, PlaysOf
  <2>3. Shared(i)'
        BY <1>2, <2>2 DEF Shared
  <2>4. /\ Since' <=> Since
        /\ UpTo(i, 0)' <=> UpTo(i, 0)
        /\ Skipped(i)' <=> Skipped(i)
        BY <2>1, <2>2 DEF Since, UpTo, Skipped
  <2>5. Underway(i) => Underway(i)'
    <3>1. \A to, kind : Left(to, kind)' <=> Left(to, kind)
          BY <2>1 DEF Left
    <3> QED  BY <2>1, <2>2, <3>1 DEF Underway
  <2> QED  BY <1>3, <2>3, <2>4, <2>5 DEF Agreed
<1> QED
    BY <1>4, <1>5, <1>6, <1>7, <1>8, <1>9, <1>10, <1>11, <1>12
    DEF Next, SyncStremioTrakt

LEMMA SInvInit == Init => SInv
<1> SUFFICES ASSUME Init PROVE SInv
    OBVIOUS
<1>1. Course /\ Played = {}
      BY DEF Init, Course, NoItems, Played
<1>2. \A i \in Item : Known(i) \subseteq OnA(i)
      BY DEF Init, Known, OnA, NoItems, Account
<1>3. \A i \in Item : Shared(i)
      BY <1>1, <1>2 DEF Shared
<1>4. \A i \in Item : Agreed(i)
      BY DEF Init, Agreed, Since, Skipped, Underway
<1> QED  BY <1>1, <1>3, <1>4 DEF SInv, Going

\* When a sync with Trakt is over, what was modified or played up to the new
\* LastSyncedAt is on both sides, for every item to which nothing happened that
\* the workers do not repair: whatever the user and the other worker do between
\* its steps, after failed syncs and after resets, for any items and lists.
THEOREM BothSidesAgree == Spec => []SyncedUpTo
<1>1. TypeOK /\ SInv /\ [Next]_vars => TypeOK' /\ SInv'
      BY TypeNext, SInvNext
<1>2. ASSUME SInv PROVE SyncedUpTo
  <2> SUFFICES ASSUME NEW i \in Item \ exposed, synced, ToTrakt, ToStremio
               PROVE  /\ age[i] = 0 => Watched(lib[A][i], i) \subseteq Played \cup Special
                      /\ \A v \in VideosOf(i) : plays[v] = 0 => v \in Watched(lib[A][i], i)
      BY DEF SyncedUpTo
  <2>1. UpTo(i, 0)
        BY <1>2 DEF SInv, Going, Agreed, Since
  <2> QED  BY <2>1 DEF UpTo, OnA, AtTrakt
<1> QED  BY <1>1, <1>2, TypeInit, SInvInit, PTL DEF Spec
=============================================================================
