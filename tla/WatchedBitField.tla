--------------------------- MODULE WatchedBitField ---------------------------
(***************************************************************************)
(* stremio/watched_bitfield: which videos of a series were watched, as a   *)
(* field of bits over the series' list of videos, and the form in which it *)
(* is kept in a library item, {anchor video}:{anchor length}:{bits}.  The  *)
(* anchor tells by how much the list has shifted since it was written.     *)
(*                                                                         *)
(* A bit field is the set of its bits that are 1, with the number of bytes *)
(* that hold it; compression and base64, which lose nothing, are left out. *)
(* Bits count from 0, lists of videos are sequences.                       *)
(***************************************************************************)
EXTENDS Integers, Sequences

CONSTANTS
    ByteSize,  \* 8 in the code
    Undefined  \* the anchor of a field over no videos

ASSUME ByteSizeAssumption == ByteSize \in Nat \ {0}

Larger(m, n) == IF m >= n THEN m ELSE n

\* Bytes that hold n bits.
Ceil(n) == (n + ByteSize - 1) \div ByteSize

-----------------------------------------------------------------------------
(* BitField8.                                                              *)

\* Length is the number of bytes here, in bits everywhere else.
NewBitField8(n) == [length |-> Ceil(n), bytes |-> Ceil(n), ones |-> {}]

NewBitField8WithValues(bytes, ones, n) ==
    LET length == IF n = 0 THEN bytes * ByteSize ELSE n
    IN [length |-> length, bytes |-> Larger(bytes, Ceil(length)), ones |-> ones]

GetBit(bf, i) == i \in bf.ones

\* LastIndexOf(true), which looks at the first Length bits only.
LastIndexOf(bf) ==
    LET seen == {i \in bf.ones : i < bf.length}
    IN IF seen = {} THEN -1 ELSE CHOOSE i \in seen : \A j \in seen : j <= i

-----------------------------------------------------------------------------
(* WatchedBitField and the WatchedField it is kept as.                     *)

\* slices.Index: where a video is in the list, -1 when it is not.
Index(videos, v) ==
    IF \E n \in 1 .. Len(videos) : videos[n] = v
    THEN (CHOOSE n \in 1 .. Len(videos) :
             videos[n] = v /\ \A m \in 1 .. n - 1 : videos[m] # v) - 1
    ELSE -1

\* SetVideo of each video of a set; a video that the list lacks is ignored.  The
\* bytes of a field over the list hold every bit of it, so none has to grow.
SetVideos(bf, videos, W) ==
    [bf EXCEPT !.ones = @ \cup {Index(videos, v) : v \in {w \in W : Index(videos, w) # -1}}]

\* NewWatchedFieldFromWatchedBitField: the anchor is the last video watched,
\* or the first one.
ToField(bf, videos) ==
    LET last == Larger(LastIndexOf(bf), 0)
    IN [anchor |-> IF last < Len(videos) THEN videos[last + 1] ELSE Undefined,
        anchorLength |-> last + 1,
        bytes |-> bf.bytes,
        ones |-> bf.ones]

\* Mutant: bits stay where they are when the list has shifted.
FromFieldUnmoved(f, videos) ==
    IF Index(videos, f.anchor) = -1 THEN NewBitField8(Len(videos))
    ELSE NewBitField8WithValues(f.bytes, f.ones, Len(videos))

\* toWatchedBitField: bits move by as much as the anchor has moved; a field
\* whose anchor is not in the list any more is blank.
FromField(f, videos) ==
    LET n == Len(videos)
        at == Index(videos, f.anchor)
        offset == f.anchorLength - at - 1
        bits == NewBitField8WithValues(f.bytes, f.ones, n)
        moved == {i \in 0 .. n - 1 :
                     i + offset >= 0 /\ i + offset < bits.length /\ GetBit(bits, i + offset)}
    IN IF at = -1 THEN NewBitField8(n)
       ELSE IF offset = 0 THEN bits
       ELSE [NewBitField8(n) EXCEPT !.ones = moved]

\* The videos of the list that a field shows as watched.
Marks(bf, videos) ==
    {videos[i + 1] : i \in {j \in bf.ones : j < Len(videos)}}
=============================================================================
