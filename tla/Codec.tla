-------------------------------- MODULE Codec -------------------------------
(***************************************************************************)
(* The binary formats: STUMP fragments (MarshalFragment), the BRC-74 BUMP  *)
(* (serializeBUMP, writeVarInt), and the entries and hashes of             *)
(* diskstore/encoding.go.  An item is encoded, the bytes may be cut short  *)
(* by whatever kept them, and are decoded.                                 *)
(*                                                                         *)
(* A byte is a number below Base; the code has Base = 256, and the widths  *)
(* of its integers and the three marker bytes below Base are kept for any  *)
(* Base.  A hash, 32 bytes of which none is looked at, is one cell.        *)
(***************************************************************************)
EXTENDS Integers, Sequences

CONSTANTS
  Base,
  Hashes,
  Items    \* what is encoded: records of the forms below

(* The markers must be three, and the flag 2 a byte.                       *)
ASSUME BaseAssumption == Base \in Nat /\ Base > 4

VARIABLES
  item,
  data,    \* the bytes as they are kept
  stage,   \* "new", "encoded", "cut" or "decoded"
  whole,   \* history: the bytes were not cut
  result   \* what was decoded: [ok, item], or [ok] after an error

codecVars == <<item, data, stage, whole, result>>

Flatten(seqs) ==
  LET upTo[i \in 0..Len(seqs)] == IF i = 0 THEN << >> ELSE upTo[i - 1] \o seqs[i]
  IN upTo[Len(seqs)]

Map(f(_), s) == [i \in DOMAIN s |-> f(s[i])]

Error == [ok |-> FALSE]

(* The powers of Base, up to those of the longest integer.                 *)
Power[k \in 0..8] == IF k = 0 THEN 1 ELSE Base * Power[k - 1]

(* binary.LittleEndian.PutUint16, 32 and 64: what does not fit is cut off. *)
PutUint(v, width) == [i \in 1..width |-> (v \div Power[i - 1]) % Base]

GetUint(bytes, off, width) ==
  LET low[i \in 0..width] ==
        IF i = 0 THEN 0 ELSE low[i - 1] + bytes[off + i] * Power[i - 1]
  IN low[width]

Byte(n) == n % Base

-----------------------------------------------------------------------------
(* A mutant of WriteVarInt: the first value of four bytes passes for one   *)
(* of two.                                                                 *)
WriteVarInt_EdgeInTwo(v) ==
  IF v < Base - 3 THEN <<v>>
  ELSE IF v <= Power[2] THEN <<Base - 3>> \o PutUint(v, 2)
  ELSE IF v < Power[4] THEN <<Base - 2>> \o PutUint(v, 4)
  ELSE <<Base - 1>> \o PutUint(v, 8)

WriteVarInt(v) ==
  IF v < Base - 3 THEN <<v>>
  ELSE IF v < Power[2] THEN <<Base - 3>> \o PutUint(v, 2)
  ELSE IF v < Power[4] THEN <<Base - 2>> \o PutUint(v, 4)
  ELSE <<Base - 1>> \o PutUint(v, 8)

Flags(txid) == IF txid THEN 2 ELSE 0

HasTxidFlag(flags) == (flags \div 2) % 2 = 1

SerializeBUMP(height, levels) ==
  LET entry(e) == WriteVarInt(e.offset) \o <<Flags(e.txid), e.hash>>
      level(l) == WriteVarInt(Len(l)) \o Flatten(Map(entry, l))
  IN WriteVarInt(height) \o <<Byte(Len(levels))>> \o Flatten(Map(level, levels))

(* Offset, flags and hash: 41 bytes, ten cells.                            *)
EntrySize == 10

MarshalFragment(levels) ==
  LET entry(e) == PutUint(e.offset, 8) \o <<Flags(e.txid), e.hash>>
      level(l) == PutUint(Len(l), 4) \o Flatten(Map(entry, l))
  IN <<Byte(Len(levels))>> \o Flatten(Map(level, levels))

FragmentEntry(bytes, off) ==
  [offset |-> GetUint(bytes, off, 8),
   txid   |-> HasTxidFlag(bytes[off + 9]),
   hash   |-> bytes[off + 10]]

(* A mutant of UnmarshalFragment: where the next level should begin, the   *)
(* end of the data counts as the end of the fragment.                      *)
UnmarshalFragment_Lenient(bytes) ==
  IF Len(bytes) < 1 THEN Error ELSE
  LET read[k \in 0..bytes[1]] ==
        IF k = 0 THEN [ok |-> TRUE, off |-> 1, item |-> << >>]
        ELSE LET before == read[k - 1] IN
             IF ~before.ok THEN Error
             ELSE IF before.off + 4 > Len(bytes) THEN before
             ELSE LET n   == GetUint(bytes, before.off, 4)
                      off == before.off + 4
                  IN IF off + n * EntrySize > Len(bytes) THEN Error
                     ELSE [ok |-> TRUE, off |-> off + n * EntrySize,
                           item |-> Append(before.item,
                                      [i \in 1..n |-> FragmentEntry(bytes, off + (i - 1) * EntrySize)])]
  IN read[bytes[1]]

UnmarshalFragment(bytes) ==
  IF Len(bytes) < 1 THEN Error ELSE
  LET read[k \in 0..bytes[1]] ==
        IF k = 0 THEN [ok |-> TRUE, off |-> 1, item |-> << >>]
        ELSE LET before == read[k - 1] IN
             IF ~before.ok \/ before.off + 4 > Len(bytes) THEN Error
             ELSE LET n   == GetUint(bytes, before.off, 4)
                      off == before.off + 4
                  IN IF off + n * EntrySize > Len(bytes) THEN Error
                     ELSE [ok |-> TRUE, off |-> off + n * EntrySize,
                           item |-> Append(before.item,
                                      [i \in 1..n |-> FragmentEntry(bytes, off + (i - 1) * EntrySize)])]
  IN read[bytes[1]]

-----------------------------------------------------------------------------
(* Txid, three indices, the number of siblings, the siblings.              *)
HeaderSize == 17

MarshalEntry(e) ==
  <<e.txid>> \o PutUint(e.subtreeIdx, 4) \o PutUint(e.localIdx, 4) \o PutUint(e.globalIdx, 4)
    \o PutUint(Len(e.siblings), 4) \o e.siblings

UnmarshalEntry(bytes) ==
  IF Len(bytes) < HeaderSize THEN Error
  ELSE LET n == GetUint(bytes, 13, 4) IN
       IF Len(bytes) < HeaderSize + n THEN Error
       ELSE [ok   |-> TRUE,
             item |-> [txid       |-> bytes[1],
                       subtreeIdx |-> GetUint(bytes, 1, 4),
                       localIdx   |-> GetUint(bytes, 5, 4),
                       globalIdx  |-> GetUint(bytes, 9, 4),
                       siblings   |-> SubSeq(bytes, HeaderSize + 1, HeaderSize + n)]]

MarshalEntries(es) ==
  LET framed(e) == PutUint(Len(MarshalEntry(e)), 4) \o MarshalEntry(e)
  IN PutUint(Len(es), 4) \o Flatten(Map(framed, es))

UnmarshalEntries(bytes) ==
  IF Len(bytes) < 4 THEN Error ELSE
  LET count == GetUint(bytes, 0, 4)
      read[i \in 0..count] ==
        IF i = 0 THEN [ok |-> TRUE, off |-> 4, item |-> << >>]
        ELSE LET before == read[i - 1] IN
             IF ~before.ok \/ before.off + 4 > Len(bytes) THEN Error
             ELSE LET eLen == GetUint(bytes, before.off, 4)
                      off  == before.off + 4
                      e    == UnmarshalEntry(SubSeq(bytes, off + 1, off + eLen))
                  IN IF off + eLen > Len(bytes) \/ ~e.ok THEN Error
                     ELSE [ok |-> TRUE, off |-> off + eLen, item |-> Append(before.item, e.item)]
  IN read[count]

MarshalHashes(hs) == PutUint(Len(hs), 4) \o hs

UnmarshalHashes(bytes) ==
  IF Len(bytes) < 4 THEN Error
  ELSE LET count == GetUint(bytes, 0, 4) IN
       IF Len(bytes) < 4 + count THEN Error
       ELSE [ok |-> TRUE, item |-> SubSeq(bytes, 5, 4 + count)]

-----------------------------------------------------------------------------
(* External: the reader of BRC-74 (go-sdk, NewMerklePathFromReader).       *)
ReadVarInt(bytes, off) ==
  IF off >= Len(bytes) THEN Error
  ELSE LET mark  == bytes[off + 1]
           width == IF mark = Base - 3 THEN 2 ELSE IF mark = Base - 2 THEN 4
                    ELSE IF mark = Base - 1 THEN 8 ELSE 0
       IN IF off + 1 + width > Len(bytes) THEN Error
          ELSE [ok |-> TRUE, off |-> off + 1 + width,
                value |-> IF width = 0 THEN mark ELSE GetUint(bytes, off + 1, width)]

ReadLevel(bytes, from) ==
  LET head == ReadVarInt(bytes, from) IN
  IF ~head.ok THEN Error ELSE
  LET read[i \in 0..head.value] ==
        IF i = 0 THEN [ok |-> TRUE, off |-> head.off, level |-> << >>]
        ELSE LET before == read[i - 1]
                 offset == IF before.ok THEN ReadVarInt(bytes, before.off) ELSE Error
             IN IF ~offset.ok THEN Error
                ELSE IF offset.off + 2 > Len(bytes) THEN Error
                ELSE [ok    |-> TRUE,
                      off   |-> offset.off + 2,
                      level |-> Append(before.level,
                                  [offset |-> offset.value,
                                   txid   |-> HasTxidFlag(bytes[offset.off + 1]),
                                   hash   |-> bytes[offset.off + 2]])]
  IN read[head.value]

ReadBUMP(bytes) ==
  LET height == ReadVarInt(bytes, 0) IN
  IF ~height.ok \/ (height.ok /\ height.off >= Len(bytes)) THEN Error ELSE
  LET read[h \in 0..bytes[height.off + 1]] ==
        IF h = 0 THEN [ok |-> TRUE, off |-> height.off + 1, levels |-> << >>]
        ELSE LET before == read[h - 1]
                 level  == IF before.ok THEN ReadLevel(bytes, before.off) ELSE Error
             IN IF ~level.ok THEN Error
                ELSE [ok |-> TRUE, off |-> level.off, levels |-> Append(before.levels, level.level)]
      all == read[bytes[height.off + 1]]
  IN IF ~all.ok THEN Error
     ELSE [ok |-> TRUE, item |-> [height |-> height.value, levels |-> all.levels]]

-----------------------------------------------------------------------------
Encode(it) ==
  CASE it.format = "fragment" -> MarshalFragment(it.value)
    [] it.format = "bump"     -> SerializeBUMP(it.value.height, it.value.levels)
    [] it.format = "entry"    -> MarshalEntry(it.value)
    [] it.format = "entries"  -> MarshalEntries(it.value)
    [] it.format = "hashes"   -> MarshalHashes(it.value)

Decode(format, bytes) ==
  CASE format = "fragment" -> UnmarshalFragment(bytes)
    [] format = "bump"     -> ReadBUMP(bytes)
    [] format = "entry"    -> UnmarshalEntry(bytes)
    [] format = "entries"  -> UnmarshalEntries(bytes)
    [] format = "hashes"   -> UnmarshalHashes(bytes)

(* What the program encodes.  Its trees have at most 63 levels, so that    *)
(* the number of them fits in a byte, as those of a list in four.  The     *)
(* indices of an entry are ints, and are not looked at.                    *)
Levels ==
  {levels \in Seq(Seq([offset : 0..(Power[8] - 1), txid : BOOLEAN, hash : Hashes])) :
     Len(levels) < Base /\ \A k \in DOMAIN levels : Len(levels[k]) < Power[4]}

StumpEntries ==
  {e \in [txid : Hashes, subtreeIdx : Int, localIdx : Int, globalIdx : Int,
          siblings : Seq(Hashes)] : HeaderSize + Len(e.siblings) < Power[4]}

ASSUME ItemsAssumption ==
  \A it \in Items :
    \/ it.format = "fragment" /\ it.value \in Levels
    \/ it.format = "bump" /\ it.value \in [height : 0..(Power[8] - 1), levels : Levels]
    \/ it.format = "entry" /\ it.value \in StumpEntries
    \/ it.format = "entries" /\ it.value \in Seq(StumpEntries) /\ Len(it.value) < Power[4]
    \/ it.format = "hashes" /\ it.value \in Seq(Hashes) /\ Len(it.value) < Power[4]

CodecInit ==
  /\ item \in Items
  /\ data = << >>
  /\ stage = "new"
  /\ whole = TRUE
  /\ result = Error

Marshal ==
  /\ stage = "new"
  /\ data' = Encode(item)
  /\ stage' = "encoded"
  /\ UNCHANGED <<item, whole, result>>

Cut ==
  /\ stage = "encoded"
  /\ \E n \in 0..(Len(data) - 1) : data' = SubSeq(data, 1, n)
  /\ stage' = "cut"
  /\ whole' = FALSE
  /\ UNCHANGED <<item, result>>

Unmarshal ==
  /\ stage \in {"encoded", "cut"}
  /\ result' = Decode(item.format, data)
  /\ stage' = "decoded"
  /\ UNCHANGED <<item, data, whole>>

CodecNext == Marshal \/ Cut \/ Unmarshal

CodecSpec == CodecInit /\ [][CodecNext]_codecVars

-----------------------------------------------------------------------------
IndicesFit(e) == {e.subtreeIdx, e.localIdx, e.globalIdx} \subseteq 0..(Power[4] - 1)

(* What the format has room for: the indices of an entry, which are ints   *)
(* of 64 bits, have four bytes each.                                       *)
Fits(it) ==
  CASE it.format = "entry"   -> IndicesFit(it.value)
    [] it.format = "entries" -> \A i \in DOMAIN it.value : IndicesFit(it.value[i])
    [] OTHER                 -> TRUE

(* What is encoded is decoded to itself exactly when it fits; at every     *)
(* boundary of the lengths, counts and offsets.  What does not fit is      *)
(* never an error of the encoder: it comes back as something else.         *)
RoundTripExactly ==
  stage = "decoded" /\ whole => (result.ok /\ result.item = item.value <=> Fits(item))

(* Data that was cut short anywhere is never taken for a shorter item,     *)
(* whatever its indices: a fragment or an entry that is torn is an error,  *)
(* not a smaller proof.                                                    *)
TornIsError == stage = "decoded" /\ ~whole => ~result.ok
=============================================================================
