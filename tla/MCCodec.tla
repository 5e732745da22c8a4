------------------------------- MODULE MCCodec ------------------------------
(* Values on both sides of every boundary of the lengths: one byte and the *)
(* markers, two, four and eight bytes; no level, one, two, and as many as  *)
(* a byte can count (a real tree has at most 63).                          *)
EXTENDS Codec

Values == {0, 1, Base - 4, Base - 3, Base - 1, Base, Base^2 - 1, Base^2, Base^4 - 1, Base^4,
           Base^8 - 1}

Entries == [offset : Values, txid : BOOLEAN, hash : Hashes]

LevelSets ==
  {<< >>} \cup {<<l>> : l \in {<< >>} \cup {<<e>> : e \in Entries}}
          \cup {<< <<e, d>>, <<d>> >> : e, d \in {x \in Entries : x.offset \in {1, Base^4}}}
          \cup {[k \in 1..n |-> << >>] : n \in {Base - 1}}

Indices == {-1, 0, Base, Base^4 - 1, Base^4}

Siblings == {<< >>} \cup {<<h>> : h \in Hashes} \cup (Hashes \X Hashes)

SomeEntries ==
  [txid : Hashes, subtreeIdx : {0, Base}, localIdx : Indices, globalIdx : Indices,
   siblings : Siblings]

Item(format, value) == [format |-> format, value |-> value]

MCItems ==
       {Item("fragment", l) : l \in LevelSets}
  \cup {Item("bump", [height |-> h, levels |-> l]) : h \in {0, Base^2}, l \in LevelSets}
  \cup {Item("bump", [height |-> h, levels |-> << >>]) : h \in {v \in Values : v < Base^4}}
  \cup {Item("entry", e) : e \in SomeEntries}
  \cup {Item("entries", es) : es \in {<< >>} \cup
          LET some == {e \in SomeEntries : e.localIdx \in {0, Base^4} /\ e.globalIdx = Base}
          IN {<<e>> : e \in some} \cup (some \X {e \in some : e.subtreeIdx = 0})}
  \cup {Item("hashes", hs) : hs \in Siblings}
=============================================================================
