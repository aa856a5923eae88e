------------------------------- MODULE SIFile -------------------------------
(***************************************************************************)
(* The file of a secondary index: how Builder_c::Done and WriteMeta write   *)
(* it through buffered writers and append the temporary files to it, what   *)
(* SecondaryIndex_c::Setup takes from whatever it finds, and how attributes *)
(* whose columns are updated are disabled and saved.  The process may fail   *)
(* or die between any two steps, and then the file stays as it is.          *)
(*                                                                         *)
(* A file is a sequence of items, each what one call of the writer puts in  *)
(* it; a position counts items, and a buffer and a copy are so many of them. *)
(* An item that was cut is as good as missing: its reader meets the end.     *)
(***************************************************************************)
EXTENDS Integers, FiniteSets, SequencesExt

CONSTANTS
    Schema,             \* the attributes: [name, parent], parent = NoParent if none
    NoParent,
    Distinct,           \* how many values the attributes may have: functions of DOMAIN Schema
    CountMax,           \* UINT_MAX: the largest number m_uCountDistinct can be
    ValuesPerBlock,     \* VALUES_PER_BLOCK
    BufferSize,         \* m_tBufferSize, in items
    CopySize,           \* the buffer of CopySingleFile
    MaxBuilds           \* how often the index is built, at most

ASSUME FileAssumption ==
    /\ Schema \in Seq(Range(Schema)) /\ Schema # << >>
    /\ \A i, j \in DOMAIN Schema : Schema[i].name = Schema[j].name => i = j
    /\ \A i, j \in DOMAIN Schema : Schema[i].name # Schema[j].parent
    /\ Distinct \subseteq [DOMAIN Schema -> Nat]
    /\ {ValuesPerBlock, BufferSize, CopySize} \subseteq Nat \ {0}
    /\ MaxBuilds \in Nat

\* No attribute has as many values as m_uCountDistinct can count.
ASSUME CountAssumption ==
    CountMax \in Nat \ {0} /\ \A d \in Distinct : \A a \in DOMAIN Schema : d[a] < CountMax

VARIABLES
    phase,              \* where the builder or the index is
    builds,             \* how often a builder was started
    distinct,           \* m_uCountDistinct of the attributes being built
    dst,                \* the writer of the index, with its file
    tmpBlocks,          \* tTmpBlocks: the offsets of the blocks
    tmpPgm,             \* tTmpPgm
    attr, block,        \* the attribute and the block of it that come next
    blocksOffStart,     \* dBlocksOffStart
    metaOff,            \* uMetaOff of the builder
    done,               \* how much of the meta, or of the file to be copied, is out
    enabled,            \* the attributes with m_bEnabled, of the open index
    updated             \* m_bUpdated

builder == <<distinct, tmpBlocks, tmpPgm, attr, block, blocksOffStart, metaOff, done>>
index == <<enabled, updated>>
vars == <<phase, builds, dst, builder, index>>

Attr == DOMAIN Schema
----------------------------------------------------------------------------
(* Buffered files. *)

Item(kind, data) == [kind |-> kind, data |-> data]

\* FileWriter_c::Open.
Writer(file, append) == [file |-> file, used |-> << >>, at |-> 0, append |-> append]

GetPos(w) == w.at + Len(w.used)

Overwritten(file, at, items) ==
    SubSeq(file, 1, at) \o items \o SubSeq(file, at + Len(items) + 1, Len(file))

Flush(w) ==
    [w EXCEPT !.file = IF w.append THEN @ \o w.used ELSE Overwritten(@, w.at, w.used),
              !.at = GetPos(w),
              !.used = << >>]

Write(w, item) ==
    LET room == IF Len(w.used) = BufferSize THEN Flush(w) ELSE w
    IN  [room EXCEPT !.used = Append(@, item)]

Seek(w, pos) == [Flush(w) EXCEPT !.at = pos]

Close(w) == Flush(w)
----------------------------------------------------------------------------
(* The layout. *)

HeaderSize == 2                             \* the version, the offset of the meta
MetaOffPos == 1
BitsPos == 2                                \* of the meta: after the next meta and the attribute count
MetaSize == 5 + Len(Schema) + 2

BlocksFor(count) == IF count = 0 THEN 0 ELSE 1 + (count - 1) \div ValuesPerBlock

Deltas(s) == [i \in DOMAIN s |-> IF i = 1 THEN s[1] ELSE s[i] - s[i - 1]]
InverseDeltas(s) ==
    LET sum[i \in DOMAIN s] == IF i = 1 THEN s[1] ELSE sum[i - 1] + s[i] IN sum

Bits(set) == [a \in Attr |-> IF a \in set THEN 1 ELSE 0]

BlocksCount ==
    LET end == Append(blocksOffStart, GetPos(tmpBlocks))
    IN  [a \in Attr |-> end[a + 1] - end[a]]

\* What WriteMeta writes at the offset of the meta.
Meta ==
    <<Item("nextMeta", <<0>>), Item("attrsCount", <<Len(Schema)>>), Item("bits", Bits(Attr)),
      Item("settings", << >>), Item("perBlock", <<ValuesPerBlock>>)>>
    \o [a \in Attr |-> Item("attr", <<a, distinct[a]>>)]
    \o <<Item("blocksOff", Deltas(blocksOffStart)), Item("blocksCount", BlocksCount)>>
----------------------------------------------------------------------------
(* Reading. *)

\* The reader finds an item at a position; past the end it is in error.
Has(file, pos) == pos < Len(file)
Data(file, pos) == file[pos + 1].data

MetaOff(file) == Data(file, MetaOffPos)[1]
StoredDistinct(file, a) == Data(file, MetaOff(file) + 4 + a)[2]
BlockStartOff(file) == InverseDeltas(Data(file, MetaOff(file) + MetaSize - 2))
StoredCount(file) == Data(file, MetaOff(file) + MetaSize - 1)
BlocksBase(file) == MetaOff(file) + MetaSize + 2 * Len(Schema)

HeaderRead(file) ==
    /\ Has(file, MetaOffPos)
    /\ HeaderSize <= MetaOff(file) /\ MetaOff(file) < Len(file)

MetaRead(file) ==
    /\ Has(file, MetaOff(file) + MetaSize - 1)
    /\ \A a \in Attr : Has(file, MetaOff(file) + MetaSize + 2 * a - 1)

\* The tables of block offsets follow one another and end inside the file.
\* Mutant: where they end is not compared with the file.
TablesUnbounded(file) ==
    \A a \in Attr :
        LET start == BlockStartOff(file)[a]
            count == StoredCount(file)[a]
        IN  /\ count = BlocksFor(StoredDistinct(file, a))
            /\ start = IF a = 1 THEN 0 ELSE BlockStartOff(file)[a - 1] + StoredCount(file)[a - 1]

TablesInside(file) ==
    LET size == Len(file) - BlocksBase(file)
    IN  \A a \in Attr :
            LET start == BlockStartOff(file)[a]
                count == StoredCount(file)[a]
            IN  /\ count = BlocksFor(StoredDistinct(file, a))
                /\ start = IF a = 1 THEN 0 ELSE BlockStartOff(file)[a - 1] + StoredCount(file)[a - 1]
                /\ start <= size /\ count <= size - start

Accepts(file) == HeaderRead(file) /\ MetaRead(file) /\ TablesInside(file)

StoredEnabled(file) == {a \in Attr : Data(file, MetaOff(file) + BitsPos)[a] = 1}
----------------------------------------------------------------------------
(* Building. *)

Init ==
    /\ phase = "idle" /\ builds = 0
    /\ distinct = [a \in Attr |-> 0]
    /\ dst = Writer(<< >>, TRUE)
    /\ tmpBlocks = Writer(<< >>, TRUE) /\ tmpPgm = Writer(<< >>, TRUE)
    /\ attr = 1 /\ block = 1 /\ blocksOffStart = << >>
    /\ metaOff = 0 /\ done = 0
    /\ enabled = {} /\ updated = FALSE

Building == {"blocks", "closed", "patch", "meta", "copyPgm", "copyBlocks"}
Idle == {"idle", "built", "failed", "refused"}

\* Done opens the files, truncating them, and reserves the header.
Start ==
    /\ phase \in Idle /\ builds < MaxBuilds
    /\ builds' = builds + 1
    /\ distinct' \in Distinct
    /\ dst' = Write(Write(Writer(<< >>, TRUE), Item("version", << >>)), Item("metaOff", <<0>>))
    /\ tmpBlocks' = Writer(<< >>, TRUE) /\ tmpPgm' = Writer(<< >>, TRUE)
    /\ attr' = 1 /\ block' = 1 /\ blocksOffStart' = <<0>>
    /\ metaOff' = 0 /\ done' = 0
    /\ phase' = "blocks"
    /\ UNCHANGED index

\* FlushBlock: the offset goes to the temporary file, the block to the index.
WriteBlock ==
    /\ phase = "blocks" /\ attr \in Attr
    /\ block <= BlocksFor(distinct[attr])
    /\ tmpBlocks' = Write(tmpBlocks, Item("offset", <<GetPos(dst)>>))
    /\ dst' = Write(dst, Item("block", <<attr, block>>))
    /\ block' = block + 1
    /\ UNCHANGED <<phase, builds, distinct, tmpPgm, attr, blocksOffStart, metaOff, done, index>>

\* The attribute is through: its PGM goes to the temporary file.
EndAttr ==
    /\ phase = "blocks" /\ attr \in Attr
    /\ block > BlocksFor(distinct[attr])
    /\ tmpPgm' = Write(Write(tmpPgm, Item("pgmLen", <<1>>)), Item("pgm", <<attr>>))
    /\ attr' = attr + 1 /\ block' = 1
    /\ blocksOffStart' =
           IF attr' \in Attr THEN Append(blocksOffStart, GetPos(tmpBlocks)) ELSE blocksOffStart
    /\ UNCHANGED <<phase, builds, distinct, dst, tmpBlocks, metaOff, done, index>>

\* Mutant: the file of the offsets is copied while its writer still holds the last ones.
CloseAllButBlocks ==
    /\ phase = "blocks" /\ attr \notin Attr
    /\ metaOff' = GetPos(dst)
    /\ dst' = Close(dst) /\ tmpPgm' = Close(tmpPgm)
    /\ phase' = "closed"
    /\ UNCHANGED <<builds, distinct, tmpBlocks, attr, block, blocksOffStart, done, index>>

CloseAll ==
    /\ phase = "blocks" /\ attr \notin Attr
    /\ metaOff' = GetPos(dst)
    /\ dst' = Close(dst) /\ tmpBlocks' = Close(tmpBlocks) /\ tmpPgm' = Close(tmpPgm)
    /\ phase' = "closed"
    /\ UNCHANGED <<builds, distinct, attr, block, blocksOffStart, done, index>>

\* WriteMeta opens the file again, to overwrite: first the offset in the header...
WriteMetaOff ==
    /\ phase = "closed"
    /\ dst' = Write(Seek(Writer(dst.file, FALSE), MetaOffPos), Item("metaOff", <<metaOff>>))
    /\ phase' = "patch"
    /\ UNCHANGED <<builds, builder, index>>

\* ... and then the meta behind the blocks.
SeekMeta ==
    /\ phase = "patch"
    /\ dst' = Seek(dst, metaOff)
    /\ phase' = "meta"
    /\ UNCHANGED <<builds, builder, index>>

WriteMeta ==
    /\ phase = "meta"
    /\ IF done < Len(Meta)
         THEN /\ dst' = Write(dst, Meta[done + 1])
              /\ done' = done + 1 /\ phase' = phase
         ELSE /\ dst' = Close(dst)
              /\ done' = 0 /\ phase' = "copyPgm"
    /\ UNCHANGED <<builds, distinct, tmpBlocks, tmpPgm, attr, block, blocksOffStart, metaOff, index>>

\* CopySingleFile, a buffer at a time.
Copy(from, to, source) ==
    /\ phase = from
    /\ IF done < Len(source.file)
         THEN LET end == IF done + CopySize < Len(source.file) THEN done + CopySize ELSE Len(source.file)
              IN  /\ dst' = [dst EXCEPT !.file = @ \o SubSeq(source.file, done + 1, end)]
                  /\ done' = end /\ phase' = phase
         ELSE /\ done' = 0 /\ phase' = to
              /\ UNCHANGED dst
    /\ UNCHANGED <<builds, distinct, tmpBlocks, tmpPgm, attr, block, blocksOffStart, metaOff, index>>

CopyPgm == Copy("copyPgm", "copyBlocks", tmpPgm)
CopyBlocks == Copy("copyBlocks", "built", tmpBlocks)

\* A file cannot be opened or copied, and Done returns false; what the
\* writer of the index holds is flushed when it is destroyed.
Fail ==
    /\ phase \in {"blocks", "closed", "copyPgm", "copyBlocks"}
    /\ dst' = Close(dst)
    /\ phase' = "failed"
    /\ UNCHANGED <<builds, builder, index>>

\* The process dies with what is in its memory.
Crash ==
    /\ phase \in Building \cup {"serving"}
    /\ dst' = Writer(dst.file, TRUE)
    /\ enabled' = {} /\ updated' = FALSE
    /\ phase' = "idle"
    /\ UNCHANGED <<builds, builder>>
----------------------------------------------------------------------------
(* Serving. *)

\* Setup.  It takes the file or refuses it.
SetupRefuses ==
    /\ phase \in Idle /\ ~Accepts(dst.file)
    /\ phase' = "refused"
    /\ UNCHANGED <<builds, dst, builder, index>>

SetupAccepts ==
    /\ phase \in Idle /\ Accepts(dst.file)
    /\ enabled' = StoredEnabled(dst.file) /\ updated' = FALSE
    /\ phase' = "serving"
    /\ UNCHANGED <<builds, dst, builder>>

\* m_hAttrs: a name is its attribute's; the name of a JSON parent, its first child's.
Named(name) == {a \in Attr : name \in {Schema[a].name, Schema[a].parent}}
ColumnId(name) == CHOOSE a \in Named(name) : \A b \in Named(name) : a <= b

Name == {Schema[a].name : a \in Attr} \cup ({Schema[a].parent : a \in Attr} \ {NoParent})

IsEnabled(name) == ColumnId(name) \in enabled

\* Mutant: whether the attribute is enabled is not asked.
CountOfAny(name) == StoredDistinct(dst.file, ColumnId(name))

\* A disabled attribute has no number, but the -1 that is meant to say so is converted
\* to the unsigned type of m_uCountDistinct on its way out.
GetCountDistinct(name) ==
    (IF IsEnabled(name) THEN StoredDistinct(dst.file, ColumnId(name)) ELSE -1) % (CountMax + 1)

Siblings(a) == {b \in Attr : Schema[a].parent # NoParent /\ Schema[b].parent = Schema[a].parent}

\* Mutants: the siblings stay enabled; a column updated before makes the flag forget.
ColumnUpdatedAlone(name) ==
    LET a == ColumnId(name)
    IN  /\ phase = "serving"
        /\ updated' = (updated \/ a \in enabled)
        /\ enabled' = enabled \ {a}
        /\ UNCHANGED <<phase, builds, dst, builder>>

ColumnUpdatedForgets(name) ==
    LET a == ColumnId(name)
    IN  /\ phase = "serving"
        /\ updated' = (a \in enabled)
        /\ enabled' = enabled \ (IF a \in enabled THEN {a} \cup Siblings(a) ELSE {})
        /\ UNCHANGED <<phase, builds, dst, builder>>

ColumnUpdated(name) ==
    LET a == ColumnId(name)
    IN  /\ phase = "serving"
        /\ updated' = (updated \/ a \in enabled)
        /\ enabled' = enabled \ (IF a \in enabled THEN {a} \cup Siblings(a) ELSE {})
        /\ UNCHANGED <<phase, builds, dst, builder>>

\* SaveMeta overwrites the bits.  m_bUpdated stays as it is: the next call saves again.
SaveMeta ==
    /\ phase = "serving"
    /\ updated
    /\ dst' = Close(Write(Seek(Writer(dst.file, FALSE), MetaOff(dst.file) + BitsPos),
                          Item("bits", Bits(enabled))))
    /\ UNCHANGED <<phase, builds, builder, index>>
----------------------------------------------------------------------------
Build == Start \/ WriteBlock \/ EndAttr \/ CloseAll \/ WriteMetaOff \/ SeekMeta \/ WriteMeta
             \/ CopyPgm \/ CopyBlocks

Next == Build \/ Fail \/ Crash \/ SetupRefuses \/ SetupAccepts \/ SaveMeta
            \/ \E name \in Name : ColumnUpdated(name)

Spec == Init /\ [][Next]_vars
----------------------------------------------------------------------------
(* Correctness. *)

\* Every variable has its type; no buffer exceeds its size.
TypeOK ==
    /\ phase \in Building \cup Idle \cup {"serving"}
    /\ builds \in 0..MaxBuilds
    /\ distinct \in [Attr -> Nat]
    /\ \A w \in {dst, tmpBlocks, tmpPgm} :
           /\ DOMAIN w = {"file", "used", "at", "append"}
           /\ \A i \in DOMAIN w.file : w.file[i].data \in Seq(Int)
           /\ Len(w.used) <= BufferSize
           /\ w.at \in Nat /\ w.append \in BOOLEAN
    /\ attr \in 1..Len(Schema) + 1 /\ block \in Nat \ {0}
    /\ blocksOffStart \in Seq(Nat) /\ metaOff \in Nat /\ done \in Nat
    /\ enabled \subseteq Attr /\ updated \in BOOLEAN

\* A file that Setup takes is a whole one, wherever the builder stopped, failed or
\* died: the way every query goes, from the base of the offset tables over the start
\* of the attribute's table to the offset of a block, leads to that attribute's
\* block, and the PGM indexes are those of the attributes.
AcceptedIsWhole ==
    Accepts(dst.file) =>
        LET file == dst.file IN
        \A a \in Attr :
            /\ file[MetaOff(file) + MetaSize + 2 * a] = Item("pgm", <<a>>)
            /\ \A b \in 1..BlocksFor(StoredDistinct(file, a)) :
                   LET entry == BlocksBase(file) + BlockStartOff(file)[a] + b
                   IN  /\ entry \in DOMAIN file /\ file[entry].kind = "offset"
                       /\ Has(file, file[entry].data[1])
                       /\ file[file[entry].data[1] + 1] = Item("block", <<a, b>>)

\* When Done returns true, Setup takes the file, with every attribute enabled.
BuiltIsAccepted ==
    phase = "built" => Accepts(dst.file) /\ StoredEnabled(dst.file) = Attr

\* An update that is not on disk yet is one that m_bUpdated remembers: SaveMeta never
\* returns true over a file that still has an updated attribute enabled.
NoLostUpdate ==
    phase = "serving" /\ ~updated => StoredEnabled(dst.file) = enabled

\* The planner gets one answer for a JSON column: the name of the parent is enabled
\* exactly when each of its fields is.  The number of distinct values it gets is the one
\* the attribute was built with, through crashes, restarts and saves, for the enabled
\* names and for no other.
NamesAgree ==
    phase = "serving" =>
        /\ \A name \in Name : \A a \in Named(name) : IsEnabled(name) = (a \in enabled)
        /\ \A name \in Name :
              (GetCountDistinct(name) = distinct[ColumnId(name)]) = IsEnabled(name)

\* The file and the index over it are what IndexLife promises: a file becomes whole in
\* one step and is never less until it is built again, updates disable families, and
\* a save makes durable all that is disabled.
Life == INSTANCE IndexLife WITH
    Family <- [a \in Attr |-> {a} \cup Siblings(a)],
    whole <- Accepts(dst.file),
    open <- phase = "serving",
    onDisk <- IF Accepts(dst.file) THEN Attr \ StoredEnabled(dst.file) ELSE {},
    inMemory <- IF phase = "serving" THEN Attr \ enabled ELSE {}

ImplementsLife == Life!Spec
=============================================================================
