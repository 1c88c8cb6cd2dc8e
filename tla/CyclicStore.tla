---- MODULE CyclicStore ----
(***************************************************************************)
(* services/util/CyclicStore.cpp: items of several sizes, kept in a ring   *)
(* of flash sectors. A sector starts with a status byte; the blocks after  *)
(* it are a header (status and two bytes of length) and data. When the     *)
(* ring is full, the sector with the oldest items is erased.               *)
(*                                                                         *)
(* All operations hold a claim on the store from their start to their end  *)
(* (resource), so that an operation is one step here; it is the sequence   *)
(* of its flash writes (an erase of a sector is one), and a power failure  *)
(* cuts that sequence off anywhere. Then everything but the flash is lost, *)
(* and the store is constructed again, which recovers.                     *)
(* A cell of the flash is the first byte of a header together with what    *)
(* the header says; the other bytes of a block are Body.                   *)
(***************************************************************************)
EXTENDS Integers, SequencesExt

CONSTANTS NumberOfSectors, SizeOfSector,
          Sizes,         \* sizes of items
          NumberOfIterators,
          MaxItems,      \* bound on the number of items added
          MaxFailures,   \* bound on the number of power failures
          EraseNewest    \* whether the application also erases the newest item after reading it

Assumptions ==
    /\ NumberOfSectors \in Nat \ {0, 1} /\ SizeOfSector \in Nat /\ NumberOfIterators \in Nat
    /\ \A size \in Sizes : size \in Nat \ {0} /\ 3 + size + 1 <= SizeOfSector \* asserted by WriteRange

VARIABLES
    flash,
    startAddress, endAddress,
    iterators,  \* the state of each iterator
    powered,    \* FALSE from a power failure until recovery has finished
    aborted,    \* an address outside of the flash was used: the program asserts
    kept,       \* history: the items that must be in the store, oldest first
    mayLose,    \* history: the power failed while the store was being cleared
    items,      \* number of items added so far; they are numbered
    failures    \* number of power failures so far

storeVars == <<flash, startAddress, endAddress, iterators>>
vars == <<storeVars, powered, aborted, kept, mayLose, items, failures>>

Iterators == 1 .. NumberOfIterators \* in the order of the list of iterators
Header == 3 \* sizeof(BlockHeader)
TotalSize == NumberOfSectors * SizeOfSector
Addresses == 0 .. TotalSize - 1
SectorOfAddress(a) == a \div SizeOfSector
AddressOfSector(s) == s * SizeOfSector
Offset(a) == a % SizeOfSector
AtStartOfSector(a) == Offset(a) = 0
StartOfNextSector(a) == AddressOfSector(SectorOfAddress(a) + 1)
NextCyclical(a) == StartOfNextSector(a) % TotalSize
PreviousCyclical(a) == AddressOfSector((SectorOfAddress(a) + NumberOfSectors - 1) % NumberOfSectors)

Cell(status, length, item) == [status |-> status, length |-> length, item |-> item]
Plain(status) == Cell(status, 0, 0)
Empty == Plain("empty")
Body == Plain("body")

Write(first, last, cell) == [first |-> first, last |-> last, cell |-> cell]
WriteCell(a, cell) == Write(a, a, cell)
EraseSector(s) == Write(AddressOfSector(s), AddressOfSector(s) + SizeOfSector - 1, Empty)
EraseAll == [s \in 1 .. NumberOfSectors |-> EraseSector(s - 1)]
Perform(f, writes) ==
    FoldLeft(LAMBDA g, w : [a \in Addresses |-> IF a \in w.first .. w.last THEN w.cell ELSE g[a]], f, writes)

\* Items that can be read, in no order
Ready(f) == {f[a].item : a \in {b \in Addresses : f[b].status = "dataReady"}}

----
(* Iterator: r is the state of a Read, with the store's start address, which it moves along. *)

FreshIterator == [delayed |-> TRUE, address |-> 0, sectorStatus |-> "used", first |-> TRUE,
                  previousErased |-> TRUE, previous |-> 0, last |-> 0, atEnd |-> FALSE]

UpdateAddress(r, a) == [r EXCEPT !.start = IF @ = r.address THEN a ELSE @, !.address = a]

ReadSectorStatus(f, r) ==
    LET status == f[r.address].status
        moved == IF status # "empty" THEN UpdateAddress(r, r.address + 1) ELSE r
    IN  [moved EXCEPT !.first = FALSE,
                      !.sectorStatus = IF status = "first" THEN IF r.first THEN "used" ELSE "empty" ELSE status]

ReadSectorStatusIfAtStart(f, r) ==
    LET moved == IF SectorOfAddress(r.address) # SectorOfAddress(r.address + Header - 1)
                 THEN UpdateAddress(r, StartOfNextSector(r.address)) ELSE r
    IN  IF moved.address \in Addresses /\ AtStartOfSector(moved.address)
        THEN ReadSectorStatus(f, moved) ELSE moved

\* The header at r.address, of a block with the given status, has been read
ReadBlock(r, block) ==
    LET next == IF SectorOfAddress(r.address + Header) = SectorOfAddress(r.address)
                THEN r.address + Header ELSE NextCyclical(r.address)
        b == IF block.status = "dataReady" THEN [r EXCEPT !.address = next] ELSE UpdateAddress(r, next)
    IN  CASE block.status = "dataReady" /\ Offset(b.address) + block.length <= SizeOfSector ->
               [b EXCEPT !.found = block.item, !.previous = b.address - Header, !.previousErased = FALSE,
                         !.address = (b.address + block.length) % TotalSize]
          [] block.status = "emptyUntilEnd" ->
               IF AtStartOfSector(b.address) THEN b ELSE UpdateAddress(b, NextCyclical(b.address))
          [] block.status = "empty" -> UpdateAddress([b EXCEPT !.reachedEnd = TRUE], b.address - Header)
          [] block.status = "writingLength" -> b
          [] block.status \in {"writingData", "erased"} -> UpdateAddress(b, b.address + block.length)
          [] OTHER -> UpdateAddress(b, NextCyclical(b.address))

RECURSIVE ReadLoop(_, _)
ReadLoop(f, r) ==
    IF r.address \notin Addresses \/ r.sectorStatus # "used" \/ r.found # 0 \/ r.reachedEnd
    THEN r
    ELSE LET b == ReadBlock(r, f[r.address])
         IN  ReadLoop(f, IF b.address \in Addresses THEN ReadSectorStatusIfAtStart(f, b) ELSE b)

\* Iterator::Read, from the moment the claim is granted
ReadFrom(f, start, it) ==
    LET address == IF it.delayed THEN start ELSE it.address
    IN  ReadLoop(f, ReadSectorStatusIfAtStart(f,
            [start |-> start, address |-> address, sectorStatus |-> it.sectorStatus, first |-> it.first,
             previousErased |-> it.previousErased, previous |-> it.previous, found |-> 0, reachedEnd |-> FALSE]))

\* A variant with a mistake: iterators are not told
ForgetIterators(start, its) == its
\* SectorIsErased for every iterator in the list; the sector is looked up again for each of them
SectorIsErased(start, its) ==
    LET Inform(r, i) ==
            LET sector == SectorOfAddress(r.start)
                it == r.its[i]
                here == SectorOfAddress(it.address) = sector
            IN  [start |-> IF here /\ r.start = it.address THEN NextCyclical(it.address) ELSE r.start,
                 its |-> [r.its EXCEPT ![i] =
                            [it EXCEPT !.address = IF here THEN NextCyclical(@) ELSE @,
                                       !.first = @ \/ here,
                                       !.previousErased = @ \/ SectorOfAddress(it.previous) = sector]]]
    IN  FoldLeft(Inform, [start |-> start, its |-> its], [i \in Iterators |-> i]).its

----
(* Add: the writes, and the state of the store after them. *)

FillSectorIfDataDoesNotFit(e, size) ==
    IF Offset(e) + Header + size > SizeOfSector THEN <<WriteCell(e, Plain("emptyUntilEnd"))>> ELSE <<>>

\* EraseSectorIfAtStart and WriteSectorStatusIfAtStartOfSector, at the start of a sector.
\* The sector after it becomes the first one of the cycle, in one of the two functions.
Rotate(start, e) ==
    <<EraseSector(SectorOfAddress(e))>>
    \o (IF flash[NextCyclical(e)].status = "used" THEN <<WriteCell(NextCyclical(e), Plain("first"))>> ELSE <<>>)
    \o <<WriteCell(e, Plain(IF e = start THEN "first" ELSE "used"))>>

\* A variant with a mistake: the data is written after the block is marked as ready
ReadyBeforeData(a, size, item) ==
    << Write(a + 1, a + 2, Body), WriteCell(a, Cell("dataReady", size, item)),
       Write(a + Header, a + Header + size - 1, Body) >>

\* The data is written in one part or in several (AddPartial)
WriteRange(a, size, item) ==
    << WriteCell(a, Plain("writingLength")),
       Write(a + 1, a + 2, Body),
       WriteCell(a, Cell("writingData", size, item)),
       Write(a + Header, a + Header + size - 1, Body),
       WriteCell(a, Cell("dataReady", size, item)) >>

\* Everything that adding the next item does, and the items that it erases
Adding(size) ==
    LET fill == FillSectorIfDataDoesNotFit(endAddress, size)
        e == IF fill = <<>> THEN endAddress ELSE NextCyclical(endAddress)
        atStart == AtStartOfSector(e)
        rotates == /\ atStart /\ flash[NextCyclical(e)].status = "used"
                   /\ SectorOfAddress(startAddress) = SectorOfAddress(e)
        start == IF rotates THEN NextCyclical(e) ELSE startAddress
        rotation == IF atStart THEN Rotate(start, e) ELSE <<>>
        a == IF atStart THEN e + 1 ELSE e
    IN  [writes |-> fill \o rotation \o WriteRange(a, size, items + 1),
         rotates |-> rotates, start |-> start, end |-> (a + Header + size) % TotalSize,
         erasedAt |-> Len(fill) + 1,
         erased |-> IF atStart THEN {flash[b].item : b \in e .. e + SizeOfSector - 1} ELSE {}]

----
(* Recover: the phase and addresses that the status bytes of the sectors give, then the end, then the start. *)

RecoverSector(r, s) ==
    LET status == flash[AddressOfSector(s)].status
        phase == r.phase
        To(p) == [r EXCEPT !.phase = p]
    IN  CASE status = "first" /\ phase = "searchingStartOrEmpty" ->
               [phase |-> IF s = 0 THEN "checkingUsedFollowedByEmpty" ELSE "checkingAllUsed",
                start |-> AddressOfSector(s), end |-> AddressOfSector(s)]
          [] status = "used" /\ phase = "checkingAllUsedOrAllEmpty" -> To("checkingAllUsed")
          [] status = "used" /\ phase \in {"checkingUsedFollowedByEmpty", "searchingStartOrEmpty", "checkingAllUsed"} -> r
          [] status = "empty" /\ phase = "searchingStartOrEmpty" ->
               [phase |-> "checkingAllUsedOrAllEmpty",
                start |-> NextCyclical(AddressOfSector(s)), end |-> AddressOfSector(s)]
          [] status = "empty" /\ phase = "checkingAllUsedOrAllEmpty" -> [phase |-> "checkingAllEmpty", start |-> 0, end |-> 0]
          [] status = "empty" /\ phase = "checkingUsedFollowedByEmpty" ->
               [r EXCEPT !.phase = "checkingAllEmpty", !.end = AddressOfSector(s)]
          [] status = "empty" /\ phase = "checkingAllEmpty" -> r
          [] OTHER -> To("corrupt")

RecoveredPhase ==
    FoldLeft(RecoverSector, [phase |-> "searchingStartOrEmpty", start |-> 0, end |-> 0],
             [s \in 1 .. NumberOfSectors |-> s - 1])

Corrupt == RecoveredPhase.phase \in {"corrupt", "searchingStartOrEmpty"}

RECURSIVE RecoverEnd(_)
RecoverEnd(e) ==
    LET block == flash[e]
        data == e + Header
    IN  IF block.status = "empty" \/ AtStartOfSector(e) THEN e
        ELSE CASE block.status \in {"dataReady", "erased"} ->
                    IF /\ data + block.length <= TotalSize
                       /\ SectorOfAddress(data) = SectorOfAddress(data + block.length)
                    THEN RecoverEnd(data + block.length) ELSE NextCyclical(data)
               [] block.status = "writingLength" -> RecoverEnd(data)
               [] block.status = "writingData" -> IF data + block.length = TotalSize THEN TotalSize ELSE RecoverEnd(data + block.length)
               [] OTHER -> NextCyclical(e)

\* A variant with a mistake: recovery continues with the last sector instead of in it
RecoverEndAtLastSector(e) == PreviousCyclical(e)
RecoverEndAddress(e) == RecoverEnd(PreviousCyclical(e) + 1)

\* One sector before the last one: blocks that cannot be read are skipped by the start address, and
\* room that was left is filled. r holds the start address, the position, and the writes.
RECURSIVE SanitizeBlocks(_, _)
SanitizeBlocks(r, s) ==
    IF SectorOfAddress(r.at) # s THEN r
    ELSE LET block == flash[r.at]
             step == CASE block.status \in {"dataReady", "writingData", "erased"} -> (r.at + Header + block.length) % TotalSize
                       [] block.status = "writingLength" -> (r.at + Header) % TotalSize
                       [] OTHER -> NextCyclical(r.at)
             at == IF Offset(step) >= SizeOfSector - Header THEN NextCyclical(step) ELSE step
             skips == block.status \in {"writingData", "erased", "writingLength", "empty", "emptyUntilEnd"}
         IN  SanitizeBlocks(
                [start |-> IF skips /\ r.start = r.at THEN at ELSE r.start, at |-> at,
                 writes |-> IF block.status = "empty" THEN Append(r.writes, WriteCell(r.at, Plain("emptyUntilEnd"))) ELSE r.writes], s)

SanitizeSector(r, s) ==
    LET first == AddressOfSector(s)
    IN  SanitizeBlocks([r EXCEPT !.start = IF @ = first THEN first + 1 ELSE @, !.at = first + 1], s)

RECURSIVE UpdateStartAddressInLastSector(_, _)
UpdateStartAddressInLastSector(start, e) ==
    LET at == IF AtStartOfSector(start) THEN start + 1 ELSE start
        block == flash[at]
    IN  IF SectorOfAddress(start) # SectorOfAddress(e) \/ start >= e THEN start
        ELSE CASE block.status \in {"writingData", "erased"} ->
                    UpdateStartAddressInLastSector((at + Header + block.length) % TotalSize, e)
               [] block.status = "writingLength" -> UpdateStartAddressInLastSector((at + Header) % TotalSize, e)
               [] OTHER -> start

\* All of Recover
Recovering ==
    LET p == RecoveredPhase
        start == IF Corrupt THEN 0 ELSE p.start
        end == CASE Corrupt -> 0
                 [] ~Corrupt /\ (p.end # p.start \/ p.phase # "checkingAllEmpty") -> RecoverEndAddress(p.end)
                 [] OTHER -> p.end
        from == SectorOfAddress(start)
        to == IF SectorOfAddress(end) >= from THEN SectorOfAddress(end) ELSE SectorOfAddress(end) + NumberOfSectors
        sanitized == FoldLeft(SanitizeSector, [start |-> start, at |-> 0, writes |-> <<>>],
                              [k \in 1 .. to - from |-> (from + k - 1) % NumberOfSectors])
    IN  IF Corrupt THEN [writes |-> EraseAll, start |-> 0, end |-> 0]
        ELSE [writes |-> sanitized.writes, end |-> end,
              start |-> IF end \in Addresses THEN UpdateStartAddressInLastSector(sanitized.start, end) ELSE 0]

----
Init ==
    /\ flash = [a \in Addresses |-> Empty]
    /\ startAddress = 0 /\ endAddress = 0
    /\ iterators = [i \in Iterators |-> FreshIterator]
    /\ powered = TRUE /\ aborted = FALSE
    /\ kept = <<>> /\ mayLose = FALSE
    /\ items = 0 /\ failures = 0

\* Everything but the flash is lost
Restart ==
    /\ powered' = FALSE
    /\ startAddress' = 0 /\ endAddress' = 0
    /\ iterators' = [i \in Iterators |-> FreshIterator]

Add(size) ==
    /\ powered /\ items < MaxItems
    /\ LET add == Adding(size) IN
       /\ flash' = Perform(flash, add.writes)
       /\ startAddress' = add.start
       /\ endAddress' = add.end
       /\ iterators' = IF add.rotates THEN SectorIsErased(startAddress, iterators) ELSE iterators
       /\ kept' = Append(SelectSeq(kept, LAMBDA x : x \notin add.erased), items + 1)
    /\ items' = items + 1
    /\ UNCHANGED <<powered, aborted, mayLose, failures>>

\* The power fails after k of the writes
AddInterrupted(size) ==
    /\ powered /\ items < MaxItems /\ failures < MaxFailures
    /\ LET add == Adding(size) IN
       \E k \in 0 .. Len(add.writes) :
       /\ flash' = Perform(flash, SubSeq(add.writes, 1, k))
       /\ kept' = SelectSeq(kept, LAMBDA x : k >= add.erasedAt => x \notin add.erased)
                  \o (IF k = Len(add.writes) THEN <<items + 1>> ELSE <<>>)
    /\ items' = items + 1
    /\ Restart /\ failures' = failures + 1
    /\ UNCHANGED <<aborted, mayLose>>

\* No iterator that has been used is used after it
Clear ==
    /\ powered /\ kept # <<>>
    /\ \A i \in Iterators : iterators[i].delayed
    /\ flash' = Perform(flash, EraseAll)
    /\ startAddress' = 0 /\ endAddress' = 0
    /\ kept' = <<>>
    /\ UNCHANGED <<iterators, powered, aborted, mayLose, items, failures>>

ClearInterrupted ==
    /\ powered /\ kept # <<>> /\ failures < MaxFailures
    /\ \E k \in 0 .. NumberOfSectors : flash' = Perform(flash, SubSeq(EraseAll, 1, k))
    /\ mayLose' = TRUE
    /\ Restart /\ failures' = failures + 1
    /\ UNCHANGED <<aborted, kept, items>>

\* The store is constructed, and recovers
Recover ==
    /\ ~powered /\ Recovering.end \in Addresses
    /\ flash' = Perform(flash, Recovering.writes)
    /\ startAddress' = Recovering.start /\ endAddress' = Recovering.end
    /\ powered' = TRUE /\ mayLose' = FALSE
    /\ kept' = IF mayLose \/ Corrupt THEN SelectSeq(kept, LAMBDA x : x \in Ready(flash')) ELSE kept
    /\ UNCHANGED <<iterators, aborted, items, failures>>

\* Recovery runs off the end of the flash: the program asserts, now and after every restart
RecoverAborts ==
    /\ ~powered /\ ~aborted /\ Recovering.end \notin Addresses
    /\ aborted' = TRUE
    /\ UNCHANGED <<storeVars, powered, kept, mayLose, items, failures>>

RecoverInterrupted ==
    /\ ~powered /\ failures < MaxFailures
    /\ \E k \in 1 .. Len(Recovering.writes) - 1 : flash' = Perform(flash, SubSeq(Recovering.writes, 1, k))
    /\ mayLose' = (mayLose \/ Corrupt)
    /\ Restart /\ failures' = failures + 1
    /\ UNCHANGED <<aborted, kept, items>>

Begin(i) ==
    /\ powered
    /\ iterators' = [iterators EXCEPT ![i] = FreshIterator]
    /\ UNCHANGED <<flash, startAddress, endAddress, powered, aborted, kept, mayLose, items, failures>>

\* An address outside of the flash makes the next call assert; the program then starts again
Read(i) ==
    /\ powered
    /\ LET it == iterators[i]
           r == ReadFrom(flash, startAddress, it)
       IN  IF r.address \in Addresses
           THEN /\ startAddress' = r.start
                /\ iterators' = [iterators EXCEPT ![i] =
                        [it EXCEPT !.delayed = FALSE, !.address = r.address, !.sectorStatus = r.sectorStatus,
                                   !.first = r.first, !.previousErased = r.previousErased,
                                   !.previous = r.previous, !.atEnd = (r.found = 0),
                                   !.last = IF r.found = 0 THEN @ ELSE r.found]]
                /\ UNCHANGED <<flash, endAddress, powered, aborted>>
           ELSE /\ aborted' = TRUE
                /\ Restart
                /\ UNCHANGED flash
    /\ UNCHANGED <<kept, mayLose, items, failures>>

ErasePrevious(i) ==
    LET it == iterators[i] IN
    /\ powered /\ ~it.previousErased
    /\ EraseNewest \/ (kept # <<>> /\ it.last # Last(kept))
    /\ flash' = [flash EXCEPT ![it.previous].status = "erased"]
    /\ iterators' = [iterators EXCEPT ![i].previousErased = TRUE]
    /\ startAddress' = IF it.previous \in {startAddress, startAddress + 1} THEN it.address ELSE startAddress
    /\ kept' = SelectSeq(kept, LAMBDA x : x # it.last)
    /\ UNCHANGED <<endAddress, powered, aborted, mayLose, items, failures>>

Next ==
    \/ \E size \in Sizes : Add(size) \/ AddInterrupted(size)
    \/ Clear \/ ClearInterrupted
    \/ Recover \/ RecoverAborts \/ RecoverInterrupted
    \/ \E i \in Iterators : Begin(i) \/ Read(i) \/ ErasePrevious(i)

Spec == Init /\ [][Next]_vars

----
TypeOK ==
    /\ \A a \in Addresses : flash[a].status \in
         IF AtStartOfSector(a) THEN {"empty", "used", "first"}
         ELSE {"empty", "emptyUntilEnd", "writingLength", "writingData", "dataReady", "erased", "body"}
    /\ powered => startAddress \in Addresses /\ endAddress \in Addresses
    /\ powered \in BOOLEAN /\ aborted \in BOOLEAN /\ mayLose \in BOOLEAN
    /\ items \in 0 .. MaxItems /\ failures \in 0 .. MaxFailures

\* What reading until nothing is found yields; OffTheEnd when an address gets outside of the flash
OffTheEnd == -1
RECURSIVE ReadAll(_, _)
ReadAll(f, it) ==
    LET r == ReadFrom(f, it.start, it)
    IN  CASE r.address \notin Addresses -> <<OffTheEnd>>
          [] r.address \in Addresses /\ r.found = 0 -> <<>>
          [] OTHER -> <<r.found>> \o ReadAll(f, [delayed |-> FALSE] @@ r)

\* A new iterator first reads exactly the items that must be in the store, oldest first: what was added
\* before a power failure, and neither erased nor cleared, is found by recovery (unless the status bytes
\* of the sectors are corrupt, see NotCorrupt). It may then read them again (see
\* NewItemInNextRead), or run off the end of the flash (see AddressesInRange).
ContentsInv ==
    powered =>
      LET contents == ReadAll(flash, [start |-> startAddress] @@ FreshIterator)
      IN  \/ IsPrefix(kept, contents)
          \/ contents # <<>> /\ Last(contents) = OffTheEnd /\ IsPrefix(Front(contents), kept)

\* Adding an item erases the oldest items only, also after recovery: EraseSectorIfAtStart
ErasesOldest == items' # items => IsSuffix(SelectSeq(kept', LAMBDA x : x <= items), kept)
OldestErased == [][ErasesOldest]_vars

\* What Iterator::Read yields is in the store, and it skips nothing that is in the store after what
\* the iterator read before, although sectors are erased and start addresses move in the meantime
SkipsNothing ==
    \A i \in Iterators :
      iterators[i].last # iterators'[i].last /\ iterators'[i].last # 0 =>
        LET x == iterators'[i].last IN
        /\ x \in Range(kept)
        /\ \A y \in Range(kept) : ~(iterators[i].last < y /\ y < x)
NothingSkipped == [][SkipsNothing]_vars

\* An iterator that found nothing more to read finds what has been added since (TestCyclicStore:
\* when_iterator_is_at_start_of_an_empty_sector_newly_added_item_is_available_in_next_read)
NewItemAvailable ==
    \A i \in Iterators :
      powered /\ iterators[i].atEnd /\ (\E y \in Range(kept) : y > iterators[i].last)
        => ReadFrom(flash, startAddress, iterators[i]).found # 0

\* When an iterator found nothing more to read, what it reads next is newer than what it has read (TestCyclicStore:
\* when_iterator_is_at_the_end_of_flash_newly_added_item_is_available_in_next_read)
NewItemInNextRead ==
    [][\A i \in Iterators :
         iterators[i].atEnd /\ ~iterators'[i].atEnd /\ ~iterators'[i].delayed => iterators'[i].last > iterators[i].last]_vars

\* Addresses stay within the flash, as hal::Flash asks
AddressesInRange == ~aborted

\* startAddress is not observable (a comment in CyclicStore.hpp), so that it does not make Add mark a second
\* sector as the first one of the cycle, which recovery calls corrupt
OneFirstSector == Cardinality({s \in 0 .. NumberOfSectors - 1 : flash[AddressOfSector(s)].status = "first"}) <= 1

\* The store itself never writes what recovery calls corrupt, whenever the power fails
NotCorrupt == ~powered /\ ~mayLose /\ kept # <<>> => ~Corrupt
====
