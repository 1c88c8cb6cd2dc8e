------------------------------ MODULE MCStorage ------------------------------
(* What services keeps in flash, for TLC: the ConfigurationStore and the        *)
(* CyclicStore. They have nothing to do with each other: each behaviour is one  *)
(* scenario, in which one of them is used and the other stays as it was         *)
(* initially.                                                                   *)
EXTENDS ConfigurationStore

VARIABLES
    scenario,
    ring, startAddress, endAddress, iterators, powered, aborted, kept, mayLose, items, failures

cyclicVars == <<ring, startAddress, endAddress, iterators, powered, aborted, kept, mayLose, items, failures>>
mcVars == <<scenario, vars, cyclicVars>>

\* Items of two sizes go round a ring of three sectors, one of which holds one item
\* of the larger size, or two. The power fails twice, between any two writes to flash.
Cyclic == INSTANCE CyclicStore WITH
    NumberOfSectors <- 3, SizeOfSector <- 9, Sizes <- {1, 5}, NumberOfIterators <- 0,
    MaxItems <- 6, MaxFailures <- 2, EraseNewest <- FALSE, flash <- ring

\* One iterator reads and erases in the meantime.
Iterating == INSTANCE CyclicStore WITH
    NumberOfSectors <- 3, SizeOfSector <- 9, Sizes <- {1, 5}, NumberOfIterators <- 1,
    MaxItems <- 7, MaxFailures <- 0, EraseNewest <- FALSE, flash <- ring

ASSUME Cyclic!Assumptions /\ Iterating!Assumptions

MCInit ==
    /\ scenario \in {"configuration", "cyclic", "iterating"}
    /\ Init
    /\ IF scenario = "iterating" THEN Iterating!Init ELSE Cyclic!Init

OnlyConfiguration(step) == scenario = "configuration" /\ step /\ UNCHANGED <<scenario, cyclicVars>>
OnlyCyclic(name, step) == scenario = name /\ step /\ UNCHANGED <<scenario, vars>>

MCNext ==
    \/ OnlyConfiguration(Next)
    \/ OnlyCyclic("cyclic", Cyclic!Next)
    \/ OnlyCyclic("iterating", Iterating!Next)

\* What Fairness of ConfigurationStore says.
MCFairness == WF_mcVars(OnlyConfiguration(Completion)) /\ WF_mcVars(OnlyConfiguration(Unlock))

MCSpec == MCInit /\ [][MCNext]_mcVars /\ MCFairness

-----------------------------------------------------------------------------
(* Properties of the CyclicStore; those of the ConfigurationStore are its own. *)

\* A new iterator reads exactly the items that must be in the store, oldest first, whenever the power
\* has failed: see ContentsInv of CyclicStore.
ContentsInv ==
    /\ scenario = "cyclic" => Cyclic!TypeOK /\ Cyclic!ContentsInv
    /\ scenario = "iterating" => Iterating!ContentsInv

\* Adding an item erases the oldest items only, also after recovery: EraseSectorIfAtStart.
OldestErased == [][Cyclic!ErasesOldest]_mcVars

\* What Iterator::Read yields is in the store, and it skips nothing that is in the store after what
\* the iterator read before, although sectors are erased and start addresses move in the meantime.
NothingSkipped == [][scenario = "iterating" => Iterating!SkipsNothing]_mcVars
=============================================================================
