------------------------------ MODULE MCFactory ------------------------------
(* The instance of FactoryWorkflow that TLC checks. *)
EXTENDS FactoryWorkflow, TLC

TableEntry(magic, label, size) == [magic |-> magic, label |-> label, size |-> size]

\* A partition with room for the meter's entries, one without, and a bundle
\* whose table has no fctry partition.
GoodTable == << TableEntry("entry", "nvs", 6), TableEntry("entry", "fctry", 4),
                TableEntry("md5", "", 0), TableEntry("entry", "fctry", 1) >>
SmallTable == << TableEntry("entry", "fctry", 3), TableEntry("erased", "", 0) >>
OldTable == << TableEntry("entry", "nvs", 6) >>

Tables == {GoodTable, SmallTable, OldTable}

ASSUME BundlesAssumption == ImagesAreReadBack

Names == Permutations(Station) \union Permutations(Board)
           \union Permutations(Meter \ Unsupported)
=============================================================================
