\* Three containers and a lab race on one database; two crashes.
SPECIFICATION FairSpec
CONSTANTS
    one = one
    another = another
    third = third
    lab = lab
    Instances <- MCTrio
    Labs <- MCLab
    MaxCrashes = 2
INVARIANTS
    ServesOnlyAtHead
    NeverHalfMigrated
PROPERTIES
    UnstampedTablesAreNotAdopted
    EveryInstanceServes
