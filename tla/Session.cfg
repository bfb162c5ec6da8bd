\* Edits of the Secret and of the selected cloud at every point of a deletion.
SPECIFICATION FairSpec
CONSTANTS
    Entries <- MCEntries
    CloudNames = {"openstack", " padded"}
    Padded = {" padded"}
    Selections = {"", "openstack", " padded"}
    KeystoneOf <- MCKeystoneOf
    TokenOf <- MCTokenOf
    MaxEdits = 2
    MaxFaults = 1
INVARIANTS TypeOK StoredCheckpointIsReadable ResumesExactlyTheRecorded
PROPERTIES DestroyedWhereVerified BegunDeletionGoesOn
CHECK_DEADLOCK FALSE
