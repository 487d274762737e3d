--------------------------- MODULE MCBootRestore ---------------------------
EXTENDS BootRestore

\* A backup with a snapshot and one of a store that never took one.
MCBackups == {<<"roles.json", Snapshot, Wal>>, <<"roles.json", Wal>>}
=============================================================================
