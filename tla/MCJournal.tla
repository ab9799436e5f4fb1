----------------------------- MODULE MCJournal -----------------------------
EXTENDS Journal

CONSTANTS ida, idb, k1, k2, zero

MCKey == {k1, k2}
MCId == {zero, ida, idb}

===========================================================================
