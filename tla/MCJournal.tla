----------------------------- MODULE MCJournal -----------------------------
EXTENDS JournalInv
=============================================================================
