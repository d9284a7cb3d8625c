------------------------- MODULE MCExperimentJournal -------------------------
EXTENDS ExperimentJournal
==============================================================================
