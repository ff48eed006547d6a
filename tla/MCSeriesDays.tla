--------------------------- MODULE MCSeriesDays ---------------------------
EXTENDS SeriesDays
=============================================================================
