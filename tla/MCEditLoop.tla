----------------------------- MODULE MCEditLoop -----------------------------
\* Two entities, which may be told apart, whose transforms have two values per
\* field: a value may come back, as it does when a drag is taken back.
EXTENDS EditLoop
=============================================================================
