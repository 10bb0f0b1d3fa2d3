-------------------------- MODULE MCSentenceEchoes --------------------------
EXTENDS SentenceEchoes
=============================================================================
