--------------------------- MODULE MCVoiceSession ---------------------------
EXTENDS VoiceProps

CONSTANTS j1, j2
=============================================================================
