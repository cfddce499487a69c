--------------------------- MODULE MCManualImage ---------------------------
EXTENDS ManualImage
=============================================================================
