--------------------------- MODULE MCChatMessages ---------------------------
EXTENDS ChatMessages
=============================================================================
