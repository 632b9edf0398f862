---------------------------- MODULE MCTableClient ----------------------------
EXTENDS TableClient
Places == PageCalls
=============================================================================
