--------------------------- MODULE MCRoutingFiles ---------------------------
EXTENDS RoutingFiles
=============================================================================
