------------------------ MODULE MCStateCacheManager -------------------------
EXTENDS StateCacheManager
=============================================================================
