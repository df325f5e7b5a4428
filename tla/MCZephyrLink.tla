---------------------------- MODULE MCZephyrLink ----------------------------
EXTENDS ZephyrLink
==============================================================================
