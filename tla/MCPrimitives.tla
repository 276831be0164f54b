---------------------------- MODULE MCPrimitives ----------------------------
EXTENDS Primitives

MCCount == 0 .. Half - 1
=============================================================================
