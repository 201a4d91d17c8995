---------------------------- MODULE MCCounterCodec ----------------------------
EXTENDS CounterWalk

MCIntMin == -128
MCIntMax == 127
===============================================================================
