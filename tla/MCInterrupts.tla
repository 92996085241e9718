---------------------------- MODULE MCInterrupts ----------------------------
\* Two devices, so that one's access is handled between another's steps.
EXTENDS Interrupts
=============================================================================
