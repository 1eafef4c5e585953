------------------------------ MODULE MCTapLog ------------------------------
\* TapLog on small limits; its constants are numbers and switches.
EXTENDS TapLog
=============================================================================
