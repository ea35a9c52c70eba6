---------------------------- MODULE MCPairingGate ----------------------------
\* Instances of PairingGate: retries of one selection between two devices, or
\* two selections on one page that keeps records.
EXTENDS PairingGate
=============================================================================
