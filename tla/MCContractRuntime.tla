-------------------------- MODULE MCContractRuntime --------------------------
EXTENDS ContractRuntime

CONSTANTS a, b, s

MCAddress == {a, b}
MCValue == {s}
=============================================================================
