---------------------------- MODULE MCSPITransfer ----------------------------
(* Two threads on one SPI device. *)
EXTENDS SPITransfer

CONSTANTS a, b

Registers == {-1, 0, 1}
=============================================================================
