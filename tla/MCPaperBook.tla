--------------------------- MODULE MCPaperBook ---------------------------
(* A small instance of PaperBook for TLC. *)
EXTENDS PaperBook

MCPrices == {2, 4}
MCLevels == {0, 2, 4}
=============================================================================
