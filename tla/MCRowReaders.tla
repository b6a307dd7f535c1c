---------------------------- MODULE MCRowReaders ----------------------------
(* One caller of NextRow on every input of up to MaxInput bytes made of    *)
(* text, commas, CR and LF.                                                *)
EXTENDS RowReaders
MCBytes == {"x", ",", "CR", "LF"}
=============================================================================
