----------------------------- MODULE MCFileOpen -----------------------------
(* TLC instance of FileOpen, over the wires of MCWires.                    *)
EXTENDS FileOpen, MCWires
=============================================================================
