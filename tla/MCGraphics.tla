------------------------------ MODULE MCGraphics ------------------------------
(* Two threads of the engine and room for two contexts.                    *)
EXTENDS Graphics
=============================================================================
