----------------------------- MODULE MCNodeText -----------------------------
(***************************************************************************)
(* NodeText on a document of two lines.                                    *)
(***************************************************************************)
EXTENDS NodeText

CONSTANTS a, b, c, newline

MCText == <<a, newline, b, c>>
=============================================================================
