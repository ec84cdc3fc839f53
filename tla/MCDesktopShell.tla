--------------------------- MODULE MCDesktopShell ---------------------------
(* A small instance of DesktopShell.                                       *)
EXTENDS DesktopShell
=============================================================================
