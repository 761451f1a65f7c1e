------------------------------ MODULE MCWindows ------------------------------
(***************************************************************************)
(* Small instances of Windows: an XDG toplevel, an X11 surface, two popups.*)
(***************************************************************************)
EXTENDS Windows
CONSTANTS t1, x1, p1, p2
MCToplevels     == {t1}
MCX11Surfaces   == {x1}
MCPopupSurfaces == {p1, p2}
=============================================================================
