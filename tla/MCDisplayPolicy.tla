---------------------------- MODULE MCDisplayPolicy ----------------------------
(* DisplayPolicy with the rows of the two region tables of display.c; the    *)
(* left and right halves of a row, which are alike, are one region here.     *)
EXTENDS DisplayPolicy

MCCells == {"header", "strip", "upper", "lower"}
MCLayouts ==
    [github \in BOOLEAN |->
        IF github THEN <<{"header"}, {"strip"}, {"upper"}, {"lower"}>>
        ELSE <<{"header"}, {"strip", "upper"}, {"lower"}>>]
MCFooter == {"lower"}
MCHeader == {"header"}
=============================================================================
