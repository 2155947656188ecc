------------------------------ MODULE MCScanner ------------------------------
(* A small instance of Scanner.                                            *)
EXTENDS ScannerContract

CONSTANTS item1, item2, noItem

MCExcluded == {noItem, item1}
MCCap == {0, 2}
MCLimit == {0, 3}
MCLength == {0, 4}

=============================================================================
